------------------------------ MODULE SelfUpdate ------------------------------
(***************************************************************************)
(* A bridge that installs a release into its own virtualenv                *)
(* (src/herdeck/self_update.py), the service manager that starts it again  *)
(* (service.py), and the runtimes that ask for the update and wait for its *)
(* outcome (deckapp/bridge_update.py, the connection state of              *)
(* connector.py).                                                          *)
(*                                                                         *)
(* The bridge and its updater are one event loop: an update is a sequence  *)
(* of steps with an await between two of them.  A runtime asks, and reads  *)
(* frames, on threads of its own.  Versions are numbers in the order of    *)
(* compare_versions.                                                       *)
(***************************************************************************)
EXTENDS Integers, Sequences, SequencesExt, FiniteSets

CONSTANTS
    Runtimes,          \* the runtimes that share the bridge
    ReadOnly,          \* those that may have the read-only token
    Own,               \* Own[r]: the version runtime r is, and asks for
    FirstSelfUpdate,   \* FIRST_SELF_UPDATE_VERSION
    FirstVersion,      \* the version the bridge starts with
    MaxAsks,           \* bound: jobs of one runtime
    MaxFaults          \* bound: crashes and lost connections

VARIABLES
    running,    \* the version of the bridge process, Down when there is none
    venv,       \* what a fresh interpreter of the virtualenv would report
    managed,    \* probe_managed_env: the install carries the marker
    readers,    \* the runtimes with the read-only token
    busy,       \* BridgeUpdater._busy
    stage,      \* where BridgeUpdater.handle is
    task,       \* the update being worked on: version, asker, req
    promise,    \* the version a reply said the bridge restarts into
    proven,     \* versions a process of the virtualenv has reported (history)
    ran,        \* the version of the last bridge process (history)
    inbox,      \* inbox[r]: update messages on r's connection
    outbox,     \* outbox[r]: frames on their way to r
    linked,       \* linked[r]: what r's connector knows of the connection
    asking,     \* asking[r]: a POST between its checks and its send
    jobs,       \* jobs[r]: r's update jobs, the last is BridgeUpdates._jobs'
    faults

vars == <<running, venv, managed, readers, busy, stage, task, promise, proven, ran,
          inbox, outbox, linked, asking, jobs, faults>>

bridgeVars == <<running, venv, busy, stage, task, promise, proven, ran>>
clientVars == <<linked, asking, jobs>>

Down    == 0     \* no bridge process
Broken  == -1    \* a virtualenv herdeck cannot be imported from
Nothing == 0     \* no promise, no version
Gone    == "gone"  \* the connection an answer is for has ended

Versions == {FirstVersion} \cup {Own[r] : r \in Runtimes}
NoTask   == [version |-> Nothing, asker |-> Gone, req |-> 0]
Stages   == {"idle", "download", "install", "verify", "failed", "verified",
             "helpers", "leaving"}
Refusals == {"not_managed", "busy", "downgrade", "failed"}
Outcomes == Refusals \cup {"none", "updated", "readonly"}

Result(req, outcome) == [kind |-> "result", req |-> req, outcome |-> outcome]
SnapshotOf(version)  == [kind |-> "snapshot", version |-> version]

\* send: a connection that has ended swallows the frame.
To(r, frame) == IF r = Gone THEN outbox
                            ELSE [outbox EXCEPT ![r] = Append(@, frame)]

TypeOK ==
    /\ running \in Versions \cup {Down}
    /\ venv \in Versions \cup {Broken}
    /\ managed \in BOOLEAN /\ readers \subseteq Runtimes /\ busy \in BOOLEAN
    /\ stage \in Stages
    /\ task \in [version : Versions \cup {Nothing},
                 asker : Runtimes \cup {Gone}, req : 0..MaxAsks]
    /\ promise \in Versions \cup {Nothing} /\ proven \subseteq Versions /\ ran \in Versions
    /\ \A r \in Runtimes :
         /\ \A k \in DOMAIN inbox[r] : inbox[r][k] \in 1..MaxAsks
         /\ linked[r] \in [up : BOOLEAN, capable : BOOLEAN,
                         version : Versions \cup {Nothing}]
         /\ asking[r] \in BOOLEAN
         /\ \A k \in DOMAIN jobs[r] :
              jobs[r][k] \in [outcome : Outcomes, disconnected : BOOLEAN,
                              late : BOOLEAN, sent : BOOLEAN]
    /\ faults \in 0..MaxFaults

Init ==
    /\ running = FirstVersion /\ venv = FirstVersion /\ managed \in BOOLEAN
    /\ readers \in {{}, ReadOnly}
    /\ busy = FALSE /\ stage = "idle" /\ task = NoTask
    /\ promise = Nothing /\ proven = {FirstVersion} /\ ran = FirstVersion
    /\ inbox = [r \in Runtimes |-> <<>>] /\ outbox = [r \in Runtimes |-> <<>>]
    /\ linked = [r \in Runtimes |->
                 [up |-> FALSE, capable |-> FALSE, version |-> Nothing]]
    /\ asking = [r \in Runtimes |-> FALSE]
    /\ jobs = [r \in Runtimes |-> <<>>]
    /\ faults = 0

-----------------------------------------------------------------------------
(* The bridge: BridgeUpdater.handle.                                       *)

\* Mutant: only a running install counts as busy, not a finished one.
RefusalWhileInstalling(version) ==
    CASE busy /\ stage \notin {"helpers", "leaving"} -> "busy"
      [] ~managed -> "not_managed"
      [] version < FirstSelfUpdate -> "downgrade"
      [] version < running -> "downgrade"
      [] OTHER -> "none"

\* Mutant: an older version is no reason to refuse.
RefusalOfFewer(version) ==
    CASE busy -> "busy"
      [] ~managed -> "not_managed"
      [] version < FirstSelfUpdate -> "downgrade"
      [] OTHER -> "none"

\* The checks of handle, in its order.
Refusal(version) ==
    CASE busy -> "busy"
      [] ~managed -> "not_managed"
      [] version < FirstSelfUpdate -> "downgrade"
      [] version < running -> "downgrade"
      [] OTHER -> "none"

\* An update message is read and checked, without an await: it is refused,
\* it asks for the running version, or it becomes the one update.
Handle(r) ==
    /\ running # Down /\ inbox[r] # <<>>
    /\ LET req == Head(inbox[r])
           version == Own[r]
       IN  IF Refusal(version) # "none" \/ version = running
           THEN /\ outbox' = To(r, Result(req,
                                IF Refusal(version) # "none"
                                THEN Refusal(version) ELSE "updated"))
                /\ UNCHANGED <<busy, stage, task>>
           ELSE /\ busy' = TRUE /\ stage' = "download"
                /\ task' = [version |-> version, asker |-> r, req |-> req]
                /\ UNCHANGED outbox
    /\ inbox' = [inbox EXCEPT ![r] = Tail(@)]
    /\ UNCHANGED <<running, venv, managed, readers, promise, proven, ran, linked, asking, jobs,
                   faults>>

\* The wheel arrives and has the checksum of the release (or, for a release
\* before WHEELS_SINCE_VERSION, the tag stands in for it).
Download ==
    /\ stage = "download" /\ stage' = "install"
    /\ UNCHANGED <<running, venv, managed, readers, busy, task, promise, proven, ran, inbox,
                   outbox, clientVars, faults>>

\* The installer exits with 0.
Install ==
    /\ stage = "install"
    /\ venv' = task.version /\ stage' = "verify"
    /\ UNCHANGED <<running, managed, readers, busy, task, promise, proven, ran, inbox, outbox,
                   clientVars, faults>>

\* A fresh interpreter imports the bridge and reports the version.
Verify ==
    /\ stage = "verify" /\ venv = task.version
    /\ stage' = "verified" /\ proven' = proven \cup {venv}
    /\ UNCHANGED ran
    /\ UNCHANGED <<running, venv, managed, readers, busy, task, promise, inbox, outbox,
                   clientVars, faults>>

\* Any step fails: no wheel, a wrong checksum, no installer, an installer that
\* exits with an error or is killed half way, a check that times out.
Fail ==
    /\ stage \in {"download", "install", "verify"}
    /\ stage' = "failed"
    /\ venv' \in IF stage = "install" THEN {venv, task.version, Broken} ELSE {venv}
    /\ UNCHANGED <<running, managed, readers, busy, task, promise, proven, ran, inbox, outbox,
                   clientVars, faults>>

\* Mutant: only an UpdateError makes room again.
FailReplyBusy ==
    /\ stage = "failed"
    /\ outbox' = To(task.asker, Result(task.req, "failed"))
    /\ stage' = "idle" /\ task' = NoTask
    /\ UNCHANGED <<running, venv, managed, readers, busy, promise, proven, ran, inbox,
                   clientVars, faults>>

\* The error is sent, then `finally` makes room for the next update.
FailReply ==
    /\ stage = "failed"
    /\ outbox' = To(task.asker, Result(task.req, "failed"))
    /\ stage' = "idle" /\ busy' = FALSE /\ task' = NoTask
    /\ UNCHANGED <<running, venv, managed, readers, promise, proven, ran, inbox, clientVars,
                   faults>>

\* The marker is written (or is not, which is only logged) and the asker is
\* told; the updater stays busy.
Reply ==
    /\ stage = "verified"
    /\ outbox' = To(task.asker, Result(task.req, "updated"))
    /\ promise' = task.version /\ stage' = "helpers"
    /\ UNCHANGED <<running, venv, managed, readers, busy, task, proven, ran, inbox, clientVars,
                   faults>>

\* The usage agent is restarted, well or badly, and the exit is requested.
RestartHelpers ==
    /\ stage = "helpers" /\ stage' = "leaving"
    /\ UNCHANGED <<running, venv, managed, readers, busy, task, promise, proven, ran, inbox,
                   outbox, clientVars, faults>>

-----------------------------------------------------------------------------
(* The process and its connections.                                        *)

\* on_connection(False) of the runtimes that were connected.
Dropped(r) == [linked[r] EXCEPT !.up = FALSE]

\* Mutant: a connection that drops does not mark the job that waits on it.
DisconnectUnmarked(r) == jobs[r]

Disconnect(r) ==
    IF ~linked[r].up \/ jobs[r] = <<>> \/ Last(jobs[r]).outcome # "none" THEN jobs[r]
    ELSE [jobs[r] EXCEPT ![Len(jobs[r])].disconnected = TRUE]

Stop ==
    /\ running' = Down /\ busy' = FALSE /\ stage' = "idle" /\ task' = NoTask
    /\ inbox' = [r \in Runtimes |-> <<>>] /\ outbox' = [r \in Runtimes |-> <<>>]
    /\ linked' = [r \in Runtimes |-> Dropped(r)]
    /\ jobs' = [r \in Runtimes |-> Disconnect(r)]
    /\ UNCHANGED <<venv, managed, readers, promise, proven, ran, asking>>

\* serve() returns after the grace period.
Exit == stage = "leaving" /\ Stop /\ UNCHANGED faults

\* The process ends on its own; the service manager ends the installer with it.
Crash ==
    /\ running # Down /\ faults < MaxFaults
    /\ Stop /\ faults' = faults + 1

\* KeepAlive / Restart=always.
Boot ==
    /\ running = Down /\ venv # Broken
    /\ running' = venv /\ proven' = proven \cup {venv} /\ ran' = venv
    /\ promise' = Nothing
    /\ UNCHANGED <<venv, managed, readers, busy, stage, task, inbox, outbox, clientVars,
                   faults>>

\* Connector.run connects; the bridge sends the first snapshot.  What the
\* connector knows of the bridge stays that of the last connection until then.
Connect(r) ==
    /\ running # Down /\ ~linked[r].up
    /\ linked' = [linked EXCEPT ![r].up = TRUE]
    /\ outbox' = [outbox EXCEPT ![r] = <<SnapshotOf(running)>>]
    /\ UNCHANGED <<bridgeVars, managed, readers, inbox, asking, jobs, faults>>

\* A connection is lost with everything on it; the update goes on.
Drop(r) ==
    /\ linked[r].up /\ faults < MaxFaults
    /\ faults' = faults + 1
    /\ linked' = [linked EXCEPT ![r] = Dropped(r)]
    /\ jobs' = [jobs EXCEPT ![r] = Disconnect(r)]
    /\ inbox' = [inbox EXCEPT ![r] = <<>>]
    /\ outbox' = [outbox EXCEPT ![r] = <<>>]
    /\ task' = IF task.asker = r THEN [task EXCEPT !.asker = Gone] ELSE task
    /\ UNCHANGED <<running, venv, managed, readers, busy, stage, promise, proven, ran, asking>>

-----------------------------------------------------------------------------
(* The runtime: bridge_update.py.                                          *)

Running(r) == jobs[r] # <<>> /\ Last(jobs[r]).outcome = "none" /\ ~Last(jobs[r]).late

\* bridge_update up to its checks: connected, able, and older than this runtime
\* unless an update of it is running.
Ask(r) ==
    /\ ~asking[r] /\ linked[r].up /\ linked[r].capable
    /\ linked[r].version < Own[r] \/ Running(r)
    /\ Running(r) \/ Len(jobs[r]) < MaxAsks
    /\ asking' = [asking EXCEPT ![r] = TRUE]
    /\ UNCHANGED <<bridgeVars, managed, readers, inbox, outbox, linked, jobs, faults>>

\* begin and runner.send: join the running job, or start one; a message for a
\* connection that has gone meanwhile is dropped.  A read-only token makes the
\* bridge answer with an error.
Begin(r) ==
    /\ asking[r] /\ asking' = [asking EXCEPT ![r] = FALSE]
    /\ IF Running(r) \/ Len(jobs[r]) = MaxAsks
       THEN UNCHANGED <<jobs, inbox, outbox>>
       ELSE /\ jobs' = [jobs EXCEPT ![r] =
                  Append(@, [outcome |-> "none", disconnected |-> FALSE, late |-> FALSE,
                             sent |-> linked[r].up])]
            /\ inbox' = IF linked[r].up /\ r \notin readers
                        THEN [inbox EXCEPT ![r] = Append(@, Len(jobs[r]) + 1)]
                        ELSE inbox
            /\ outbox' = IF linked[r].up /\ r \in readers
                         THEN To(r, Result(Len(jobs[r]) + 1, "readonly"))
                         ELSE outbox
    /\ UNCHANGED <<bridgeVars, managed, readers, linked, faults>>

\* _finish keeps the first outcome.
Finish(r, k, outcome) ==
    IF jobs[r][k].outcome = "none"
    THEN [jobs EXCEPT ![r][k].outcome = outcome] ELSE jobs

\* on_result and on_error: the job is found by its request.
ReceiveResult(r) ==
    /\ outbox[r] # <<>> /\ Head(outbox[r]).kind = "result"
    /\ jobs' = Finish(r, Head(outbox[r]).req, Head(outbox[r]).outcome)
    /\ outbox' = [outbox EXCEPT ![r] = Tail(@)]
    /\ UNCHANGED <<bridgeVars, managed, readers, inbox, linked, asking, faults>>

\* Mutant: any reconnect of a job whose reply is missing counts.
SettlesAnyVersion(r, version) ==
    /\ jobs[r] # <<>> /\ Last(jobs[r]).outcome = "none"
    /\ Last(jobs[r]).disconnected

\* on_bridge_version: only the target settles a job, and only one whose
\* connection was lost.
Settles(r, version) ==
    /\ jobs[r] # <<>> /\ Last(jobs[r]).outcome = "none"
    /\ Last(jobs[r]).disconnected /\ version = Own[r]

\* _dispatch of a snapshot, and _bridge_update_on_snapshot.
ReceiveSnapshot(r) ==
    /\ outbox[r] # <<>> /\ Head(outbox[r]).kind = "snapshot"
    /\ LET version == Head(outbox[r]).version
       IN  /\ linked' = [linked EXCEPT ![r].capable = (version >= FirstSelfUpdate),
                                   ![r].version = version]
           /\ jobs' = IF Settles(r, version)
                      THEN Finish(r, Len(jobs[r]), "updated") ELSE jobs
    /\ outbox' = [outbox EXCEPT ![r] = Tail(@)]
    /\ UNCHANGED <<bridgeVars, managed, readers, inbox, asking, faults>>

\* 900 s have passed without an outcome.
Deadline(r) ==
    /\ Running(r)
    /\ jobs' = [jobs EXCEPT ![r][Len(jobs[r])].late = TRUE]
    /\ UNCHANGED <<bridgeVars, managed, readers, inbox, outbox, linked, asking, faults>>

\* wait: whoever polls an expired job fails it.
Poll(r) ==
    /\ jobs[r] # <<>> /\ Last(jobs[r]).late /\ Last(jobs[r]).outcome = "none"
    /\ jobs' = Finish(r, Len(jobs[r]), "failed")
    /\ UNCHANGED <<bridgeVars, managed, readers, inbox, outbox, linked, asking, faults>>

-----------------------------------------------------------------------------
BridgeStep ==
    Download \/ Install \/ Verify \/ Fail \/ FailReply \/ Reply \/ RestartHelpers
    \/ Exit \/ Boot

Next ==
    \/ BridgeStep \/ Crash
    \/ \E r \in Runtimes :
         \/ Handle(r) \/ Connect(r) \/ Drop(r)
         \/ Ask(r) \/ Begin(r) \/ ReceiveResult(r) \/ ReceiveSnapshot(r)
         \/ Deadline(r) \/ Poll(r)

\* Every await of an update has a timeout and the service manager restarts the
\* bridge; a connector reconnects and reads; a handler thread goes on.
Fairness ==
    /\ WF_vars(BridgeStep)
    /\ \A r \in Runtimes :
         /\ WF_vars(Handle(r)) /\ WF_vars(Connect(r)) /\ WF_vars(Begin(r))
         /\ WF_vars(ReceiveResult(r)) /\ WF_vars(ReceiveSnapshot(r))

Spec == Init /\ [][Next]_vars /\ Fairness

-----------------------------------------------------------------------------
\* Between the reply that an update is done and the restart, nothing touches
\* the virtualenv again: the bridge comes back as the version it promised.
PromiseKept == promise # Nothing => venv = promise

\* A runtime is told "updated" only when some process of the bridge's
\* virtualenv has reported that very version: a reply lost in the restart is
\* guessed from the reconnect, never wrongly.
UpdatedIsTrue ==
    \A r \in Runtimes : \A k \in DOMAIN jobs[r] :
        jobs[r][k].outcome = "updated" => Own[r] \in proven

\* Runtimes of different versions share a bridge, installs fail half way and
\* the process crashes; still it never comes back older than it last ran.
NeverPulledBack == venv # Broken => venv >= ran

\* An update always makes room for the next one, by failing or by restarting.
BusyEnds == busy ~> ~busy

Newest(r) == \A s \in Runtimes : Own[s] <= Own[r]

\* When the bridge has verified what a runtime asked for, the runtime hears of
\* it before its deadline, although the reply may be lost in the restart.  (A
\* runtime that is not the newest may find the bridge beyond its version.)
Promised(r) == promise = Own[r] /\ Running(r) /\ Last(jobs[r]).sent

LostReplyFound ==
    \A r \in Runtimes : Newest(r) => (Promised(r) ~> ~Running(r))
\* An update ends with the bridge the runtimes were told of.
UpdateIsHonest == PromiseKept /\ UpdatedIsTrue /\ NeverPulledBack

\* An update that was started ends, and whoever asked for it hears how.
UpdateEnds == BusyEnds /\ LostReplyFound
=============================================================================
