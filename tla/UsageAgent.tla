----------------------------- MODULE UsageAgent ------------------------------
(***************************************************************************)
(* The usage agent and the file the bridge reads (usage_agent.py,          *)
(* usage_agent_install.py, deckapp/usage_agent_relay.py and the usage part *)
(* of service.py): an agent in the login session writes what its poller    *)
(* knows, the bridge serves the file while there is one and polls itself   *)
(* otherwise, and requests of a runtime install and remove the agent.      *)
(*                                                                         *)
(* Data: usage is a number, the time is in heartbeats; paths, providers,   *)
(* environment and the bodies of the replies are left out.                 *)
(***************************************************************************)
EXTENDS Integers, FiniteSets

CONSTANTS
  MaxAge,          \* heartbeats until a file is stale
  BootoutFails,    \* may launchd fail to stop the agent?
  LoginAnytime,    \* may the user log in while a removal is between its steps?
  MaxNow, MaxUses, MaxReqs, MaxFaults   \* bounds

UsageAgentConstants == MaxAge \in Nat \ {0} /\ {BootoutFails, LoginAnytime} \subseteq BOOLEAN

VARIABLES
  now,
  usage,     \* what the providers say
  session,   \* is the user logged in at the desktop?
  unit,      \* is the unit file there?
  agent,     \* the process: [on, last, at]
  file,      \* [there, written, usage]
  bridge,    \* CompositeUsagePoller: [mode, own, doc, served]
  req,       \* requests of the runtime: where they are and what came of them
  up,        \* the connection of the runtime
  faults

vars == <<now, usage, session, unit, agent, file, bridge, req, up, faults>>

None == 0
Usages == 1..MaxUses
Reqs == 1..MaxReqs
Off == [on |-> FALSE, last |-> None, at |-> None]
Started == [Off EXCEPT !.on = TRUE]
NoFile == [there |-> FALSE, written |-> 0, usage |-> None]
Unasked == [act |-> "status", at |-> "none", code |-> "none"]
Busy == {"stopped", "unlinked", "unloaded"}

Init ==
  /\ now = 0 /\ usage = 1 /\ session \in BOOLEAN
  /\ unit \in BOOLEAN
  /\ agent = IF unit /\ session THEN Started ELSE Off
  /\ file = NoFile
  /\ bridge = [mode |-> "none", own |-> FALSE, doc |-> NoFile, served |-> None]
  /\ req = [r \in Reqs |-> Unasked] /\ up = TRUE /\ faults = 0

Fault == faults < MaxFaults /\ faults' = faults + 1

-----------------------------------------------------------------------------
(* The agent and the bridge *)

\* Every refresh, and at once when the snapshot changed; a write may fail.
Due == agent.at = None \/ now > agent.at

Tick ==
  /\ agent.on /\ (usage # agent.last \/ Due)
  /\ file' = [there |-> TRUE, written |-> now, usage |-> usage]
  /\ agent' = [agent EXCEPT !.last = usage, !.at = now]
  /\ UNCHANGED <<now, usage, session, unit, bridge, req, up, faults>>

IsFresh(doc) == doc.there /\ now - doc.written <= MaxAge

\* CompositeUsagePoller.snapshot: only the file counts while it is there.
Snapshot ==
  /\ bridge' = IF file.there
               THEN [mode |-> "agent", own |-> FALSE, doc |-> file,
                     served |-> IF IsFresh(file) THEN file.usage ELSE None]
               ELSE [mode |-> "own", own |-> TRUE, doc |-> NoFile, served |-> usage]
  /\ UNCHANGED <<now, usage, session, unit, agent, file, req, up, faults>>

-----------------------------------------------------------------------------
(* Installing and removing *)

\* The requests take turns (_LOCK).
Free(r) == \A q \in Reqs : req[q].at \notin Busy \/ q = r
At(r, act, at) == req[r].act = act /\ req[r].at = at /\ Free(r)
Step(r, at) == req' = [req EXCEPT ![r].at = at]
Done(r, code) == req' = [req EXCEPT ![r].at = "done", ![r].code = code]

\* bootout: the agent stops, or launchd does not manage it.
Bootout ==
  \/ agent' = Off /\ UNCHANGED faults
  \/ agent.on /\ BootoutFails /\ Fault /\ UNCHANGED agent

\* _install: an agent needs the login session; a unit that exists is booted out.
Install(r) ==
  /\ At(r, "install", "taken")
  /\ IF ~session THEN Done(r, "no_gui_session") /\ UNCHANGED <<agent, faults>>
     ELSE /\ Step(r, "stopped")
          /\ IF unit THEN Bootout ELSE UNCHANGED <<agent, faults>>
  /\ UNCHANGED <<now, usage, session, unit, file, bridge, up>>

\* The unit is written and bootstrapped; where the old agent still runs, or
\* launchd refuses, the unit stays without a new agent.
Bootstrap(r) ==
  /\ At(r, "install", "stopped")
  /\ unit' = TRUE
  /\ \/ ~agent.on /\ session /\ agent' = Started /\ Done(r, "ok") /\ UNCHANGED faults
     \/ agent.on /\ Done(r, "failed") /\ UNCHANGED <<agent, faults>>
     \/ ~session /\ Done(r, "failed") /\ UNCHANGED <<agent, faults>>
     \/ Fault /\ Done(r, "failed") /\ UNCHANGED agent
  /\ UNCHANGED <<now, usage, session, file, bridge, up>>

\* uninstall_service: the agent is stopped, its unit goes, and then its file.
Stop(r) ==
  /\ At(r, "uninstall", "taken")
  /\ Bootout /\ Step(r, "unloaded")
  /\ UNCHANGED <<now, usage, session, unit, file, bridge, up>>

RemoveUnit(r) ==
  /\ At(r, "uninstall", "unloaded")
  /\ unit' = FALSE /\ Step(r, "unlinked")
  /\ UNCHANGED <<now, usage, session, agent, file, bridge, up, faults>>

RemoveFile(r) ==
  /\ At(r, "uninstall", "unlinked")
  /\ file' = NoFile /\ Done(r, "ok")
  /\ UNCHANGED <<now, usage, session, unit, agent, bridge, up, faults>>

Status(r) ==
  /\ At(r, "status", "taken")
  /\ Done(r, "ok")
  /\ UNCHANGED <<now, usage, session, unit, agent, file, bridge, up, faults>>

\* After an update of the bridge the agent is restarted into the same venv.
RestartAfterUpdate ==
  /\ unit /\ session /\ agent.on
  /\ agent' = Started
  /\ UNCHANGED <<now, usage, session, unit, file, bridge, req, up, faults>>

-----------------------------------------------------------------------------
(* The runtime *)

Ask(r) ==
  /\ up /\ req[r].at = "none" /\ \A q \in 1..(r - 1) : req[q].at # "none"
  /\ \E act \in {"status", "install", "uninstall"} :
       req' = [req EXCEPT ![r] = [Unasked EXCEPT !.act = act, !.at = "sent"]]
  /\ UNCHANGED <<now, usage, session, unit, agent, file, bridge, up, faults>>

\* The bridge takes one message of a connection after the other.
Take(r) ==
  /\ req[r].at = "sent" /\ \A q \in 1..(r - 1) : req[q].at # "taken" /\ req[q].at \notin Busy
  /\ Step(r, "taken")
  /\ UNCHANGED <<now, usage, session, unit, agent, file, bridge, up, faults>>

\* A wait ends with its answer, by the clock, or with the connection; the work
\* goes on without it.
Answer(r) ==
  /\ up /\ req[r].at = "done"
  /\ Step(r, "answered")
  /\ UNCHANGED <<now, usage, session, unit, agent, file, bridge, up, faults>>

Drop ==
  /\ up /\ Fault /\ up' = FALSE
  /\ req' = [r \in Reqs |-> IF req[r].at \in {"sent", "done"} THEN [req[r] EXCEPT !.at = "answered"] ELSE req[r]]
  /\ UNCHANGED <<now, usage, session, unit, agent, file, bridge>>

Reconnect ==
  /\ ~up /\ up' = TRUE
  /\ UNCHANGED <<now, usage, session, unit, agent, file, bridge, req, faults>>

-----------------------------------------------------------------------------
(* The machine *)

Use ==
  /\ usage < MaxUses /\ usage' = usage + 1
  /\ UNCHANGED <<now, session, unit, agent, file, bridge, req, up, faults>>

Pass ==
  /\ now < MaxNow /\ now' = now + 1
  /\ UNCHANGED <<usage, session, unit, agent, file, bridge, req, up, faults>>

Logout ==
  /\ session /\ Fault /\ session' = FALSE /\ agent' = Off
  /\ UNCHANGED <<now, usage, unit, file, bridge, req, up>>

Login ==
  /\ ~session /\ session' = TRUE
  /\ LoginAnytime \/ \A r \in Reqs : req[r].at \notin Busy
  /\ agent' = IF unit THEN Started ELSE Off
  /\ UNCHANGED <<now, usage, unit, file, bridge, req, up, faults>>

Next ==
  \/ Tick \/ Snapshot \/ RestartAfterUpdate
  \/ \E r \in Reqs :
       \/ Install(r) \/ Bootstrap(r) \/ Stop(r) \/ RemoveUnit(r) \/ RemoveFile(r) \/ Status(r)
       \/ Ask(r) \/ Take(r) \/ Answer(r)
  \/ Drop \/ Reconnect \/ Use \/ Pass \/ Logout \/ Login

Spec == Init /\ [][Next]_vars

-----------------------------------------------------------------------------

TypeOK ==
  /\ now \in 0..MaxNow /\ usage \in Usages /\ faults \in 0..MaxFaults
  /\ {session, unit, up, agent.on, file.there, bridge.own} \subseteq BOOLEAN
  /\ agent.last \in {None} \cup Usages /\ file.usage \in {None} \cup Usages
  /\ bridge.mode \in {"none", "agent", "own"} /\ bridge.served \in {None} \cup Usages
  /\ \A r \in Reqs : /\ req[r].at \in Busy \cup {"none", "sent", "taken", "done", "answered"}
                     /\ req[r].code \in {"none", "ok", "failed", "no_gui_session"}

\* Once an agent is removed no file of it is left, or the bridge would wait for
\* its next heartbeat and never poll itself: while nobody removes it and no
\* agent runs, a file belongs to a unit that will start its agent again.
FileHasAnAgent ==
  (\A r \in Reqs : req[r].at \notin Busy) /\ ~agent.on /\ file.there => unit
=============================================================================
