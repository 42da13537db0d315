------------------------------- MODULE T3Setup -------------------------------
(***************************************************************************)
(* Connecting, renewing and disconnecting one T3 server (t3_setup.py,      *)
(* t3_renew.py, t3_remote.py).  A command is a process of its own: it      *)
(* reads, has a session issued on the T3 host, stores its token, writes    *)
(* the configuration, restarts the runtime, and undoes what it did when a  *)
(* later step fails.  The user edits the configuration meanwhile, the      *)
(* hourly agent may renew at the same time, and a command may be killed.   *)
(*                                                                         *)
(* Data: a token is the number of its session; a file is what it says of   *)
(* the server together with the number of the user's edit; backups,        *)
(* profiles, ports and the output of the commands are left out.            *)
(***************************************************************************)
EXTENDS Integers, FiniteSets

CONSTANTS
  Jobs,          \* commands that run, possibly at the same time
  Ops,           \* what they do: "connect", "remote", "disconnect", "renew", "renewAll"
  EditsAnytime,  \* may the user edit between a connect's files, and restart the runtime?
  RestartLies,   \* may launchctl fail after it did restart the runtime?
  MaxSessions, MaxEdits, MaxFaults   \* bounds

None == 0   \* no token
Sessions == 1..MaxSessions

VARIABLES
  config,   \* config.toml: is the server in it, and the user's edit
  marker,   \* onboarding.toml chooses local only
  picked,   \* local.toml keeps the sessions the local choice had
  agent,    \* the LaunchAgent of the SSH forward is installed
  cred,     \* the token in the Keychain or in the token file
  session,  \* the sessions at the T3 host
  held,     \* the token the runtime started with
  job,      \* the commands
  gone,     \* sessions a renewal replaced, or whose command was killed or could not revoke
  faults    \* failures so far

vars == <<config, marker, picked, agent, cred, session, held, job, gone, faults>>

States == {"none", "fresh", "due", "expired", "revoked"}
Steps == {"idle", "planned", "reached", "issued", "stored", "checked",
          "configured", "localised", "matched", "restart", "undoFiles", "undoCredential", "undoSession", "undoForward"}

Idle == [op |-> "connect", at |-> "idle", conf |-> config, mark |-> FALSE, pick |-> FALSE,
         old |-> None, mine |-> None, stored |-> FALSE, wrote |-> {}, put |-> FALSE]

Live(s) == s # None /\ session[s] \in {"fresh", "due"}

Init ==
  /\ \E has \in BOOLEAN, age \in {"fresh", "due"} :
       /\ config = [has |-> has, edit |-> 0]
       /\ cred = IF has THEN 1 ELSE None
       /\ held = cred
       /\ session = [s \in Sessions |-> IF has /\ s = 1 THEN age ELSE "none"]
  /\ marker \in BOOLEAN /\ (config.has => ~marker)
  /\ picked = FALSE /\ agent = FALSE /\ gone = {} /\ faults = 0
  /\ job = [j \in Jobs |-> Idle]

\* The next step of a command.
Moves(j, at) == job' = [job EXCEPT ![j].at = at]
Ends(j) == job' = [job EXCEPT ![j] = [Idle EXCEPT !.conf = config]]
Fault == faults < MaxFaults /\ faults' = faults + 1

-----------------------------------------------------------------------------
(* Connect *)

\* _Plan: everything that is read and checked before the first side effect.
Plan(j, op) ==
  /\ job[j].at = "idle" /\ op \in Ops \cap {"connect", "remote"}
  /\ ~config.has /\ cred = None
  /\ job' = [job EXCEPT ![j] = [Idle EXCEPT !.op = op, !.at = "planned", !.conf = config,
                                            !.mark = marker, !.pick = picked]]
  /\ UNCHANGED <<config, marker, picked, agent, cred, session, held, gone, faults>>

\* A remote server is reached through a forward: one that answers already, or
\* one that is installed first, where no agent of that name exists.
Reach(j) ==
  /\ job[j].at = "planned"
  /\ \/ UNCHANGED agent /\ Moves(j, "reached")
     \/ /\ job[j].op = "remote" /\ ~agent
        /\ agent' = TRUE
        /\ job' = [job EXCEPT ![j].at = "reached", ![j].put = TRUE]
  /\ UNCHANGED <<config, marker, picked, cred, session, held, gone, faults>>

Unreachable(j) ==
  /\ job[j].at \in {"planned", "reached"} /\ job[j].mine = None
  /\ Fault /\ Moves(j, "undoForward")
  /\ UNCHANGED <<config, marker, picked, agent, cred, session, held, gone>>

Issue(j) ==
  /\ job[j].at = "reached"
  /\ \E s \in Sessions :
       /\ session[s] = "none" /\ \A t \in 1..(s - 1) : session[t] # "none"
       /\ session' = [session EXCEPT ![s] = "fresh"]
       /\ job' = [job EXCEPT ![j].at = "issued", ![j].mine = s]
  /\ UNCHANGED <<config, marker, picked, agent, cred, held, gone, faults>>

\* The token is verified against the server, then stored, whoever stored
\* another one under the name since the plan.
Store(j) ==
  /\ job[j].at = "issued" /\ job[j].op \in {"connect", "remote"}
  /\ cred' = job[j].mine
  /\ job' = [job EXCEPT ![j].at = "stored", ![j].stored = TRUE]
  /\ UNCHANGED <<config, marker, picked, agent, session, held, gone, faults>>

\* Mutant: a connect that fails undoes its token but not its files.
UndoStraight(j) == "undoCredential"

UndoOf(j) == IF job[j].op \in {"connect", "remote"} THEN "undoFiles" ELSE "undoCredential"

Unchanged(j) == config = job[j].conf /\ marker = job[j].mark /\ picked = job[j].pick

Recheck(j) ==
  /\ job[j].at = "stored" /\ job[j].op \in {"connect", "remote"}
  /\ Moves(j, IF Unchanged(j) THEN "checked" ELSE "undoFiles")
  /\ UNCHANGED <<config, marker, picked, agent, cred, session, held, gone, faults>>

Proposed(j) == [job[j].conf EXCEPT !.has = TRUE]

WriteConfig(j) ==
  /\ job[j].at = "checked"
  /\ config' = Proposed(j)
  /\ job' = [job EXCEPT ![j].at = "configured", ![j].wrote = {"config"}]
  /\ UNCHANGED <<marker, picked, agent, cred, session, held, gone, faults>>

\* The local-only choice becomes a selection of the sessions it showed.
PickOf(j) == job[j].pick \/ job[j].mark

WriteLocal(j) ==
  /\ job[j].at = "configured"
  /\ picked' = PickOf(j)
  /\ job' = [job EXCEPT ![j].at = "localised", ![j].wrote = {"config", "local"}]
  /\ UNCHANGED <<config, marker, agent, cred, session, held, gone, faults>>

Finish(j) ==
  /\ job[j].at = "localised"
  /\ marker' = (marker /\ ~job[j].mark)
  /\ Ends(j)
  /\ UNCHANGED <<config, picked, agent, cred, session, held, gone, faults>>

\* The server refuses the token, a profile excludes it, a store or a file
\* cannot be written.
Fails(j) ==
  /\ job[j].at \in {"issued", "stored", "checked", "configured", "localised", "matched"}
  /\ Fault /\ Moves(j, UndoOf(j))
  /\ UNCHANGED <<config, marker, picked, agent, cred, session, held, gone>>

\* A file goes back only if it still is what this command wrote.
UndoFiles(j) ==
  /\ job[j].at = "undoFiles"
  /\ config' = IF "config" \in job[j].wrote /\ config = Proposed(j) THEN job[j].conf ELSE config
  /\ picked' = IF "local" \in job[j].wrote /\ picked = PickOf(j) THEN job[j].pick ELSE picked
  /\ Moves(j, "undoCredential")
  /\ UNCHANGED <<marker, agent, cred, session, held, gone, faults>>

UndoStore(j) ==
  /\ job[j].at = "undoCredential" /\ job[j].op \in {"connect", "remote"}
  /\ cred' = IF job[j].stored THEN None ELSE cred
  /\ Moves(j, "undoSession")
  /\ UNCHANGED <<config, marker, picked, agent, session, held, gone, faults>>

\* Revoking is best effort: a failure leaves the session to expire.
UndoSession(j) ==
  /\ job[j].at = "undoSession"
  /\ \/ session' = [session EXCEPT ![job[j].mine] = "revoked"] /\ UNCHANGED <<gone, faults>>
     \/ Fault /\ gone' = gone \cup {job[j].mine} /\ UNCHANGED session
  /\ Moves(j, "undoForward")
  /\ UNCHANGED <<config, marker, picked, agent, cred, held>>

UndoForward(j) ==
  /\ job[j].at = "undoForward"
  /\ agent' = (agent /\ ~job[j].put)
  /\ Ends(j)
  /\ UNCHANGED <<config, marker, picked, cred, session, held, gone, faults>>

-----------------------------------------------------------------------------
(* Disconnect *)

\* The configuration is read, checked against a second read and written; the
\* credential is kept, the forward agent of this tool goes.
Disconnect(j) ==
  /\ job[j].at = "idle" /\ "disconnect" \in Ops /\ config.has
  /\ config' = [config EXCEPT !.has = FALSE]
  /\ \/ agent' = FALSE /\ UNCHANGED faults
     \/ Fault /\ UNCHANGED agent
  /\ UNCHANGED <<marker, picked, cred, session, held, job, gone>>

-----------------------------------------------------------------------------
(* Renew *)

\* The stored token is read and shown to the server: it is renewed within the
\* window before it expires, and after it stopped being honoured.
BeginRenew(j, op) ==
  /\ job[j].at = "idle" /\ op \in Ops \cap {"renew", "renewAll"}
  /\ config.has /\ cred # None /\ session[cred] # "fresh"
  /\ job' = [job EXCEPT ![j] = [Idle EXCEPT !.op = op, !.at = "reached", !.conf = config, !.old = cred]]
  /\ UNCHANGED <<config, marker, picked, agent, cred, session, held, gone, faults>>

\* The new token is verified, the configuration and the stored token are as
\* they were read, and it replaces the old one.
Unmoved(j) == config = job[j].conf /\ cred = job[j].old

RenewCheck(j) ==
  /\ job[j].at = "issued" /\ job[j].op \in {"renew", "renewAll"}
  /\ Moves(j, IF Unmoved(j) THEN "matched" ELSE "undoCredential")
  /\ UNCHANGED <<config, marker, picked, agent, cred, session, held, gone, faults>>

Replace(j) ==
  /\ job[j].at = "matched"
  /\ cred' = job[j].mine /\ gone' = gone \cup {job[j].old}
  /\ job' = [job EXCEPT ![j].at = "restart", ![j].stored = TRUE]
  /\ UNCHANGED <<config, marker, picked, agent, session, held, faults>>

\* What the runtime finds when it starts.
Found == IF config.has THEN cred ELSE None

Restart(j) ==
  /\ job[j].at = "restart"
  /\ \/ held' = Found /\ Ends(j) /\ UNCHANGED faults
     \/ /\ Fault
        /\ held' \in {held} \cup (IF RestartLies THEN {Found} ELSE {})
        /\ IF job[j].op = "renew" THEN Moves(j, "undoCredential") ELSE Ends(j)
  /\ UNCHANGED <<config, marker, picked, agent, cred, session, gone>>

\* The old token goes back; where that fails the new one stays stored and is
\* not revoked.
UndoReplace(j) ==
  /\ job[j].at = "undoCredential" /\ job[j].op \in {"renew", "renewAll"}
  /\ \/ cred' = (IF job[j].stored THEN job[j].old ELSE cred) /\ Moves(j, "undoSession") /\ UNCHANGED faults
     \/ job[j].stored /\ Fault /\ Ends(j) /\ UNCHANGED cred
  /\ UNCHANGED <<config, marker, picked, agent, session, held, gone>>

-----------------------------------------------------------------------------
(* The world around *)

\* The command is killed: nothing is undone.
Killed(j) ==
  /\ job[j].at # "idle" /\ Fault
  /\ gone' = gone \cup ({job[j].mine} \ {None})
  /\ Ends(j)
  /\ UNCHANGED <<config, marker, picked, agent, cred, session, held>>

Writing == \E j \in Jobs : job[j].wrote # {}

\* The user edits config.toml; a runtime restarts on its own, which a connect
\* needs to be of any use.
Edit ==
  /\ config.edit < MaxEdits /\ (EditsAnytime \/ ~Writing)
  /\ config' = [config EXCEPT !.edit = @ + 1]
  /\ UNCHANGED <<marker, picked, agent, cred, session, held, job, gone, faults>>

RuntimeStarts ==
  /\ EditsAnytime \/ \A j \in Jobs : ~job[j].stored
  /\ held # Found
  /\ held' = Found
  /\ UNCHANGED <<config, marker, picked, agent, cred, session, job, gone, faults>>

\* A session comes into the renewal window, and expires.
Age ==
  /\ \E s \in Sessions :
       /\ session[s] \in {"fresh", "due"}
       /\ \A j \in Jobs : job[j].mine # s
       /\ session' = [session EXCEPT ![s] = IF @ = "fresh" THEN "due" ELSE "expired"]
  /\ UNCHANGED <<config, marker, picked, agent, cred, held, job, gone, faults>>

Connects(j) ==
  \/ \E op \in Ops : Plan(j, op)
  \/ Reach(j) \/ Unreachable(j) \/ Issue(j) \/ Store(j) \/ Recheck(j)
  \/ WriteConfig(j) \/ WriteLocal(j) \/ Finish(j)

Renews(j) ==
  \/ \E op \in Ops : BeginRenew(j, op)
  \/ RenewCheck(j) \/ Replace(j) \/ Restart(j)

Undoes(j) ==
  Fails(j) \/ UndoFiles(j) \/ UndoStore(j) \/ UndoReplace(j) \/ UndoSession(j) \/ UndoForward(j)

Next ==
  \/ \E j \in Jobs : Connects(j) \/ Renews(j) \/ Undoes(j) \/ Disconnect(j) \/ Killed(j)
  \/ Edit \/ RuntimeStarts \/ Age

Spec == Init /\ [][Next]_vars

-----------------------------------------------------------------------------

TypeOK ==
  /\ config \in [has : BOOLEAN, edit : 0..MaxEdits]
  /\ marker \in BOOLEAN /\ picked \in BOOLEAN /\ agent \in BOOLEAN
  /\ cred \in 0..MaxSessions /\ held \in 0..MaxSessions
  /\ session \in [Sessions -> States]
  /\ gone \subseteq Sessions /\ faults \in 0..MaxFaults
  /\ job \in [Jobs -> [op : {"connect", "remote", "renew", "renewAll"}, at : Steps,
                       conf : [has : BOOLEAN, edit : 0..MaxEdits],
                       mark : BOOLEAN, pick : BOOLEAN, old : 0..MaxSessions,
                       mine : 0..MaxSessions, stored : BOOLEAN,
                       wrote : SUBSET {"config", "local"}, put : BOOLEAN]]

\* A server that is configured has a stored token, and not one that a command
\* revoked, whatever failed, was undone or ran at the same time.
StoredIsHonoured == config.has => cred # None /\ session[cred] # "revoked"

\* A session that T3 still honours is the stored one, the one a command works
\* with, one that a renewal replaced, or one whose command was killed or could
\* not revoke it: undoing leaves none behind.
NoneIsLeftBehind ==
  \A s \in Sessions : Live(s) =>
    s = cred \/ s \in gone \/ \E j \in Jobs : job[j].mine = s

\* Nobody loses the local sessions to a connect: the choice of local only is
\* gone only with the selection it stood for in local.toml.
ChoiceStep == marker /\ ~marker' => picked
ChoiceIsKept == [][ChoiceStep]_vars

\* The runtime does not hold a token that was revoked under it.
HeldIsHonoured == held # None => session[held] # "revoked"
=============================================================================
