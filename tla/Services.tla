------------------------------ MODULE Services -------------------------------
(***************************************************************************)
(* Installing the bridge as a launchd service (service.py) with its        *)
(* managed environment (managed.py): into the user's domain, into the      *)
(* system domain, where an agent of the user is migrated and a failed      *)
(* install is rolled back, and removing either.  One command runs at a     *)
(* time; every launchctl or file command may fail, the command may be      *)
(* killed, and the machine restarts.  Of some commands service.py ignores  *)
(* the result: every bootout, the rm of the system's unit, and the print   *)
(* that looks for the user's agent.  `neglected` has the domains where one *)
(* of them left a service or a unit behind.                                *)
(*                                                                         *)
(* Data: a unit is the number of its content; the environment is the       *)
(* version of its code and of its marker.  On Linux there is one domain    *)
(* and the same user install.                                              *)
(***************************************************************************)
EXTENDS Integers, FiniteSets

CONSTANTS
  Versions,      \* contents of a unit and releases
  MixesDomains,  \* is the user's unit installed beside a system one?
  Kills,         \* may a command be killed?
  MaxRuns, MaxFaults, MaxBoots   \* bounds

VARIABLES
  plist,    \* the user's unit file, or None
  system,   \* the system's unit file, or None
  loaded,   \* domain -> the unit that runs there, or None
  venv,     \* the managed environment: [code, marker]
  job,      \* the command that runs
  neglected, \* history: where something was not stopped or removed
  runs, faults, boots

vars == <<plist, system, loaded, venv, job, neglected, runs, faults, boots>>

None == 0
Domains == {"gui", "user", "system"}
Own == {"gui", "user"}
Nothing == [d \in Domains |-> None]
Idle == [op |-> "none", at |-> "idle", v |-> None, before |-> Nothing, legacy |-> "none",
         prev |-> None, existed |-> FALSE, copied |-> FALSE, last |-> "none"]

\* A user's agent of an older release may be in the domain of the login session.
Init ==
  /\ plist \in {None} \cup Versions /\ system \in {None} \cup Versions
  /\ plist = None \/ system = None
  /\ \E own \in Own : loaded = [Nothing EXCEPT ![own] = plist, !["system"] = system]
  /\ venv = [code |-> None, marker |-> None]
  /\ job = Idle /\ neglected = {} /\ runs = 0 /\ faults = 0 /\ boots = 0

To(at) == job' = [job EXCEPT !.at = at]
Ends(last) == job' = [Idle EXCEPT !.before = job.before, !.last = last]
Fault == faults < MaxFaults /\ faults' = faults + 1

\* The domain of the user's agent, looked up by a print that missed some.
Legacy(missed) ==
  IF plist = None THEN "none"
  ELSE IF loaded["user"] # None /\ "user" \notin missed THEN "user"
  ELSE IF loaded["gui"] # None /\ "gui" \notin missed THEN "gui" ELSE "none"

Begins(op, at, v, missed) ==
  /\ job.at = "idle" /\ runs < MaxRuns /\ runs' = runs + 1
  /\ IF missed = {} THEN UNCHANGED faults ELSE Fault
  /\ job' = [Idle EXCEPT !.op = op, !.at = at, !.v = v, !.existed = (plist # None), !.prev = system,
                         !.before = IF neglected \cup missed = {} THEN loaded ELSE Nothing,
                         !.legacy = IF op = "system" THEN Legacy(missed) ELSE "none"]
  /\ UNCHANGED <<plist, system, loaded, venv, neglected, boots>>

InstallUser == \E v \in Versions : (MixesDomains \/ system = None) /\ Begins("user", "bootout", v, {})
InstallSystem == \E v \in Versions, missed \in SUBSET Own : Begins("system", "bootout", v, missed)
UninstallUser == Begins("removeUser", "bootout", None, {})
UninstallSystem == Begins("removeSystem", "stop", None, {})

-----------------------------------------------------------------------------
(* The managed environment *)

\* ManagedInstaller.install: the code is replaced in place, then verified, and
\* the marker names what was verified.
InstallManaged == \E v \in Versions : (MixesDomains \/ system = None) /\ Begins("managed", "pip", v, {})

Pip ==
  /\ job.at = "pip"
  /\ \/ venv' = [venv EXCEPT !.code = job.v] /\ To("verify") /\ UNCHANGED faults
     \/ /\ Fault /\ Ends("refused")
        /\ \/ UNCHANGED venv                          \* nothing was downloaded
           \/ venv' = [venv EXCEPT !.code = job.v]    \* or it timed out at the end
  /\ UNCHANGED <<plist, system, loaded, neglected, runs, boots>>

Verify ==
  /\ job.at = "verify"
  /\ \/ venv' = [venv EXCEPT !.marker = venv.code] /\ To("bootout") /\ UNCHANGED faults
     \/ Fault /\ Ends("refused") /\ UNCHANGED venv
  /\ UNCHANGED <<plist, system, loaded, neglected, runs, boots>>

-----------------------------------------------------------------------------
(* launchd *)

\* Nobody looks at the result: what a failed bootout was to stop keeps running.
Bootout(ds) ==
  \E kept \in SUBSET {d \in ds : loaded[d] # None} :
    /\ loaded' = [d \in Domains |-> IF d \in ds \ kept THEN None ELSE loaded[d]]
    /\ IF kept = {} THEN UNCHANGED faults ELSE Fault
    /\ neglected' = neglected \cup kept

\* launchd refuses a service that is loaded.
Bootstrap(d, unit) ==
  loaded[d] = None /\ loaded' = [loaded EXCEPT ![d] = unit] /\ UNCHANGED faults
BootstrapFails(d) ==
  /\ UNCHANGED loaded
  /\ \/ loaded[d] # None /\ UNCHANGED faults
     \/ loaded[d] = None /\ Fault

\* The old agent of the user is stopped, where there is a unit of it.
BootoutUser ==
  /\ job.at = "bootout"
  /\ Bootout(IF job.existed \/ job.op = "removeUser" THEN Own ELSE {})
  /\ To(CASE job.op = "system" -> "stop" [] job.op = "removeUser" -> "unlink" [] OTHER -> "write")
  /\ UNCHANGED <<plist, system, venv, runs, boots>>

\* Into the user's domain: no way back when the write fails or launchd refuses.
WriteUser ==
  /\ job.at = "write"
  /\ \/ plist' = job.v /\ Bootstrap("user", job.v) /\ Ends("ok")
     \/ plist' = job.v /\ BootstrapFails("user") /\ Ends("failedUser")
     \/ Fault /\ Ends("failedUser") /\ UNCHANGED <<plist, loaded>>
  /\ UNCHANGED <<system, venv, neglected, runs, boots>>

StopSystem ==
  /\ job.at = "stop" /\ Bootout({"system"})
  /\ To(IF job.op = "removeSystem" THEN "unlink" ELSE "copy")
  /\ UNCHANGED <<plist, system, venv, runs, boots>>

Copy ==
  /\ job.at = "copy"
  /\ \/ system' = job.v /\ To("load") /\ UNCHANGED faults
     \/ Fault /\ To("back") /\ UNCHANGED system
  /\ UNCHANGED <<plist, loaded, venv, neglected, runs, boots>>

\* bootstrap, and print to see that it is there.
LoadSystem ==
  /\ job.at = "load"
  /\ \/ Bootstrap("system", system) /\ To("migrated")
     \/ BootstrapFails("system") /\ To("back")
     \/ Fault /\ loaded["system"] = None /\ loaded' = [loaded EXCEPT !["system"] = system] /\ To("back")
  /\ UNCHANGED <<plist, system, venv, neglected, runs, boots>>

\* Where a unit could not be removed it is loaded at the next start of the machine.
Stays(d) == Fault /\ neglected' = neglected \cup {d}

\* The user's unit goes last, once the system's service is verified.
Migrated ==
  /\ job.at = "migrated"
  /\ \/ plist' = (IF job.existed THEN None ELSE plist) /\ Ends("ok") /\ UNCHANGED <<neglected, faults>>
     \/ job.existed /\ Stays("user") /\ Ends("notUnlinked") /\ UNCHANGED plist
  /\ UNCHANGED <<system, loaded, venv, runs, boots>>

\* Rollback: the service is stopped, its unit is replaced by the previous one or
\* removed, and what ran before is started again.
Back ==
  /\ job.at = "back" /\ Bootout({"system"}) /\ To("replace")
  /\ UNCHANGED <<plist, system, venv, runs, boots>>

Replace ==
  /\ job.at = "replace"
  /\ \/ /\ system' = job.prev /\ UNCHANGED <<neglected, faults>>
        /\ job' = [job EXCEPT !.at = "restart", !.copied = TRUE]
     \/ job.prev # None /\ Fault /\ To("restart") /\ UNCHANGED <<system, neglected>>
     \/ job.prev = None /\ system # None /\ Stays("system") /\ To("restart") /\ UNCHANGED system
  /\ UNCHANGED <<plist, loaded, venv, runs, boots>>

\* The system's unit is started, whichever it is now, and only then does a failed
\* replacement count; without a previous one the user's agent is.
Restart ==
  /\ job.at = "restart"
  /\ LET domain == IF job.prev # None THEN "system" ELSE job.legacy IN
     \/ domain = "none" /\ Ends("failed") /\ UNCHANGED <<loaded, faults>>
     \/ /\ domain # "none" /\ Bootstrap(domain, IF domain = "system" THEN system ELSE plist)
        /\ Ends(IF domain = "system" /\ ~job.copied THEN "rollbackFailed" ELSE "failed")
     \/ domain # "none" /\ BootstrapFails(domain) /\ Ends("rollbackFailed")
  /\ UNCHANGED <<plist, system, venv, neglected, runs, boots>>

\* unlink raises when it fails, rm does not.
Unlink ==
  /\ job.at = "unlink"
  /\ \/ /\ IF job.op = "removeUser" THEN plist' = None /\ UNCHANGED system
                                    ELSE system' = None /\ UNCHANGED plist
        /\ Ends("ok") /\ UNCHANGED <<neglected, faults>>
     \/ job.op = "removeUser" /\ plist # None /\ Stays("user") /\ Ends("notUnlinked") /\ UNCHANGED <<plist, system>>
     \/ job.op = "removeSystem" /\ system # None /\ Stays("system") /\ Ends("ok") /\ UNCHANGED <<plist, system>>
  /\ UNCHANGED <<loaded, venv, runs, boots>>

Kill ==
  /\ Kills /\ job.at # "idle" /\ Fault /\ Ends("killed")
  /\ UNCHANGED <<plist, system, loaded, venv, neglected, runs, boots>>

\* After a restart launchd loads every unit file.
Reboot ==
  /\ boots < MaxBoots /\ boots' = boots + 1 /\ job.at = "idle"
  /\ loaded' = [Nothing EXCEPT !["user"] = plist, !["system"] = system]
  /\ job' = Idle
  /\ UNCHANGED <<plist, system, venv, neglected, runs, faults>>

Next ==
  \/ InstallUser \/ InstallSystem \/ UninstallUser \/ UninstallSystem \/ InstallManaged
  \/ Pip \/ Verify \/ BootoutUser \/ WriteUser \/ StopSystem \/ Copy \/ LoadSystem
  \/ Migrated \/ Back \/ Replace \/ Restart \/ Unlink \/ Kill \/ Reboot

Spec == Init /\ [][Next]_vars

-----------------------------------------------------------------------------

TypeOK ==
  /\ plist \in {None} \cup Versions /\ system \in {None} \cup Versions
  /\ loaded \in [Domains -> {None} \cup Versions]
  /\ venv \in [code : {None} \cup Versions, marker : {None} \cup Versions]
  /\ job.at \in {"idle", "pip", "verify", "bootout", "write", "stop", "copy", "load", "migrated",
                 "back", "replace", "restart", "unlink"}
  /\ neglected \subseteq Domains

\* At no step of an install, a migration, a rollback or after a restart do two
\* bridges run, which would fight for one port, but where a bootout or the removal
\* of a unit failed: service.py goes on to start the other one then.
OneBridgeRuns == Cardinality({d \in Domains : loaded[d] # None} \ neglected) <= 1

\* A system install that failed and says that it was rolled back leaves running what
\* ran before it, in its domain and with its unit, unless nothing was known of it
\* (a missed agent) or an earlier command had left something behind.
FailedKeepsRunning ==
  job.at = "idle" /\ job.last = "failed" =>
    \A d \in Domains : job.before[d] # None => loaded[d] = job.before[d]

\* An install, a migration, an uninstall and a reboot leave one bridge running,
\* and a failure leaves the one that ran before (service.py).
ServicesAreWhole == OneBridgeRuns /\ FailedKeepsRunning
=============================================================================
