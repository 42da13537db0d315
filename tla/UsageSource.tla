----------------------------- MODULE UsageSource -----------------------------
(***************************************************************************)
(* Where a deck's provider usage comes from (usage_hub.py, source "auto"): *)
(* a bridge that offers it, or a poller of its own.  Reports of the bridges *)
(* arrive on their connector threads, the tick thread re-decides, a poller *)
(* is built and started outside the hub's lock and closed on a thread of   *)
(* its own, and close() waits for none of them.                            *)
(***************************************************************************)
EXTENDS Integers, Sequences

CONSTANTS
    Servers,
    Grace,        \* ticks a lost offer keeps its numbers, and the undecided window
    EmptyGrace,   \* ticks an offer without numbers counts
    MaxNow,       \* bound: ticks
    MaxReports,   \* bound: reports of bridges and source swaps
    MaxPollers    \* bound: local pollers built

\* What the constants must satisfy; the modules that run this one assume it.
GracesPositive == Grace \in Nat \ {0} /\ EmptyGrace \in Nat

VARIABLES
    now,
    bridges,    \* _bridges
    undecided,  \* _undecided_since
    mode,       \* _mode
    local,      \* _local: a poller, or 0
    shut,       \* _closed
    pollers,    \* the state of every poller built, in order
    evaluating, \* the evaluation that holds _eval_lock
    reports,    \* reports and swaps so far
    goodAt      \* when each server last offered numbers (history)

usageVars == <<now, bridges, undecided, mode, local, shut, pollers, evaluating, reports, goodAt>>

Never == 0 - 10 * (Grace + EmptyGrace + MaxNow)
Times == {Never} \cup 0..MaxNow

TypeOK ==
  /\ now \in 0..MaxNow /\ undecided \in 0..MaxNow /\ reports \in 0..MaxReports
  /\ bridges \in [Servers -> [known : BOOLEAN, offered : BOOLEAN, lost : Times,
                              empty : Times, numbers : BOOLEAN]]
  /\ mode \in {"none", "local", "bridge"} /\ shut \in BOOLEAN
  /\ \A p \in DOMAIN pollers : pollers[p] \in {"built", "running", "closing", "closed"}
  /\ local \in {0} \cup DOMAIN pollers
  /\ evaluating \in {"idle", "build", "start"}
  /\ goodAt \in [Servers -> Times]

Unheard == [known |-> FALSE, offered |-> FALSE, lost |-> Never, empty |-> Never, numbers |-> FALSE]

Init ==
  /\ now = 0 /\ undecided = 0 /\ reports = 0
  /\ bridges = [s \in Servers |-> Unheard] /\ goodAt = [s \in Servers |-> Never]
  /\ mode = "none" /\ local = 0 /\ shut = FALSE /\ pollers = << >> /\ evaluating = "idle"
----------------------------------------------------------------------------
\* What the reports of a bridge leave behind.

\* bridge_update: an offer, alone (a snapshot) or with numbers or none (a usage
\* frame), or its end (a disconnect, a bridge without the capability).
Offered(b, frame) ==
  LET numbers == IF frame = "offer" THEN b.numbers ELSE frame = "numbers"
  IN [b EXCEPT !.known = TRUE, !.offered = TRUE, !.lost = Never, !.numbers = numbers,
               !.empty = IF numbers THEN Never ELSE IF @ = Never THEN now ELSE @]
Withdrawn(b) ==
  [b EXCEPT !.known = TRUE, !.offered = FALSE, !.lost = IF b.offered THEN now ELSE @]

\* Numbers a bridge took back with an empty frame do not count.
GoodAt(b, before, t) ==
  IF ~b.numbers THEN Never ELSE IF b.offered THEN t ELSE before

Report(s) ==
  /\ reports < MaxReports /\ reports' = reports + 1 /\ ~shut
  /\ \E b \in {Offered(bridges[s], f) : f \in {"offer", "numbers", "empty"}} \cup {Withdrawn(bridges[s])} :
       bridges' = [bridges EXCEPT ![s] = b]
  /\ goodAt' = [goodAt EXCEPT ![s] = GoodAt(bridges'[s], @, now)]
  /\ UNCHANGED <<now, undecided, mode, local, shut, pollers, evaluating>>

\* set_servers: a new source with the same servers; numbers it had count as
\* just lost, and the undecided window starts again.
Swap ==
  /\ reports < MaxReports /\ reports' = reports + 1
  /\ bridges' = [s \in Servers |->
       IF bridges[s].numbers THEN [Unheard EXCEPT !.lost = now, !.numbers = TRUE] ELSE Unheard]
  /\ undecided' = now
  /\ UNCHANGED <<now, mode, local, shut, pollers, evaluating, goodAt>>
----------------------------------------------------------------------------
\* The decision.

Live(b) == b.offered \/ now - b.lost < Grace
\* A bug: a lost offer does not count, whatever numbers it left.
UsefulNow(b) == b.offered /\ (b.numbers \/ now - b.empty < EmptyGrace)
Useful(b) == Live(b) /\ (b.numbers \/ now - b.empty < EmptyGrace)

\* _desired_locked; "none" while the deck still waits.
Desired ==
  IF \E s \in Servers : Useful(bridges[s]) THEN "bridge"
  ELSE IF (\A s \in Servers : bridges[s].known) \/ now - undecided >= Grace THEN "local"
  ELSE "none"

\* A bug: the poller of the old mode goes on.
ClosingNone(p) == pollers
Closing(p) ==
  IF p = 0 THEN pollers ELSE [pollers EXCEPT ![p] = "closing"]

\* evaluate under the hub's lock: after a report, a swap, or on the tick.  The
\* poller of the old mode is handed to a thread that closes it.
Evaluate ==
  /\ evaluating = "idle" /\ ~shut
  /\ Desired \notin {"none", mode}
  /\ mode' = Desired /\ local' = 0 /\ pollers' = Closing(local)
  /\ evaluating' = IF Desired = "local" THEN "build" ELSE "idle"
  /\ UNCHANGED <<now, bridges, undecided, shut, reports, goodAt>>

\* _start_local builds a poller (the factory may fail: until the mode changes
\* again nothing polls) and keeps it if it is still wanted.
\* A bug: whether the hub was closed meanwhile is not asked.
KeepsAnyway == local = 0
Keeps == ~shut /\ mode = "local" /\ local = 0
Build ==
  /\ evaluating = "build" /\ Len(pollers) < MaxPollers
  /\ IF Keeps
     THEN pollers' = Append(pollers, "built") /\ local' = Len(pollers) + 1 /\ evaluating' = "start"
     ELSE pollers' = Append(pollers, "closed") /\ evaluating' = "idle" /\ UNCHANGED local
  /\ UNCHANGED <<now, bridges, undecided, mode, shut, reports, goodAt>>
BuildFails ==
  /\ evaluating = "build" /\ evaluating' = "idle"
  /\ UNCHANGED <<now, bridges, undecided, mode, local, shut, pollers, reports, goodAt>>

\* poller.start(), after the lock: a close that came in between has already
\* set its stop flag, and the thread ends at once.
Start ==
  /\ evaluating = "start" /\ evaluating' = "idle"
  /\ LET p == Len(pollers) IN
       pollers' = [pollers EXCEPT ![p] = IF @ = "built" THEN "running" ELSE @]
  /\ UNCHANGED <<now, bridges, undecided, mode, local, shut, reports, goodAt>>

\* The closing thread sets the poller's stop flag and joins it.
Closed(p) ==
  /\ pollers[p] = "closing" /\ pollers' = [pollers EXCEPT ![p] = "closed"]
  /\ UNCHANGED <<now, bridges, undecided, mode, local, shut, evaluating, reports, goodAt>>

\* close(): the poller it finds is closed by its caller; an evaluation that
\* already left the lock goes on.
Close ==
  /\ ~shut /\ shut' = TRUE /\ mode' = "none" /\ local' = 0
  /\ pollers' = Closing(local)
  /\ UNCHANGED <<now, bridges, undecided, evaluating, reports, goodAt>>

\* Time passes once the tick thread had its turn and the closing threads are
\* done: both take far less than the seconds of a grace.
Settled ==
  /\ evaluating = "idle" /\ \A p \in DOMAIN pollers : pollers[p] # "closing"
  /\ shut \/ Desired \in {"none", mode}
Tick ==
  /\ now < MaxNow /\ Settled /\ now' = now + 1
  /\ goodAt' = [s \in Servers |-> GoodAt(bridges[s], goodAt[s], now')]
  /\ UNCHANGED <<bridges, undecided, mode, local, shut, pollers, evaluating, reports>>

Next ==
  \/ \E s \in Servers : Report(s)
  \/ Swap \/ Evaluate \/ Build \/ BuildFails \/ Start \/ Close \/ Tick
  \/ \E p \in DOMAIN pollers : Closed(p)

Spec == Init /\ [][Next]_usageVars
----------------------------------------------------------------------------
Polling == {p \in DOMAIN pollers : pollers[p] \in {"built", "running"}}

\* The deck polls the providers itself with at most one poller, the one it
\* knows, and not at all while a bridge has the numbers or after it was closed.
OnePoller ==
  evaluating = "idle" => Polling = {local} \ {0} /\ (local # 0 => mode = "local" /\ ~shut)

\* A network flap or a restart of the bridge starts no poller: the deck turns
\* to its own only when no bridge had numbers within the grace.
SwitchesLate ==
  (mode # "local" /\ mode' = "local") => \A s \in Servers : now - goodAt[s] >= Grace
FlapsPollNothing == [][SwitchesLate]_usageVars
============================================================================
