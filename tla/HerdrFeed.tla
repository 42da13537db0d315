----------------------------- MODULE HerdrFeed -----------------------------
(***************************************************************************)
(* The list a bridge keeps of herdr's agents (HerdrEvents of bridge.py):   *)
(* a stream that reads a snapshot whenever it is woken, and at the latest  *)
(* after the poll interval, with a cached list of worktrees for the branch *)
(* labels; and a listener that holds herdr's event subscription, one entry *)
(* for every pane, to wake it.                                             *)
(*                                                                         *)
(* RPCs and steps of the two tasks take no time. A snapshot is the fleet,  *)
(* the panes with a status that counts; the worktrees are a version.       *)
(***************************************************************************)
EXTENDS Integers, Sequences

CONSTANTS
    Panes,
    Interval,        \* poll_interval
    MaxNow,          \* bound: clock
    MaxChanges,      \* bound: changes of the fleet and of the branches
    MaxFaults        \* bound: lost subscriptions, failing RPCs

VARIABLES
    now,
    fleet,        \* herdr: the panes and the statuses of their agents
    branch,       \* herdr: what the worktrees are
    told,         \* events on their way on the subscription
    listener,     \* stage of _listen, and the panes subscribed to
    wake,         \* _wake
    stream,       \* stage of stream(), and since when it waits
    trees,        \* _worktrees, _worktrees_stale, _worktrees_at
    shown,        \* what was yielded last: the fleet and the branches of its labels
    faults,
    since         \* history: when fleet and branch changed last, or a read of them failed

feedVars == <<now, fleet, branch, told, listener, wake, stream, trees, shown, faults, since>>

herdrVars == <<fleet, branch>>
streamVars == <<stream, trees, shown>>

NoTrees == -2     \* None: no list of worktrees was ever asked for
NoLabels == -1    \* []: herdr did not answer, so there are no labels

Down == [stage |-> "down", panes |-> {}]

Init ==
  /\ now = 0 /\ fleet = [panes |-> Panes, status |-> 0] /\ branch = 0
  /\ told = << >> /\ listener = Down /\ wake = FALSE
  /\ stream = [stage |-> "read", at |-> 0, held |-> fleet]
  /\ trees = [list |-> NoTrees, stale |-> TRUE, at |-> -Interval]
  /\ shown = [fleet |-> [panes |-> {}, status |-> 0], branch |-> NoTrees]
  /\ faults = 0 /\ since = [fleet |-> 0, branch |-> 0]

Installed == listener.stage \in {"acked", "listening", "checking"}

Emits(event) == told' = IF Installed THEN Append(told, event) ELSE told

Changes == fleet.status + branch < MaxChanges

(***************************************************************************)
(* herdr: panes come and go, statuses and branches change.                 *)
(***************************************************************************)
PaneChanges(p) ==
  /\ Changes
  /\ fleet' = [panes |-> IF p \in fleet.panes THEN fleet.panes \ {p} ELSE fleet.panes \cup {p},
               status |-> fleet.status + 1]
  /\ Emits("fleet") /\ since' = [since EXCEPT !.fleet = now]
  /\ UNCHANGED <<now, branch, listener, wake, streamVars, faults>>

\* Only those who subscribed to this pane hear of its status.
StatusChanges(p) ==
  /\ Changes /\ p \in fleet.panes
  /\ fleet' = [fleet EXCEPT !.status = @ + 1]
  /\ IF p \in listener.panes THEN Emits("status") ELSE UNCHANGED told
  /\ since' = [since EXCEPT !.fleet = now]
  /\ UNCHANGED <<now, branch, listener, wake, streamVars, faults>>

\* A worktree that is added is told, a branch that is switched is not.
BranchChanges(event) ==
  /\ Changes /\ branch' = branch + 1
  /\ IF event THEN Emits("worktree") ELSE UNCHANGED told
  /\ since' = [since EXCEPT !.branch = now]
  /\ UNCHANGED <<now, fleet, listener, wake, streamVars, faults>>

(***************************************************************************)
(* The listener.                                                           *)
(***************************************************************************)
Fault == faults < MaxFaults /\ faults' = faults + 1

\* A snapshot of the panes to subscribe to.
Connect ==
  /\ listener.stage = "down"
  /\ listener' = [stage |-> "subscribing", panes |-> fleet.panes]
  /\ UNCHANGED <<now, herdrVars, told, wake, streamVars, faults, since>>

\* herdr installs the subscription; it may repeat an event of before.
Subscribe ==
  /\ listener.stage = "subscribing"
  /\ listener' = [listener EXCEPT !.stage = "acked"]
  /\ told' \in {<< >>, <<"fleet">>}
  /\ UNCHANGED <<now, herdrVars, wake, streamVars, faults, since>>

\* Mutant: what changed between the snapshot and the subscription is not looked at.
SubscribedBlindly == TRUE

SubscribedToAll == listener.panes = fleet.panes

EndsSubscription == listener' = Down /\ told' = << >>

Verify ==
  /\ listener.stage = "acked"
  /\ IF SubscribedToAll
     THEN listener' = [listener EXCEPT !.stage = "listening"] /\ UNCHANGED told
     ELSE EndsSubscription
  /\ UNCHANGED <<now, herdrVars, wake, streamVars, faults, since>>

\* _note_event: every event wakes the stream, those of panes and worktrees let the
\* cached worktrees go stale, and one of panes has the subscription checked.
Event ==
  /\ listener.stage = "listening" /\ told # << >>
  /\ told' = Tail(told) /\ wake' = TRUE
  /\ trees' = [trees EXCEPT !.stale = @ \/ Head(told) \in {"fleet", "worktree"}]
  /\ listener' = [listener EXCEPT !.stage = IF Head(told) = "fleet" THEN "checking" ELSE @]
  /\ UNCHANGED <<now, herdrVars, stream, shown, faults, since>>

\* _topology_changed: a replayed event changes nothing.
CheckTopology ==
  /\ listener.stage = "checking"
  /\ IF SubscribedToAll
     THEN listener' = [listener EXCEPT !.stage = "listening"] /\ UNCHANGED told
     ELSE EndsSubscription
  /\ UNCHANGED <<now, herdrVars, wake, streamVars, faults, since>>

\* The connection is lost, or an RPC or the handshake fails.
ListenerFails ==
  /\ listener # Down /\ Fault /\ EndsSubscription
  /\ UNCHANGED <<now, herdrVars, wake, streamVars, since>>

(***************************************************************************)
(* The stream.                                                             *)
(***************************************************************************)
NeedsTrees == trees.list = NoTrees \/ trees.stale

Yields(f, list) ==
  /\ shown' = [fleet |-> f, branch |-> list]
  /\ stream' = [stream EXCEPT !.stage = "wait", !.at = now, !.held = f]

Read ==
  /\ stream.stage = "read"
  /\ IF NeedsTrees
     THEN stream' = [stream EXCEPT !.stage = "fetch", !.held = fleet] /\ UNCHANGED shown
     ELSE Yields(fleet, trees.list)
  /\ UNCHANGED <<now, herdrVars, told, listener, wake, trees, faults, since>>

ReadFails ==
  /\ stream.stage = "read" /\ Fault
  /\ stream' = [stream EXCEPT !.stage = "wait", !.at = now]
  /\ since' = [fleet |-> now, branch |-> now]
  /\ UNCHANGED <<now, herdrVars, told, listener, wake, trees, shown>>

\* _fetch_worktrees: worktree.list answers, or the labels are an empty list, which
\* is cached like any other.
FetchReads(list) ==
  /\ stream.stage = "fetch"
  /\ IF list = NoLabels THEN Fault /\ since' = [since EXCEPT !.branch = now]
     ELSE list = branch /\ UNCHANGED <<faults, since>>
  /\ stream' = [stream EXCEPT !.stage = "fetched"]
  /\ trees' = [trees EXCEPT !.list = list]
  /\ UNCHANGED <<now, herdrVars, told, listener, wake, shown>>

\* An event that came meanwhile has its mark removed with the others.
FetchDone ==
  /\ stream.stage = "fetched"
  /\ trees' = [trees EXCEPT !.stale = FALSE, !.at = now]
  /\ Yields(stream.held, trees.list)
  /\ UNCHANGED <<now, herdrVars, told, listener, wake, faults, since>>

\* Mutant: only an event wakes the stream.
WokenOnly == wake

Woken == wake \/ now - stream.at >= Interval

\* Mutant: only an event lets the worktrees go stale.
NeverOld == FALSE

Old == now - trees.at >= Interval

Wakes ==
  /\ stream.stage = "wait" /\ Woken
  /\ stream' = [stream EXCEPT !.stage = "read"] /\ wake' = FALSE
  /\ trees' = [trees EXCEPT !.stale = @ \/ Old]
  /\ UNCHANGED <<now, herdrVars, told, listener, shown, faults, since>>

----------------------------------------------------------------------------
\* Time passes while the stream waits and the listener has nothing to do, or backs off.
Quiet ==
  /\ stream.stage = "wait" /\ ~Woken
  /\ \/ listener.stage = "down"
     \/ listener.stage = "listening" /\ told = << >>

Tick ==
  /\ Quiet /\ now < MaxNow /\ now' = now + 1
  /\ UNCHANGED <<herdrVars, told, listener, wake, streamVars, faults, since>>

Next ==
  \/ \E p \in Panes : PaneChanges(p) \/ StatusChanges(p)
  \/ \E event \in BOOLEAN : BranchChanges(event)
  \/ Connect \/ Subscribe \/ Verify \/ Event \/ CheckTopology \/ ListenerFails
  \/ Read \/ ReadFails \/ (\E list \in {NoLabels, branch} : FetchReads(list)) \/ FetchDone \/ Wakes
  \/ Tick

Spec == Init /\ [][Next]_feedVars

TypeOK ==
  /\ now \in 0..MaxNow /\ fleet.panes \subseteq Panes /\ branch \in 0..MaxChanges
  /\ listener.stage \in {"down", "subscribing", "acked", "listening", "checking"}
  /\ listener.panes \subseteq Panes /\ wake \in BOOLEAN
  /\ stream.stage \in {"read", "fetch", "fetched", "wait"} /\ stream.at \in 0..now
  /\ trees.list \in NoTrees..MaxChanges /\ trees.stale \in BOOLEAN
  /\ faults \in 0..MaxFaults

\* While the listener listens, it is subscribed to every pane, or it has an event of the
\* panes before it that makes it subscribe again (_listen, _topology_changed).
EveryPaneIsHeard ==
  listener.stage = "listening" /\ listener.panes # fleet.panes =>
    \E i \in DOMAIN told : told[i] = "fleet"

\* A change of the fleet is in the list after a poll interval at the latest, whatever
\* happened to the subscription; a snapshot that fails starts the interval again.
FleetIsShown == shown.fleet # fleet => now - since.fleet <= Interval

\* The labels follow within two intervals, also when events keep waking the stream or an
\* event's mark is lost to a fetch under way (_worktrees_at).  A snapshot that fails starts
\* them again; so does a failed worktree.list, whose empty list is cached as a fresh one and
\* takes the labels away although no branch changed.
LabelsFollow == shown.branch # branch => now - since.branch <= 2 * Interval

\* The list is what herdr has, within the time the intervals allow.
ListIsCurrent == EveryPaneIsHeard /\ FleetIsShown /\ LabelsFollow
=============================================================================
