------------------------------ MODULE AgentList ------------------------------
(***************************************************************************)
(* The agent list of a bridge on its way from herdr to the clients: the    *)
(* polling stream and its broadcast (bridge.HerdrEvents.stream and         *)
(* _broadcast), the lists clients ask for (bridge._wired_snapshot), and    *)
(* the status clock that stamps all of them and survives a restart of the  *)
(* bridge in a file (src/herdeck/status_since.py).                         *)
(*                                                                         *)
(* A snapshot is captured by herdr, stamped some awaits later (the branch  *)
(* labels and the plugin check are RPCs of their own) and sent later       *)
(* still.  The stream and every list do so independently.                  *)
(***************************************************************************)
EXTENDS Naturals, FiniteSets

CONSTANTS
  Panes,
  Lists,             \* list requests in progress
  None,              \* Python's None, and a pane that is not in a list
  MaxTurns,          \* bound: states one pane goes through
  MaxNow,            \* bound: times the clock gives a pane a new since
  MaxStops,          \* bound: stops of the bridge
  SnapshotsInOrder,  \* one snapshot is sent before the next is captured
  CleanStops,        \* the bridge is stopped, never killed
  FlushMayFail       \* a scheduled write of the state file may fail

Stream == "stream"
Jobs == {Stream} \cup Lists
Statuses == {"working", "blocked"}   \* of a pane that is not closed

\* What the constants must satisfy; the modules that run this one assume it.
ListAssumption ==
  /\ {MaxTurns, MaxNow} \subseteq Nat \ {0}
  /\ MaxStops \in Nat
  /\ Stream \notin Lists
  /\ {SnapshotsInOrder, CleanStops, FlushMayFail} \subseteq BOOLEAN

VARIABLES
  herdr,    \* herdr's truth per pane: status, terminal and turn
  now,      \* the clock's next time
  up,       \* the bridge runs
  live,     \* StatusSinceTracker._live: pane -> terminal, status, since
  restored, \* what was loaded from the file, until the first stamp
  dirty,    \* _live differs from what was written
  timer,    \* a flush is scheduled
  file,     \* the file's entries
  job,      \* a snapshot on its way: "idle", "captured" or "stamped"
  said,     \* the two lists the stream yielded last, the later one second
  view,     \* the list a client was sent last
  ids,      \* the blocked episodes the event hub saw: turn and since of each
  stops     \* how often the bridge stopped

bridge == <<live, restored, dirty, timer, file>>
sent == <<said, view, ids>>
vars == <<herdr, now, up, bridge, job, sent, stops>>

Entry(term, status, since) == [term |-> term, status |-> status, since |-> since]
Nothing == [p \in Panes |-> None]
Idle == [step |-> "idle", list |-> Nothing]

Init ==
  /\ herdr = [p \in Panes |-> [status |-> "working", term |-> 1, turn |-> 1]]
  /\ now = 1
  /\ up = TRUE
  /\ live = Nothing /\ restored = Nothing /\ dirty = FALSE /\ timer = FALSE /\ file = Nothing
  /\ job = [j \in Jobs |-> Idle]
  /\ said = <<None, None>>
  /\ view = None
  /\ ids = [p \in Panes |-> {}]
  /\ stops = 0

-----------------------------------------------------------------------------
(* herdr: a pane blocks or works again, closes, or its id is given to a    *)
(* new terminal.                                                           *)

Becomes(p, status, term) ==
  /\ herdr[p].turn < MaxTurns
  /\ herdr' = [herdr EXCEPT ![p] = [status |-> status, term |-> term, turn |-> @.turn + 1]]
  /\ UNCHANGED <<now, up, bridge, job, sent, stops>>

Changes(p) ==
  \/ herdr[p].status = "working" /\ Becomes(p, "blocked", herdr[p].term)
  \/ herdr[p].status = "blocked" /\ Becomes(p, "working", herdr[p].term)
Closes(p) == herdr[p].status # "closed" /\ Becomes(p, "closed", herdr[p].term)
Reopens(p) == herdr[p].status = "closed" /\ Becomes(p, "working", herdr[p].term + 1)

-----------------------------------------------------------------------------
(* A snapshot, step by step.                                               *)

\* The captured list: what herdr shows, and the turn it was in.
Captured == [p \in Panes |-> IF herdr[p].status = "closed" THEN None ELSE herdr[p]]

Capture(j) ==
  /\ up
  /\ job[j].step = "idle"
  /\ SnapshotsInOrder => \A k \in Jobs : job[k].step = "idle"
  /\ job' = [job EXCEPT ![j] = [step |-> "captured", list |-> Captured]]
  /\ UNCHANGED <<herdr, now, up, bridge, sent, stops>>

\* Mutant: the clock looks at the status alone.
SameStatus(entry, pane) == entry # None /\ entry.status = pane.status

\* _since_for: the time of the entry that has the same terminal and status, in
\* the table or, for a pane it does not have, in what was restored.
Same(entry, pane) ==
  entry # None /\ entry.term = pane.term /\ entry.status = pane.status

\* Mutant: a changed pane gets the time that is handed out next.
SinceAfter(p, pane) == IF Same(live[p], pane) THEN live[p].since ELSE now + 1

\* Mutant: a restored time is not trusted.
SinceUnrestored(p, pane) == IF Same(live[p], pane) THEN live[p].since ELSE now

Since(p, pane) ==
  IF Same(live[p], pane) THEN live[p].since
  ELSE IF live[p] = None /\ Same(restored[p], pane) THEN restored[p].since
  ELSE now

Stamped(list) ==
  [p \in Panes |->
     IF list[p] = None THEN None
     ELSE Entry(list[p].term, list[p].status, Since(p, list[p]))]

\* Mutant: only a pane the table does not have makes it dirty.
DiffersByPane(table) == \E p \in Panes : table[p] # None /\ live[p] = None

Differs(table) == table # live

Stamp(j) ==
  /\ up
  /\ job[j].step = "captured"
  /\ LET list == job[j].list
         table == Stamped(list)
         new == \E p \in Panes : table[p] # None /\ table[p].since = now
     IN /\ new => now < MaxNow
        /\ now' = IF new THEN now + 1 ELSE now
        /\ live' = table
        /\ dirty' = (dirty \/ Differs(table))
        /\ timer' = (timer \/ dirty \/ Differs(table))
        /\ job' = [job EXCEPT ![j] = [step |-> "stamped",
             list |-> [p \in Panes |->
                         IF table[p] = None THEN None
                         ELSE [entry |-> table[p], turn |-> list[p].turn]]]]
  /\ restored' = Nothing
  /\ UNCHANGED <<herdr, up, file, sent, stops>>

\* What a client reads of a list.
Wire(list) == [p \in Panes |-> IF list[p] = None THEN None ELSE list[p].entry]

\* A list goes to the client that asked.
SendList(j) ==
  /\ j \in Lists
  /\ job[j].step = "stamped"
  /\ view' = Wire(job[j].list)
  /\ job' = [job EXCEPT ![j] = Idle]
  /\ UNCHANGED <<herdr, now, up, bridge, said, ids, stops>>

\* The stream yields a list that differs from the one before.  _broadcast adds
\* the episode ids to the very list the stream compares the next one with, so
\* a list of any panes differs from it.
\* Mutant: the list is compared with what was yielded.
YieldsNews(list) == list # said[2]

Yields(list) == list # said[2] \/ list # Nothing

BlockedIn(list) == {p \in Panes : list[p] # None /\ list[p].entry.status = "blocked"}

\* The broadcast sends the list, then the event hub observes it.
Broadcast ==
  /\ job[Stream].step = "stamped"
  /\ LET list == job[Stream].list IN
     IF Yields(Wire(list))
     THEN /\ said' = <<said[2], Wire(list)>>
          /\ view' = Wire(list)
          /\ ids' = [p \in Panes |->
                       IF p \in BlockedIn(list)
                       THEN ids[p] \cup {[turn |-> list[p].turn, since |-> list[p].entry.since]}
                       ELSE ids[p]]
     ELSE UNCHANGED sent
  /\ job' = [job EXCEPT ![Stream] = Idle]
  /\ UNCHANGED <<herdr, now, up, bridge, stops>>

-----------------------------------------------------------------------------
(* The state file.                                                         *)

\* flush: nothing is dirty afterwards, written or not.
Written == IF dirty THEN live ELSE file

Flush ==
  /\ timer
  /\ timer' = FALSE
  /\ dirty' = FALSE
  /\ file' = Written \/ (FlushMayFail /\ file' = file)
  /\ UNCHANGED <<herdr, now, up, live, restored, job, sent, stops>>

\* The bridge ends.  A clean stop flushes what is dirty, with success; a kill
\* loses what was not written.
Stop ==
  /\ up
  /\ stops < MaxStops
  /\ stops' = stops + 1
  /\ up' = FALSE
  /\ file' = Written \/ (~CleanStops /\ file' = file)
  /\ dirty' = FALSE
  /\ timer' = FALSE
  /\ live' = Nothing /\ restored' = Nothing
  /\ job' = [j \in Jobs |-> Idle]
  /\ said' = <<None, None>>
  /\ view' = None
  /\ UNCHANGED <<herdr, now, ids>>

Start ==
  /\ ~up
  /\ up' = TRUE
  /\ restored' = file
  /\ UNCHANGED <<herdr, now, live, dirty, timer, file, job, sent, stops>>

-----------------------------------------------------------------------------
Herdr == \E p \in Panes : Changes(p) \/ Closes(p) \/ Reopens(p)
Poll == Capture(Stream) \/ Stamp(Stream) \/ Broadcast
Answer(j) == Stamp(j) \/ SendList(j)

Next ==
  \/ Herdr
  \/ Poll
  \/ \E j \in Lists : Capture(j) \/ Answer(j)
  \/ Flush \/ Stop \/ Start

\* The stream polls for ever, a list that was asked for is answered, and the
\* timer of a flush fires.
Fairness == WF_vars(Poll) /\ WF_vars(Flush) /\ \A j \in Lists : WF_vars(Answer(j))

Spec == Init /\ [][Next]_vars /\ Fairness

-----------------------------------------------------------------------------
(* Properties.                                                             *)

Entries == [term : 1..MaxTurns, status : Statuses, since : 1..MaxNow]
Tables == [Panes -> Entries \cup {None}]
Seen == [turn : 1..MaxTurns, since : 1..MaxNow]

\* Every variable keeps its type; a time is handed out once.
TypeOK ==
  /\ herdr \in [Panes -> [status : Statuses \cup {"closed"}, term : 1..MaxTurns,
                          turn : 1..MaxTurns]]
  /\ now \in 1..MaxNow
  /\ {up, dirty, timer} \subseteq BOOLEAN
  /\ {live, restored, file} \subseteq Tables
  /\ \A j \in Jobs :
       /\ job[j].step \in {"idle", "captured", "stamped"}
       /\ job[j].step = "stamped" => Wire(job[j].list) \in Tables
  /\ \A i \in 1..2 : said[i] = None \/ said[i] \in Tables
  /\ view = None \/ view \in Tables
  /\ ids \in [Panes -> SUBSET Seen]
  /\ stops \in 0..MaxStops
  /\ \A p \in Panes : live[p] # None => live[p].since < now

\* "Each BLOCKED stretch of a pane is an episode with a stable id" (events.py):
\* however often the bridge lists and restarts, the hub sees one block at one
\* since only.
OneEpisodePerBlock ==
  \A p \in Panes : \A x, y \in ids[p] : x.turn = y.turn => x.since = y.since

\* ... and two blocks are two episodes.
OneBlockPerEpisode ==
  \A p \in Panes : \A x, y \in ids[p] : x.since = y.since => x.turn = y.turn

\* A recycled pane never inherits the clock of the terminal before it.
TerminalsApart ==
  \A p, q \in Panes, t \in {live, file} :
    t[p] # None /\ live[p] # None /\ t[p].term # live[p].term => t[p].since # live[p].since

\* What the clock knows and the file does not is due to be written, whatever
\* the order of stamps, flushes and restarts.
SaveIsDue ==
  \A p \in Panes : live[p] # None /\ live[p] # file[p] => timer

\* "Yields the full agent list whenever it changes" (HerdrEvents): a list is
\* broadcast only when it differs from the one before.
OnlyNews == said[1] # None => said[1] # said[2]

\* What the client shows is what herdr shows.
Shows ==
  view # None /\ \A p \in Panes :
    IF herdr[p].status = "closed" THEN view[p] = None
    ELSE view[p] # None /\ Same(view[p], herdr[p])

\* "Removed panes disappear from the deck instead of lingering" (_broadcast):
\* the client shows the fleet in the end, though an old list may overtake a new
\* broadcast (while the bridge runs and the bound leaves the clock time).
ViewsConverge == <>[](up /\ now < MaxNow) => <>[]Shows

\* As long as any pane is left, every poll is broadcast, so no client keeps an
\* old list.
PanesLeft == now < MaxNow /\ \E p \in Panes : herdr[p].status # "closed"
ViewsConvergeWithPanes == <>[](up /\ PanesLeft) => <>[]Shows
=============================================================================
