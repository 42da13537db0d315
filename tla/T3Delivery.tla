----------------------------- MODULE T3Delivery ------------------------------
(***************************************************************************)
(* Delivery to one T3 thread (t3.py with t3_client.py, t3_actions.py and   *)
(* t3_state.py): the poll and every press read the thread again under one  *)
(* lock, a press has to carry the revision that was shown and an action    *)
(* that is still offered, and its commands keep their ids so that T3 can   *)
(* tell a repeated one.                                                    *)
(*                                                                         *)
(* Data: a thread is a version, its revision <<epoch, version of the shell,*)
(* version of the detail>>; an action stands for its payload and text.     *)
(* Threads the connector cannot parse, archived threads, icons and labels  *)
(* are left out, and T3 keeps the thread listed.                           *)
(***************************************************************************)
EXTENDS Integers, Sequences

CONSTANTS
  Actions,      \* what can be pressed, text and payload included
  Plans,        \* those of two commands: set the mode, then the message
  OnlyFirst,    \* those the thread offers in its first version only
  Memory,       \* deliveries that are remembered (_DELIVERY_MEMORY)
  Refusals,     \* may T3 refuse a ticket or an upgrade it granted before?
  MaxVersion, MaxEpoch, MaxPresses, MaxFaults   \* bounds

Versions == 1..MaxVersion
\* What the constants must satisfy; the modules that run this one assume it.
OfActions == OnlyFirst \subseteq Actions /\ Plans \subseteq Actions

OffersAt(v) == IF v = 1 THEN Actions ELSE Actions \ OnlyFirst

VARIABLES
  thread,      \* T3: the version, the commands that ran and those it refused
  late,        \* commands whose connection was given up before T3 read them
  link,        \* _epoch, and online of the poll loop
  cache,       \* _cache: the version of the shell it was fetched for, and of the detail
  offer,       \* _offers: revision and actions a press is checked against
  tile,        \* what the deck shows: a revision, and whether it can be pressed
  uncertain,   \* _uncertain: the revision whose delivery has no known outcome
  deliveries,  \* _deliveries, oldest first: <<revision, action>> and command ids
  denied,      \* _operate_denied
  job,         \* what holds _lock
  held,        \* history: revisions a client saw on a tile it could press
  minted,      \* history: what each command id was made for
  doubts,      \* history: versions with a delivery that has no known outcome
  bounds       \* presses and faults so far

deliveryVars == <<thread, late, link, cache, offer, tile, uncertain, deliveries, denied, job,
                  held, minted, doubts, bounds>>

None == <<>>
NoDetail == [key |-> 0, detail |-> 0]
Revisions == (1..MaxEpoch) \X Versions \X (0..MaxVersion)
Keys == Revisions \X Actions
Ids == 1..2 * MaxPresses
Idle == [pc |-> "idle", who |-> "poll", rev |-> None, action |-> None, sv |-> 0,
         ids |-> << >>, i |-> 1, attempt |-> 1]

TypeOK ==
  /\ thread.v \in Versions /\ thread.ran \subseteq Ids /\ thread.refused \subseteq Ids \ thread.ran
  /\ late \subseteq Ids /\ link.epoch \in 1..MaxEpoch /\ link.online \in BOOLEAN
  /\ cache.key \in 0..MaxVersion /\ cache.detail \in 0..MaxVersion
  /\ offer = None \/ (offer.rev \in Revisions /\ offer.acts \subseteq Actions)
  /\ tile = None \/ (tile.rev \in Revisions /\ tile.mode \in {"live", "stale", "uncertain", "denied"})
  /\ uncertain \in {None} \cup Revisions /\ denied \in BOOLEAN
  /\ Len(deliveries) <= Memory /\ \A i \in DOMAIN deliveries : deliveries[i].key \in Keys
  /\ job.pc \in {"idle", "shell", "detail", "check", "send"}
  /\ held \subseteq Revisions /\ DOMAIN minted \subseteq Ids /\ doubts \subseteq Revisions

Init ==
  /\ thread = [v |-> 1, ran |-> {}, refused |-> {}] /\ late = {}
  /\ link = [epoch |-> 1, online |-> FALSE] /\ cache = NoDetail /\ offer = None /\ tile = None
  /\ uncertain = None /\ deliveries = << >> /\ denied = FALSE /\ job = Idle
  /\ held = {} /\ minted = << >> /\ doubts = {} /\ bounds = [presses |-> 0, faults |-> 0]
-----------------------------------------------------------------------------
(* T3.                                                                     *)

Fault == bounds.faults < MaxFaults /\ bounds' = [bounds EXCEPT !.faults = @ + 1]

\* The agent, another client or the effect of a command changes the thread.
Changes ==
  /\ thread.v < MaxVersion /\ thread' = [thread EXCEPT !.v = @ + 1]
  /\ UNCHANGED <<late, link, cache, offer, tile, uncertain, deliveries, denied, job, held,
                 minted, doubts, bounds>>

\* T3 reads a command: an id it knows has its former outcome.
Runs(id) == id \notin thread.refused /\ thread' = [thread EXCEPT !.ran = @ \cup {id}]
Refuses(id) == id \notin thread.ran /\ thread' = [thread EXCEPT !.refused = @ \cup {id}]

ReadsLate(id) ==
  /\ id \in late /\ late' = late \ {id}
  /\ Runs(id) \/ Refuses(id)
  /\ UNCHANGED <<link, cache, offer, tile, uncertain, deliveries, denied, job, held, minted,
                 doubts, bounds>>
-----------------------------------------------------------------------------
(* refresh(): the shell, then the detail, then tile and offer.             *)

Rest == <<late, minted, doubts, thread>>

PollStarts ==
  /\ job.pc = "idle" /\ job' = [Idle EXCEPT !.pc = "shell"]
  /\ UNCHANGED <<Rest, link, cache, offer, tile, uncertain, deliveries, denied, held, bounds>>

\* A press of any client that saw the tile, the deck or herdeck-ctl (send).
PressStarts(rev, action) ==
  /\ job.pc = "idle" /\ rev \in held /\ bounds.presses < MaxPresses
  /\ bounds' = [bounds EXCEPT !.presses = @ + 1]
  /\ job' = [Idle EXCEPT !.pc = "shell", !.who = "press", !.rev = rev, !.action = action]
  /\ UNCHANGED <<Rest, link, cache, offer, tile, uncertain, deliveries, denied, held>>

ReadShell ==
  /\ job.pc = "shell" /\ job' = [job EXCEPT !.pc = "detail", !.sv = thread.v]
  /\ UNCHANGED <<Rest, link, cache, offer, tile, uncertain, deliveries, denied, held, bounds>>

\* A failed read ends the press, and the refresh after a delivery; in the poll
\* loop it ends the epoch.
ReadFails ==
  /\ job.pc \in {"shell", "detail"} /\ Fault /\ job' = Idle
  /\ IF job.who # "poll" THEN UNCHANGED <<link, cache>>
     ELSE /\ ~link.online \/ link.epoch < MaxEpoch
          /\ link' = [epoch |-> IF link.online THEN link.epoch + 1 ELSE link.epoch, online |-> FALSE]
          /\ cache' = IF link.online THEN NoDetail ELSE cache
  /\ UNCHANGED <<Rest, offer, tile, uncertain, deliveries, denied, held>>

\* Mutant: the poll takes the detail it has.
FetchesForced == job.who # "poll" \/ cache = NoDetail

\* _detail reads a detail again when the shell changed, and for a press.
Fetches == job.who # "poll" \/ cache.key # job.sv

\* Mutant: any fresh read is evidence.
ChangedByRead(rev, stale) == ~stale

\* The thread changed: the command landed, or the user may act anew.
Changed(rev, stale) == ~stale /\ uncertain # rev

\* thread_state: the hash of what identifies shell and detail.
Revision(dv) == <<link.epoch, job.sv, dv>>

\* thread_actions: what shell and detail both offer.
Offered(dv) == IF dv = 0 THEN {} ELSE OffersAt(job.sv) \cap OffersAt(dv)

\* _build, with the end of refresh().
Builds(dv, stale) ==
  LET rev == Revision(dv)
      open == uncertain = None \/ Changed(rev, stale)
      mode == IF denied THEN "denied" ELSE IF stale THEN "stale" ELSE IF open THEN "live" ELSE "uncertain"
  IN /\ uncertain' = IF open THEN None ELSE uncertain
     /\ offer' = IF stale THEN None ELSE [rev |-> rev, acts |-> Offered(dv)]
     /\ tile' = [rev |-> rev, mode |-> mode]
     /\ held' = IF mode = "live" THEN held \cup {rev} ELSE held
     /\ IF job.who = "press" THEN job' = [job EXCEPT !.pc = "check"] ELSE job' = Idle
     /\ link' = IF job.who = "poll" THEN [link EXCEPT !.online = TRUE] ELSE link

Refresh ==
  /\ job.pc = "detail"
  /\ \/ /\ ~Fetches /\ Builds(cache.detail, FALSE) /\ UNCHANGED <<cache, bounds>>
     \/ /\ Fetches /\ cache' = [key |-> job.sv, detail |-> thread.v]
        /\ Builds(thread.v, FALSE) /\ UNCHANGED bounds
     \/ Fetches /\ Fault /\ Builds(cache.detail, TRUE) /\ UNCHANGED cache
  /\ UNCHANGED <<Rest, deliveries, denied>>
-----------------------------------------------------------------------------
(* send(): check, dispatch, deliver.                                       *)

KeyOf(j) == <<j.rev, j.action>>
Remembered(key) == {i \in DOMAIN deliveries : deliveries[i].key = key}

Valid == ~denied /\ offer # None /\ job.action \in offer.acts /\ job.rev = offer.rev

Dispatches(ids) == [job EXCEPT !.pc = "send", !.ids = ids]

\* Mutant: every press makes commands of its own.
KnownIdsNone == {}

\* The commands of an identical press before, with their ids.
KnownIds == {deliveries[i].ids : i \in Remembered(KeyOf(job))}

\* _commands: refuse, repeat the remembered commands, or make new ones.
Refuse ==
  /\ job.pc = "check" /\ (~Valid \/ (uncertain # None /\ KnownIds = {})) /\ job' = Idle
  /\ UNCHANGED <<Rest, link, cache, offer, tile, uncertain, deliveries, denied, held, bounds>>

Repeat ==
  /\ job.pc = "check" /\ Valid
  /\ \E ids \in KnownIds : job' = Dispatches(ids)
  /\ UNCHANGED <<Rest, link, cache, offer, tile, uncertain, deliveries, denied, held, bounds>>

\* At most Memory deliveries are remembered, the oldest is dropped.
Remember(ds, d) == LET all == Append(ds, d) IN IF Len(all) > Memory THEN Tail(all) ELSE all

\* build_commands, with a new id each.
Commands(id) == IF job.action \in Plans THEN <<id, id + 1>> ELSE <<id>>

Make ==
  /\ job.pc = "check" /\ Valid /\ KnownIds = {} /\ uncertain = None
  /\ LET ids == Commands(Len(minted) + 1) IN
        /\ minted' = minted \o [n \in DOMAIN ids |-> [key |-> KeyOf(job), mode |-> n < Len(ids)]]
        /\ deliveries' = Remember(deliveries, [key |-> KeyOf(job), ids |-> ids])
        /\ job' = Dispatches(ids)
  /\ UNCHANGED <<thread, late, doubts, link, cache, offer, tile, uncertain, denied, held, bounds>>

Command == job.ids[job.i]
Again == job' = [job EXCEPT !.attempt = 2]

\* _deliver: what the outcome means, then refresh(force).
After == job' = [Idle EXCEPT !.pc = "shell", !.who = "after"]

\* Only a rejection forgets the commands.
Forgets(outcome) == outcome = "rejected"

\* The deliveries without the one of this key, if there is one.
Without(key) ==
  IF Remembered(key) = {} THEN deliveries
  ELSE LET n == CHOOSE x \in Remembered(key) : TRUE
       IN [i \in 1..Len(deliveries) - 1 |-> IF i < n THEN deliveries[i] ELSE deliveries[i + 1]]

Ends(outcome) ==
  /\ After
  /\ uncertain' = CASE outcome = "uncertain" -> job.rev
                    [] outcome = "accepted" -> None
                    [] OTHER -> uncertain
  /\ deliveries' = IF Forgets(outcome) THEN Without(KeyOf(job)) ELSE deliveries
  /\ doubts' = CASE outcome = "uncertain" -> doubts \cup {job.rev}
                 [] outcome = "accepted" -> doubts \ {job.rev}
                 [] OTHER -> doubts

NoEnd == UNCHANGED <<uncertain, deliveries, doubts>>
Kept == <<minted, link, cache, offer, tile, held>>

Accepted ==
  /\ job.pc = "send" /\ Runs(Command)
  /\ IF job.i < Len(job.ids)
     THEN job' = [job EXCEPT !.i = @ + 1, !.attempt = 1] /\ NoEnd
     ELSE Ends("accepted")
  /\ UNCHANGED <<Kept, late, denied, bounds>>

\* T3 answers and refuses, also for good: the scope of the credential is missing.
Rejected ==
  /\ job.pc = "send" /\ Refuses(Command) /\ Ends("rejected")
  /\ denied' \in {denied, TRUE}
  /\ UNCHANGED <<Kept, late, bounds>>

NotRun(j) == \A n \in j.i..Len(j.ids) : j.ids[n] \notin thread.ran \cup late

\* The ticket (401) or the upgrade is refused: the command was not sent. After
\* a first attempt that is unknown, so is this one.
NotLetIn ==
  /\ job.pc = "send" /\ Fault
  /\ Refusals \/ job.attempt = 2 \/ NotRun(job)
  /\ Ends(IF job.attempt = 1 THEN "rejected" ELSE "uncertain")
  /\ UNCHANGED <<Kept, thread, late, denied>>

\* Anything else fails: T3 read the command, will read it, or never does.
Lost ==
  /\ job.pc = "send" /\ Fault
  /\ \/ (Runs(Command) \/ Refuses(Command)) /\ UNCHANGED late
     \/ late' = late \cup {Command} /\ UNCHANGED thread
     \/ UNCHANGED <<late, thread>>
  /\ IF job.attempt = 1 THEN Again /\ NoEnd ELSE Ends("uncertain")
  /\ UNCHANGED <<Kept, denied>>

Next ==
  \/ Changes \/ (\E id \in late : ReadsLate(id))
  \/ PollStarts \/ (\E rev \in held, a \in Actions : PressStarts(rev, a))
  \/ ReadShell \/ ReadFails \/ Refresh
  \/ Refuse \/ Repeat \/ Make \/ Accepted \/ Rejected \/ NotLetIn \/ Lost

Spec == Init /\ [][Next]_deliveryVars
-----------------------------------------------------------------------------
(* Properties.                                                             *)

Message(id) == ~minted[id].mode

\* "so the server's commandId dedupe means it can never execute twice" (t3.py): the
\* message of an identical press, the same action at the same revision, runs once,
\* whatever replies are lost, late or repeated. Setting the mode twice changes nothing.
RunsOnce ==
  \A i, j \in thread.ran :
    Message(i) /\ Message(j) /\ minted[i].key = minted[j].key => i = j

\* A tile that can be pressed shows a detail at least as new as the shell it is
\* offered with: the cache is never taken for another version of the thread.
TilesAreWhole == tile # None /\ tile.mode = "live" => tile.rev[3] >= tile.rev[2]

DeliveredOnce == RunsOnce /\ TilesAreWhole

\* While a delivery has no known outcome, no other command is made at its revision,
\* though stale reads come between ("A thread whose delivery outcome is unknown stays
\* read-only until its revision changes").
LockHolds == minted' # minted => job.rev \notin doubts

OnlyRepeats == [][LockHolds]_deliveryVars

\* "The tile stays read-only until the thread changes, because the command either
\* landed (the thread changes) or did not" (t3-code-integration.md): no tile opens it
\* under another revision of what it was.
ReadOnlyUntilChanged ==
  tile # None /\ tile.mode = "live" =>
    \A d \in doubts : Tail(d) = Tail(tile.rev) => d = tile.rev
=============================================================================
