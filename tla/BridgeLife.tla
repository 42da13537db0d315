----------------------------- MODULE BridgeLife -----------------------------
(***************************************************************************)
(* How bridges start and end: the service (bridge.py serve), which its      *)
(* service manager starts again, and the embedded bridges of the runtime    *)
(* (start_local_bridge), each on a thread of its own with a loop of its own *)
(* (deckapp/local_bridge.py LocalBridgeRunner) that the deck server starts, *)
(* adopts and closes (deckapp/server.py).                                   *)
(***************************************************************************)
EXTENDS Integers, Sequences, FiniteSets

CONSTANTS
    HasService,    \* whether the service is there
    Sessions,      \* how many local sessions are selected
    SlowWriter,    \* the history's thread may take longer than a close waits
    QueueMax,      \* QUEUE_MAX of the history
    MaxRunners, MaxTurns, MaxNotes, MaxBoots   \* bounds

VARIABLES
    herdr,   \* up, down, or too old for session.snapshot
    open,    \* per bridge: the parts of it that run
    todo,    \* per bridge: the parts its end still closes, in their order
    why,     \* per bridge: what ended it
    clock,   \* per bridge: the table of StatusSinceTracker, of which session, and its timer
    kept,    \* the files of the tables: whose, and which
    noted,   \* per bridge: the table at the last note of the stream
    rows,    \* per bridge: the episodes of the history
    thread,  \* per runner: where its thread is
    stop,    \* per runner: loop.stop was called
    deck,    \* the deck server's thread that starts and closes runners
    spent    \* bounds

lifeVars == <<herdr, open, todo, why, clock, kept, noted, rows, thread, stop, deck, spent>>

Service == 0
Runners == 1..MaxRunners
Bridges == {Service} \cup Runners
\* The embedded bridges, of whatever session, have one file.
FileOf(b) == IF b = Service THEN "service" ELSE "local"
NoRows == [on |-> FALSE, noted |-> 0, queued |-> 0, stored |-> 0, lost |-> 0]
Parts == {"tasks", "telegram", "hub", "clock", "history", "usage", "server"}
\* What serve() starts and what start_local_bridge() starts.
PartsOf(b) == IF b = Service THEN Parts ELSE Parts \ {"usage"}

\* The finally of serve(), and of the broadcast task of an embedded bridge.
\* A bug: the clock is written before the stream ends.
EndsTooEarly(b) ==
  IF b = Service THEN <<"clock", "history", "tasks", "telegram", "hub", "usage", "server">>
  ELSE <<"tasks", "telegram", "hub">>
Ends(b) ==
  IF b = Service THEN <<"tasks", "telegram", "hub", "clock", "history", "usage", "server">>
  ELSE <<"tasks", "telegram", "hub">>

TypeOK ==
  /\ herdr \in {"up", "down", "old"} /\ \A b \in Bridges : open[b] \subseteq PartsOf(b)
  /\ \A b \in Bridges : {todo[b][i] : i \in DOMAIN todo[b]} \subseteq Parts
  /\ why \in [Bridges -> {"", "crash", "raised", "restart"}]
  /\ \A b \in Bridges : noted[b] <= clock[b].live /\ clock[b].of \in 0..Sessions /\ rows[b].queued <= QueueMax
  /\ thread \in [Runners -> {"new", "probes", "binds", "listens", "serves", "ended"}]
  /\ stop \in [Runners -> BOOLEAN] /\ deck.mine \cup deck.owned \subseteq Runners
  /\ deck.at \in {"idle", "starts", "waits", "closes", "shuts", "stops", "closed"}

Init ==
  /\ herdr = "up" /\ open = [b \in Bridges |-> {}] /\ todo = [b \in Bridges |-> << >>]
  /\ why = [b \in Bridges |-> ""] /\ clock = [b \in Bridges |-> [of |-> 0, live |-> 0, timer |-> FALSE]]
  /\ kept = [f \in {"service", "local"} |-> [of |-> 0, live |-> 0]]
  /\ noted = [b \in Bridges |-> 0] /\ rows = [b \in Bridges |-> NoRows]
  /\ thread = [b \in Runners |-> "new"] /\ stop = [b \in Runners |-> FALSE]
  /\ deck = [at |-> "idle", left |-> 0, id |-> 0, mine |-> {}, owned |-> {}, closing |-> << >>, then |-> "idle"]
  /\ spent = [turns |-> 0, notes |-> 0, boots |-> 0]

Count(f) == spent' = [spent EXCEPT ![f] = @ + 1]
HerdrTurns ==
  /\ spent.turns < MaxTurns /\ Count("turns") /\ herdr' \in {"up", "down", "old"} \ {herdr}
  /\ UNCHANGED <<open, todo, why, clock, kept, noted, rows, thread, stop, deck>>
----------------------------------------------------------------------------
\* The bridge's loop runs: a runner that was told to stop runs no more of it.
Loops(b) == IF b = Service THEN TRUE ELSE thread[b] = "serves" /\ ~stop[b]
Flushed(b) == [kept EXCEPT ![FileOf(b)] = [of |-> clock[b].of, live |-> clock[b].live]]

\* HistoryStore.append: nothing once it is closed, or full.
Appended(b) ==
  rows' = [rows EXCEPT ![b] =
    IF ~@.on THEN @
    ELSE IF "history" \notin open[b] THEN [@ EXCEPT !.noted = @ + 1]
    ELSE IF @.queued < QueueMax THEN [@ EXCEPT !.noted = @ + 1, !.queued = @ + 1]
    ELSE [@ EXCEPT !.noted = @ + 1, !.lost = @ + 1]]
Stamped(b) == clock' = [clock EXCEPT ![b] = [@ EXCEPT !.live = @ + 1, !.timer = TRUE]]
\* A status changes: the stream stamps its snapshot, and an episode ends.
StreamNotes(b) ==
  /\ spent.notes < MaxNotes /\ Count("notes") /\ herdr = "up"
  /\ Loops(b) /\ "tasks" \in open[b] /\ Stamped(b) /\ Appended(b)
  /\ noted' = [noted EXCEPT ![b] = clock'[b].live]
  /\ UNCHANGED <<herdr, open, todo, why, kept, thread, stop, deck>>
\* ... or a client asks for the list first: the server answers until the end.
ClientStamps(b) ==
  /\ spent.notes < MaxNotes /\ Count("notes") /\ herdr = "up"
  /\ Loops(b) /\ "server" \in open[b] /\ Stamped(b)
  /\ UNCHANGED <<herdr, open, todo, why, kept, noted, rows, thread, stop, deck>>
\* _schedule_save, flush
TimerFires(b) ==
  /\ Loops(b) /\ clock[b].timer /\ clock' = [clock EXCEPT ![b].timer = FALSE] /\ kept' = Flushed(b)
  /\ UNCHANGED <<herdr, open, todo, why, noted, rows, thread, stop, deck, spent>>
\* The thread of the history; that of an embedded bridge outlives the bridge.
WriterWrites(b) ==
  /\ rows[b].queued > 0 /\ deck.at # "closed"
  /\ rows' = [rows EXCEPT ![b] = [@ EXCEPT !.stored = @ + rows[b].queued, !.queued = 0]]
  /\ UNCHANGED <<herdr, open, todo, why, clock, kept, noted, thread, stop, deck, spent>>
----------------------------------------------------------------------------
\* The parts of a bridge start together, with the table of the file: an entry
\* of another session's panes is dropped.  The history may not start (_open_history).
Opens(b) ==
  /\ \E on \in BOOLEAN :
       /\ open' = [open EXCEPT ![b] = IF on THEN PartsOf(b) ELSE PartsOf(b) \ {"history"}]
       /\ rows' = [rows EXCEPT ![b] = [NoRows EXCEPT !.on = on]]
  /\ LET found == kept[FileOf(b)]
         live == IF found.of = clock[b].of THEN found.live ELSE 0 IN
       /\ clock' = [clock EXCEPT ![b].live = live, ![b].timer = FALSE]
       /\ noted' = [noted EXCEPT ![b] = 0]

\* serve(), up to the socket; the service manager calls it again and again.
\* _require_snapshot_support: only a herdr that is too old is fatal.
Boot ==
  /\ HasService /\ open[Service] = {} /\ spent.boots < MaxBoots /\ Count("boots")
  /\ \/ herdr = "old" /\ why' = [why EXCEPT ![Service] = "raised"] /\ UNCHANGED <<open, clock, noted, rows>>
     \/ herdr # "old" /\ Opens(Service) /\ why' = [why EXCEPT ![Service] = ""]
  /\ UNCHANGED <<herdr, todo, kept, thread, stop, deck>>

\* The stream raises when herdr has become too old; an embedded bridge then
\* serves on without it, and only logs it (_log_broadcast_task_failure).
StreamDies(b) ==
  /\ herdr = "old" /\ Loops(b) /\ "tasks" \in open[b] /\ why[b] # "raised"
  /\ why' = [why EXCEPT ![b] = "raised"]
  /\ todo' = IF todo[b] = << >> THEN [todo EXCEPT ![b] = Ends(b)] ELSE todo
  /\ UNCHANGED <<herdr, open, clock, kept, noted, rows, thread, stop, deck, spent>>
\* A verified self-update asks for a restart (the exit seam).
UpdateAsks ==
  /\ "server" \in open[Service] /\ todo[Service] = << >> /\ why[Service] = ""
  /\ why' = [why EXCEPT ![Service] = "restart"] /\ todo' = [todo EXCEPT ![Service] = Ends(Service)]
  /\ UNCHANGED <<herdr, open, clock, kept, noted, rows, thread, stop, deck, spent>>

\* The next part closes: tasks are cancelled and awaited, the table is written,
\* the history's thread is joined.
CloseNext(b) ==
  /\ todo[b] # << >> /\ Loops(b)
  /\ todo' = [todo EXCEPT ![b] = Tail(@)] /\ open' = [open EXCEPT ![b] = @ \ {Head(todo[b])}]
  /\ IF Head(todo[b]) = "clock"
     THEN kept' = Flushed(b) /\ clock' = [clock EXCEPT ![b].timer = FALSE] ELSE UNCHANGED <<kept, clock>>
  /\ Head(todo[b]) = "history" => rows[b].queued = 0 \/ SlowWriter
  /\ UNCHANGED <<herdr, why, noted, rows, thread, stop, deck, spent>>

Crash ==
  /\ open[Service] # {} /\ open' = [open EXCEPT ![Service] = {}] /\ todo' = [todo EXCEPT ![Service] = << >>]
  /\ why' = [why EXCEPT ![Service] = "crash"] /\ noted' = [noted EXCEPT ![Service] = 0]
  /\ clock' = [clock EXCEPT ![Service].live = 0, ![Service].timer = FALSE]
  /\ rows' = [rows EXCEPT ![Service] = NoRows]
  /\ UNCHANGED <<herdr, kept, thread, stop, deck, spent>>
----------------------------------------------------------------------------
\* A runner's thread: start_local_bridge on its loop.  A stop before the bridge
\* listens breaks it off; one that comes between the coroutine and run_forever
\* is found there.
Probe(b) ==
  /\ thread[b] = "probes"
  /\ thread' = [thread EXCEPT ![b] = IF stop[b] \/ herdr = "old" THEN "ended" ELSE "binds"]
  /\ UNCHANGED <<herdr, open, todo, why, clock, kept, noted, rows, stop, deck, spent>>
Bind(b) ==
  /\ thread[b] = "binds"
  /\ \/ thread' = [thread EXCEPT ![b] = "ended"] /\ UNCHANGED <<open, clock, noted, rows>>
     \/ ~stop[b] /\ thread' = [thread EXCEPT ![b] = "listens"] /\ Opens(b)
  /\ UNCHANGED <<herdr, todo, why, kept, stop, deck, spent>>
\* _bound, _handle and _ready are set, and the loop runs on.
Publish(b) ==
  /\ thread[b] = "listens" /\ thread' = [thread EXCEPT ![b] = "serves"]
  /\ UNCHANGED <<herdr, open, todo, why, clock, kept, noted, rows, stop, deck, spent>>
\* The loop stops where it is: nothing of the bridge runs any more.
LoopEnds(b) ==
  /\ thread[b] = "serves" /\ stop[b] /\ thread' = [thread EXCEPT ![b] = "ended"]
  /\ open' = [open EXCEPT ![b] = {}] /\ todo' = [todo EXCEPT ![b] = << >>]
  /\ UNCHANGED <<herdr, why, clock, kept, noted, rows, stop, deck, spent>>
----------------------------------------------------------------------------
\* _build_remote_source_with_selected_locals, _start_local_session_bridges: one
\* runner for each session, one after the other.
StartAll ==
  /\ deck.at = "idle" /\ Sessions > 0 /\ deck' = [deck EXCEPT !.at = "starts", !.left = Sessions, !.mine = {}]
  /\ Cardinality({b \in Runners : thread[b] = "new"}) >= Sessions
  /\ UNCHANGED <<herdr, open, todo, why, clock, kept, noted, rows, thread, stop, spent>>
StartOne ==
  /\ deck.at = "starts" /\ deck.left > 0
  /\ LET b == CHOOSE n \in Runners : thread[n] = "new" /\ \A k \in 1..(n - 1) : thread[k] # "new" IN
       /\ thread' = [thread EXCEPT ![b] = "probes"]
       /\ deck' = [deck EXCEPT !.at = "waits", !.left = @ - 1, !.id = b]
       /\ clock' = [clock EXCEPT ![b].of = deck.left]
  /\ UNCHANGED <<herdr, open, todo, why, kept, noted, rows, stop, spent>>
Started ==
  /\ deck.at = "waits" /\ thread[deck.id] = "serves"
  /\ deck' = [deck EXCEPT !.at = "starts", !.mine = @ \cup {deck.id}]
  /\ UNCHANGED <<herdr, open, todo, why, clock, kept, noted, rows, thread, stop, spent>>

\* The runners of a set, in the order in which they were started.
InTurn(S) == SelectSeq([b \in 1..MaxRunners |-> b], LAMBDA b : b \in S)
Closes(list, then) ==
  deck' = [deck EXCEPT !.at = "closes", !.left = 0, !.closing = list, !.then = then,
                       !.mine = {}, !.owned = IF then = "closed" THEN {} ELSE deck.owned]
\* A bug: only the runners that did start are closed.
ClosesTheStarted(b, mine) == InTurn(mine)
ClosesOnFailure(b, mine) == <<b>> \o InTurn(mine)
\* start() raises: the thread's error, or no socket after ten seconds.
StartFails ==
  /\ deck.at = "waits" /\ thread[deck.id] # "serves" /\ Closes(ClosesOnFailure(deck.id, deck.mine), "idle")
  /\ UNCHANGED <<herdr, open, todo, why, clock, kept, noted, rows, thread, stop, spent>>
\* All run, but the source of the fleet cannot be built.
SourceFails ==
  /\ deck.at = "starts" /\ deck.left = 0 /\ Closes(InTurn(deck.mine), "idle")
  /\ UNCHANGED <<herdr, open, todo, why, clock, kept, noted, rows, thread, stop, spent>>
\* The source is swapped, then _set_local_bridges: the new ones are adopted
\* when the old ones are closed.
Adopt ==
  /\ deck.at = "starts" /\ deck.left = 0
  /\ deck' = [deck EXCEPT !.at = "closes", !.closing = InTurn(deck.owned), !.then = "idle",
                          !.owned = deck.mine, !.mine = {}]
  /\ UNCHANGED <<herdr, open, todo, why, clock, kept, noted, rows, thread, stop, spent>>
\* DeckApp.close
AppCloses ==
  /\ deck.at = "idle" /\ Sessions > 0 /\ Closes(InTurn(deck.owned), "closed")
  /\ UNCHANGED <<herdr, open, todo, why, clock, kept, noted, rows, thread, stop, spent>>

\* LocalBridgeRunner.close: the handle is read once.  With one the broadcast
\* task is cancelled - inside its finally that breaks the finally off - and then
\* the server is closed.
ShutDown ==
  /\ deck.at = "closes" /\ deck.closing # << >>
  /\ LET b == Head(deck.closing) IN
       IF thread[b] = "serves"
       THEN /\ deck' = [deck EXCEPT !.at = "shuts"]
            /\ todo' = [todo EXCEPT ![b] =
                 IF todo[b] = << >> /\ "tasks" \in open[b] THEN Append(Ends(b), "server") ELSE <<"server">>]
       ELSE deck' = [deck EXCEPT !.at = "stops"] /\ UNCHANGED todo
  /\ UNCHANGED <<herdr, open, why, clock, kept, noted, rows, thread, stop, spent>>
\* It is done, or the two seconds are over: loop.stop.
StopLoop ==
  /\ deck.at \in {"shuts", "stops"} /\ stop' = [stop EXCEPT ![Head(deck.closing)] = TRUE]
  /\ deck' = [deck EXCEPT !.at = "closes", !.closing = Tail(@)]
  /\ UNCHANGED <<herdr, open, todo, why, clock, kept, noted, rows, thread, spent>>
AllClosed ==
  /\ deck.at = "closes" /\ deck.closing = << >> /\ deck' = [deck EXCEPT !.at = deck.then]
  /\ UNCHANGED <<herdr, open, todo, why, clock, kept, noted, rows, thread, stop, spent>>
----------------------------------------------------------------------------
Next ==
  \/ HerdrTurns \/ Boot \/ UpdateAsks \/ Crash
  \/ \E b \in Bridges : StreamNotes(b) \/ ClientStamps(b) \/ TimerFires(b) \/ WriterWrites(b) \/ StreamDies(b) \/ CloseNext(b)
  \/ \E b \in Runners : Probe(b) \/ Bind(b) \/ Publish(b) \/ LoopEnds(b)
  \/ StartAll \/ StartOne \/ Started \/ StartFails \/ SourceFails \/ Adopt \/ AppCloses
  \/ ShutDown \/ StopLoop \/ AllClosed

Spec == Init /\ [][Next]_lifeVars
----------------------------------------------------------------------------
\* The bridge runs on, or will: nobody told its loop to stop.
Alive(b) == thread[b] \notin {"new", "ended"} /\ ~stop[b]

\* Whatever failed on the way, a bridge that nobody told to stop belongs to the
\* source on the deck or to the start that is going on; and the source's bridges
\* all serve, until the deck server closes them.
NoBridgeIsLost ==
  /\ deck.at \in {"idle", "closed"} => \A b \in Runners : Alive(b) => b \in deck.owned
  /\ \A b \in deck.owned : Alive(b) /\ "server" \in open[b]

\* "A restart must not lose the debounced last write": what the stream noted is
\* in the file when serve has ended by itself, and its episodes are stored,
\* unless the queue was full or the writer too slow; what only a client's list
\* stamped after that may be lost.
ServiceKeepsItsClock ==
  open[Service] = {} /\ why[Service] \in {"raised", "restart"} =>
    /\ noted[Service] <= kept["service"].live
    /\ SlowWriter \/ rows[Service].noted = rows[Service].stored + rows[Service].lost
=============================================================================
