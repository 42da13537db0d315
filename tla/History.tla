------------------------------- MODULE History -------------------------------
(***************************************************************************)
(* The bridge's status history of one pane (history.py).  The event loop   *)
(* turns its snapshots into ended episodes and queues them; a worker thread *)
(* drains the queue in rounds, writes a round's rows in one transaction    *)
(* and then answers the round's queries.  A stats request takes the open   *)
(* episode when it is made and the rows when it is answered.               *)
(***************************************************************************)
EXTENDS Integers, Sequences, FiniteSets, FiniteSetsExt

CONSTANTS
    Statuses,     \* the statuses whose time is summed; "blocked" is one
    QueueMax,     \* QUEUE_MAX
    BatchMax,     \* BATCH_MAX
    LateRows,     \* TRUE: an episode may end while a query waits
    MaxNow,       \* bound: clock
    MaxQueries,   \* bound: stats requests
    MaxFails      \* bound: writes that fail

\* What the constants must satisfy; the modules that run this one assume it.
Sizes == QueueMax \in Nat \ {0} /\ BatchMax \in Nat \ {0}

VARIABLES
    clockMs,    \* the wall clock
    liveEp,     \* _live of the pane: the episode that runs, or NoEpisode
    queue,      \* _queue
    worker,     \* the round the worker is in: phase, its rows, its queries
    rowsKept,   \* the rows of the database
    queries,    \* every stats request: [at, open, due, count], count -1 until answered
    closed,     \* _closed
    lostRows    \* rows dropped (queue full) or not written, and writes failed

historyVars == <<clockMs, liveEp, queue, worker, rowsKept, queries, closed, lostRows>>

NoEpisode == [status |-> "gone", started |-> 0, answered |-> FALSE]
Unanswered == 0 - 1
Failed == 0 - 2

Rows == [status : Statuses, to : Statuses \cup {"gone"}, started : 0..MaxNow, ended : 0..MaxNow,
         answered : BOOLEAN]
Fresh == [phase |-> "wait", batch |-> << >>, pending |-> {}]

TypeOK ==
  /\ clockMs \in 0..MaxNow /\ closed \in BOOLEAN
  /\ liveEp = NoEpisode \/
       (liveEp.status \in Statuses /\ liveEp.started \in 0..clockMs /\ liveEp.answered \in BOOLEAN)
  /\ Len(queue) <= QueueMax /\ Len(worker.batch) <= BatchMax
  /\ worker.phase \in {"wait", "drain", "answer", "stopped"} /\ worker.pending \subseteq DOMAIN queries
  /\ \A i \in DOMAIN rowsKept : rowsKept[i] \in Rows
  /\ lostRows.fails \in 0..MaxFails

Init ==
  /\ clockMs = 0 /\ liveEp = NoEpisode /\ queue = << >> /\ worker = Fresh
  /\ rowsKept = << >> /\ queries = << >> /\ closed = FALSE
  /\ lostRows = [rows |-> {}, fails |-> 0]

Row(i) == [op |-> "row", row |-> i]
Query(q) == [op |-> "query", query |-> q]
----------------------------------------------------------------------------
\* The event loop.

Waiting == {q \in DOMAIN queries : queries[q].count = Unanswered}

\* _end: an episode without a duration leaves no row.
Ended(to) == [status |-> liveEp.status, to |-> to, started |-> liveEp.started, ended |-> clockMs,
              answered |-> liveEp.answered /\ liveEp.status = "blocked"]

\* append: a full queue, or a closed store, drops the row.
Append1(row) ==
  IF closed \/ Len(queue) >= QueueMax
  THEN queue' = queue /\ lostRows' = [lostRows EXCEPT !.rows = @ \cup {row}]
  ELSE queue' = Append(queue, Row(row)) /\ lostRows' = lostRows

\* observe(): the pane is in another status, another terminal has its id, or
\* it is gone.  What follows another episode starts now.
Observe(to, recycled) ==
  /\ to # liveEp.status \/ recycled
  /\ LateRows \/ Waiting = {} \/ liveEp = NoEpisode
  /\ liveEp' = IF to = "gone" THEN NoEpisode
               ELSE [status |-> to, started |-> clockMs, answered |-> FALSE]
  /\ IF liveEp # NoEpisode /\ clockMs > liveEp.started
     THEN Append1(Ended(IF recycled THEN "gone" ELSE to))
     ELSE UNCHANGED <<queue, lostRows>>
  /\ UNCHANGED <<clockMs, worker, rowsKept, queries, closed>>

\* note_answer: the bridge delivered an answer to the pane.
NoteAnswer ==
  /\ liveEp.status = "blocked" /\ liveEp' = [liveEp EXCEPT !.answered = TRUE]
  /\ UNCHANGED <<clockMs, queue, worker, rowsKept, queries, closed, lostRows>>

Tick ==
  /\ clockMs < MaxNow /\ clockMs' = clockMs + 1
  /\ UNCHANGED <<liveEp, queue, worker, rowsKept, queries, closed, lostRows>>

\* The time of every episode so far, to the moment t.
Spent(rows, t) == MapThenSumSet(LAMBDA r : (IF r.ended < t THEN r.ended ELSE t) - r.started,
                                              {r \in rows : r.started < t})
----------------------------------------------------------------------------
\* open_episodes and query(), in one step of the event loop: the open episode
\* is taken now.  `due` is what the answer has to count.
OpenTime == IF liveEp = NoEpisode THEN 0 ELSE clockMs - liveEp.started

ItemRows(items) == {items[i].row : i \in {j \in DOMAIN items : items[j].op = "row"}}
RangeOf(s) == {s[i] : i \in DOMAIN s}
AllRows == RangeOf(rowsKept) \cup RangeOf(worker.batch) \cup ItemRows(queue) \cup lostRows.rows

Stats ==
  /\ Len(queries) < MaxQueries
  /\ LET q == Len(queries) + 1
         taken == ~closed /\ Len(queue) < QueueMax
     IN /\ queue' = IF taken THEN Append(queue, Query(q)) ELSE queue
        /\ queries' = Append(queries, [at |-> clockMs, open |-> OpenTime,
                                       due |-> Spent(AllRows, clockMs) + OpenTime,
                                       count |-> IF taken THEN Unanswered ELSE Failed])
  /\ UNCHANGED <<clockMs, liveEp, worker, rowsKept, closed, lostRows>>

\* close(): "close" is queued behind everything, once there is room.
Close ==
  /\ ~closed /\ Len(queue) < QueueMax
  /\ closed' = TRUE /\ queue' = Append(queue, [op |-> "close"])
  /\ UNCHANGED <<clockMs, liveEp, worker, rowsKept, queries, lostRows>>
----------------------------------------------------------------------------
\* The worker.

Drains == worker.phase = "wait" \/ (worker.phase = "drain" /\ Len(worker.batch) < BatchMax)

\* One item of the round; "close" ends it.
Take ==
  /\ Drains /\ queue # << >> /\ queue' = Tail(queue)
  /\ LET item == Head(queue) IN
       worker' = CASE item.op = "row"   -> [worker EXCEPT !.phase = "drain", !.batch = Append(@, item.row)]
                   [] item.op = "query" -> [worker EXCEPT !.phase = "drain", !.pending = @ \cup {item.query}]
                   [] item.op = "close" -> [worker EXCEPT !.phase = "answer"]
  /\ UNCHANGED <<clockMs, liveEp, rowsKept, queries, closed, lostRows>>

\* The queue is empty, the batch full, or "close" came: one transaction.
RoundEnds ==
  \/ worker.phase = "drain" /\ (queue = << >> \/ Len(worker.batch) = BatchMax)
  \/ worker.phase = "answer" /\ worker.batch # << >>
Write ==
  /\ RoundEnds
  /\ \/ rowsKept' = rowsKept \o worker.batch /\ UNCHANGED lostRows
     \/ /\ worker.batch # << >> /\ lostRows.fails < MaxFails /\ UNCHANGED rowsKept
        /\ lostRows' = [rows |-> lostRows.rows \cup RangeOf(worker.batch), fails |-> lostRows.fails + 1]
  /\ worker' = [worker EXCEPT !.phase = "answer", !.batch = << >>]
  /\ UNCHANGED <<clockMs, liveEp, queue, queries, closed>>

\* aggregate(): the rows that began before the request, cut at its time, and
\* the episode that was open then.
Count(q) == Spent(RangeOf(rowsKept), queries[q].at) + queries[q].open

\* A bug: a round answers its queries before it writes its rows.
AnswersFirst == worker.phase \in {"drain", "answer"}
Answers == worker.phase = "answer" /\ worker.batch = << >>
Answer(q) ==
  /\ Answers /\ q \in worker.pending
  /\ worker' = [worker EXCEPT !.pending = @ \ {q}]
  /\ queries' = [queries EXCEPT ![q].count = Count(q)]
  /\ UNCHANGED <<clockMs, liveEp, queue, rowsKept, closed, lostRows>>

\* The round is over; after "close" the queries still queued fail.
Leftover(q) == q \in {queue[i].query : i \in {j \in DOMAIN queue : queue[j].op = "query"}}
Onward ==
  /\ worker.phase = "answer" /\ worker.batch = << >> /\ worker.pending = {}
  /\ IF closed /\ \A i \in DOMAIN queue : queue[i].op # "close"
     THEN /\ worker' = [Fresh EXCEPT !.phase = "stopped"] /\ queue' = << >>
          /\ queries' = [q \in DOMAIN queries |->
               IF Leftover(q) THEN [queries[q] EXCEPT !.count = Failed] ELSE queries[q]]
     ELSE worker' = Fresh /\ UNCHANGED <<queue, queries>>
  /\ UNCHANGED <<clockMs, liveEp, rowsKept, closed, lostRows>>

Next ==
  \/ \E to \in Statuses \cup {"gone"} : Observe(to, FALSE)
  \/ \E to \in Statuses : liveEp # NoEpisode /\ Observe(to, TRUE)
  \/ NoteAnswer \/ Tick \/ Stats \/ Close \/ Take \/ Write \/ Onward
  \/ \E q \in DOMAIN queries : Answer(q)

Spec == Init /\ [][Next]_historyVars
----------------------------------------------------------------------------
\* One row per stretch of time: the rows of a pane never overlap.
RowsDoNotOverlap == \A i, j \in DOMAIN rowsKept : i < j => rowsKept[i].ended <= rowsKept[j].started

\* A stats reply counts every moment of the pane once: nothing that was queued
\* before the request is missing unless it was lost, and nothing counts twice.
StatsCountOnce ==
  \A q \in DOMAIN queries : queries[q].count >= 0 =>
    /\ queries[q].count <= queries[q].due
    /\ lostRows.rows = {} => queries[q].count = queries[q].due

\* Closing the store leaves nobody waiting.
NobodyHangs == worker.phase = "stopped" => Waiting = {}

HistoryIsExact == RowsDoNotOverlap /\ StatsCountOnce /\ NobodyHangs
============================================================================
