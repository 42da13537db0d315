------------------------------- MODULE Terminals -------------------------------
(***************************************************************************)
(* Live terminal previews: the sessions of a runtime                       *)
(* (deckapp/agent_term.py), its connector, and the observes of the bridge  *)
(* (bridge.py: _serve_connection, _run_observe) with their limits.         *)
(*                                                                         *)
(* The bridge is one event loop; a connection's handler reads one message  *)
(* after the other and waits inside a stop.  The runtime's pool is used by *)
(* HTTP threads, its reaper and the connector: its lock is released before *)
(* anything is sent.                                                       *)
(***************************************************************************)
EXTENDS Integers, Sequences, SequencesExt, FiniteSets, FiniteSetsExt

CONSTANTS
    Runtimes,
    Sessions,      \* the previews ever opened; a session names its observe
    Owner,         \* Owner[s]: the runtime that opens s
    MaxSessions,   \* CardTerminals max_sessions
    PerClient,     \* _OBSERVE_MAX_PER_CLIENT
    InTotal,       \* _OBSERVE_MAX_TOTAL
    MaxFaults,     \* bound: anonymous errors and lost connections
    EvictUnsent    \* may a session be dropped before its observe was sent?

VARIABLES
    pool,      \* pool[r]: CardTerminals._sessions, least recently polled first
    session,   \* session[s]: unopened, open, or why it is closed
    sent,      \* sent[s]: open has sent the observe
    framed,    \* framed[s]: a frame has arrived (next_index > 1)
    up,        \* up[r]: the connection of r
    inbox,     \* inbox[r]: messages the bridge has yet to read from r
    outbox,    \* outbox[r]: frames on their way to r
    handler,   \* handler[r]: reading, the session it waits for, or over
    observes,  \* observes[r]: `observes` of the connection's handler
    task,      \* task[s]: the task of an observe
    closed,    \* closed[s]: state["closed"] of an observe
    told,      \* told[s]: term_closed frames sent for s (history)
    total,     \* _observe_total
    faults

vars == <<pool, session, sent, framed, up, inbox, outbox, handler, observes,
          task, closed, told, total, faults>>
poolVars   == <<pool, session, sent, framed>>
bridgeVars == <<handler, observes, task, closed, told, total>>

\* "aborted": cancelled before its first step, so no line of it ever runs.
Live == {"new", "running", "ending", "cancelled", "aborted"}
Gone == {"stopped", "ended", "disconnected"}
Pooled(r) == ToSet(pool[r])
IsOpen(s) == session[s] = "open"

Observe(s) == <<"observe", s>>
StopOf(s)  == <<"stop", s>>

TypeOK ==
    /\ \A r \in Runtimes :
         /\ Pooled(r) \subseteq Sessions /\ up[r] \in BOOLEAN
         /\ ToSet(inbox[r]) \subseteq {"observe", "stop"} \X Sessions
         /\ ToSet(outbox[r]) \subseteq {"frame", "closed"} \X Sessions
         /\ handler[r] \in {0, -1} \cup Sessions
         /\ observes[r] \subseteq Sessions
    /\ \A s \in Sessions :
         /\ session[s] \in {"unopened", "open"} \cup Gone
         /\ {sent[s], framed[s], closed[s]} \subseteq BOOLEAN
         /\ task[s] \in {"none", "done"} \cup Live /\ told[s] \in 0..2
    /\ total \in 0..Cardinality(Sessions) /\ faults \in 0..MaxFaults

Reading == 0    \* the handler waits for a message
Over    == -1   \* the handler has returned

Init ==
    /\ pool = [r \in Runtimes |-> <<>>]
    /\ session = [s \in Sessions |-> "unopened"]
    /\ sent = [s \in Sessions |-> FALSE] /\ framed = [s \in Sessions |-> FALSE]
    /\ up = [r \in Runtimes |-> TRUE]
    /\ inbox = [r \in Runtimes |-> <<>>] /\ outbox = [r \in Runtimes |-> <<>>]
    /\ handler = [r \in Runtimes |-> Reading]
    /\ observes = [r \in Runtimes |-> {}]
    /\ task = [s \in Sessions |-> "none"]
    /\ closed = [s \in Sessions |-> FALSE] /\ told = [s \in Sessions |-> 0]
    /\ total = 0 /\ faults = 0

-----------------------------------------------------------------------------
(* The runtime's pool.                                                     *)

\* The connector drops what is sent on a lost connection.
Say(r, messages) == inbox' = IF up[r] THEN [inbox EXCEPT ![r] = @ \o messages]
                             ELSE inbox

\* Mutant: an evicted session is forgotten without a stop.
NoStops(dropped) == <<>>

\* What _drop_locked has sent for the sessions it drops, or fail_fresh closes.
StopsOf(dropped) ==
    LET still == SelectSeq(dropped, IsOpen)
    IN  [k \in DOMAIN still |-> StopOf(still[k])]

Closing(dropped, why) ==
    [s \in Sessions |-> IF s \in ToSet(dropped) /\ IsOpen(s) THEN why ELSE session[s]]

Without(seq, s) == SelectSeq(seq, LAMBDA x : x # s)

\* The first half of open: least recently polled sessions make room, the new
\* one is registered.
Register(s) ==
    LET r == Owner[s]
        surplus == Max({0, Len(pool[r]) - MaxSessions + 1})
        evicted == SubSeq(pool[r], 1, surplus)
    IN  /\ session[s] = "unopened"
        /\ EvictUnsent \/ \A x \in ToSet(evicted) : sent[x]
        /\ pool' = [pool EXCEPT ![r] = Append(SubSeq(@, surplus + 1, Len(@)), s)]
        /\ session' = [Closing(evicted, "stopped") EXCEPT ![s] = "open"]
        /\ Say(r, StopsOf(evicted))
        /\ UNCHANGED <<sent, framed, up, outbox, bridgeVars, faults>>

\* The second half of open: the observe is sent, outside the pool's lock.
SendObserve(s) ==
    /\ session[s] # "unopened" /\ ~sent[s]
    /\ sent' = [sent EXCEPT ![s] = TRUE]
    /\ Say(Owner[s], <<Observe(s)>>)
    /\ session' = IF up[Owner[s]] THEN session ELSE Closing(<<s>>, "disconnected")
    /\ UNCHANGED <<pool, framed, up, outbox, bridgeVars, faults>>

\* close by the viewer, or the reaper's drop of a session nobody polls.  Only
\* open tells the viewer which session is its own.
CloseSession(s) ==
    LET r == Owner[s]
    IN  /\ s \in Pooled(r) /\ sent[s]
        /\ pool' = [pool EXCEPT ![r] = Without(@, s)]
        /\ session' = Closing(<<s>>, "stopped")
        /\ Say(r, StopsOf(<<s>>))
        /\ UNCHANGED <<sent, framed, up, outbox, bridgeVars, faults>>

\* poll: the session is the most recent one; a close it delivers forgets it.
Poll(s) ==
    LET r == Owner[s]
    IN  /\ s \in Pooled(r) /\ sent[s]
        /\ pool' = [pool EXCEPT ![r] = IF IsOpen(s) THEN Append(Without(@, s), s)
                                       ELSE Without(@, s)]
        /\ UNCHANGED <<session, sent, framed, up, inbox, outbox, bridgeVars, faults>>

\* on_term: a frame or a term_closed for a session of the pool.
ReceiveTerm(r) ==
    /\ outbox[r] # <<>>
    /\ LET kind == Head(outbox[r])[1]
           s == Head(outbox[r])[2]
           mine == s \in Pooled(r) /\ IsOpen(s)
       IN  /\ framed' = IF mine /\ kind = "frame" THEN [framed EXCEPT ![s] = TRUE] ELSE framed
           /\ session' = IF mine /\ kind = "closed" THEN Closing(<<s>>, "ended") ELSE session
    /\ outbox' = [outbox EXCEPT ![r] = Tail(@)]
    /\ UNCHANGED <<pool, sent, up, inbox, bridgeVars, faults>>

\* fail_fresh: an error without a request closes the sessions that show
\* nothing yet, and stops them in case it was not theirs.
AnonymousError(r) ==
    LET fresh == SelectSeq(pool[r], LAMBDA s : IsOpen(s) /\ ~framed[s])
    IN  /\ up[r] /\ faults < MaxFaults /\ faults' = faults + 1
        /\ EvictUnsent \/ \A s \in ToSet(fresh) : sent[s]
        /\ session' = Closing(fresh, "ended")
        /\ Say(r, StopsOf(fresh))
        /\ UNCHANGED <<pool, sent, framed, up, outbox, bridgeVars>>

-----------------------------------------------------------------------------
(* The bridge.                                                             *)

Tell(r, frame) == outbox' = IF up[r] THEN [outbox EXCEPT ![r] = Append(@, frame)]
                            ELSE outbox

TellClosed(s) == /\ Tell(Owner[s], <<"closed", s>>)
                 /\ told' = [told EXCEPT ![s] = @ + 1]

\* Mutant: the limit counts the observes of this connection only.
HasRoomHere(r) == Cardinality(observes[r]) < PerClient

HasRoom(r) == Cardinality(observes[r]) < PerClient /\ total < InTotal

\* The handler reads an observe: a duplicate is ignored, one whose agent has
\* changed or that finds no room is refused, any other gets a task.
ReadObserve(r) ==
    /\ handler[r] = Reading /\ inbox[r] # <<>> /\ Head(inbox[r])[1] = "observe"
    /\ LET s == Head(inbox[r])[2]
       IN  \E changed \in BOOLEAN :
             IF s \in observes[r]
             THEN UNCHANGED <<outbox, told, total, task, observes>>
             ELSE IF changed \/ ~HasRoom(r)
             THEN TellClosed(s) /\ UNCHANGED <<total, task, observes>>
             ELSE /\ total' = total + 1 /\ task' = [task EXCEPT ![s] = "new"]
                  /\ observes' = [observes EXCEPT ![r] = @ \cup {s}]
                  /\ UNCHANGED <<outbox, told>>
    /\ inbox' = [inbox EXCEPT ![r] = Tail(@)]
    /\ UNCHANGED <<poolVars, up, handler, closed, faults>>

Cancelled(s) == CASE task[s] = "new" -> "aborted"
                  [] task[s] = "running" -> "cancelled"
                  [] OTHER -> task[s]

\* stop_observe: the task is cancelled and waited for.
ReadStop(r) ==
    /\ handler[r] = Reading /\ inbox[r] # <<>> /\ Head(inbox[r])[1] = "stop"
    /\ LET s == Head(inbox[r])[2]
       IN  IF s \in observes[r]
           THEN /\ task' = [task EXCEPT ![s] = Cancelled(s)]
                /\ handler' = [handler EXCEPT ![r] = s]
           ELSE UNCHANGED <<task, handler>>
    /\ inbox' = [inbox EXCEPT ![r] = Tail(@)]
    /\ UNCHANGED <<poolVars, up, outbox, observes, closed, told, total, faults>>

\* Mutant: the handler tells the client of every stop.
StoppedAlwaysTells(r) ==
    /\ handler[r] \in Sessions /\ task[handler[r]] = "done"
    /\ TellClosed(handler[r]) /\ closed' = [closed EXCEPT ![handler[r]] = TRUE]
    /\ handler' = [handler EXCEPT ![r] = Reading]
    /\ UNCHANGED <<poolVars, up, inbox, observes, task, total, faults>>

\* The task has ended: the handler tells the client if the task has not.
Stopped(r) ==
    /\ handler[r] \in Sessions /\ task[handler[r]] = "done"
    /\ IF closed[handler[r]] THEN UNCHANGED <<outbox, told, closed>>
       ELSE TellClosed(handler[r]) /\ closed' = [closed EXCEPT ![handler[r]] = TRUE]
    /\ handler' = [handler EXCEPT ![r] = Reading]
    /\ UNCHANGED <<poolVars, up, inbox, observes, task, total, faults>>

\* _run_observe begins: it starts herdr's observe process (EndStream is also
\* the case that it cannot).
Spawn(s) ==
    /\ task[s] = "new" /\ task' = [task EXCEPT ![s] = "running"]
    /\ UNCHANGED <<poolVars, up, inbox, outbox, handler, observes, closed, told,
                   total, faults>>

\* The process writes a frame (only the first matters here); a client that is
\* gone ends the observe.
SendFrame(s) ==
    /\ task[s] = "running" /\ ~framed[s] /\ <<"frame", s>> \notin ToSet(outbox[Owner[s]])
    /\ Tell(Owner[s], <<"frame", s>>)
    /\ task' = IF up[Owner[s]] THEN task ELSE [task EXCEPT ![s] = "ending"]
    /\ UNCHANGED <<poolVars, up, inbox, handler, observes, closed, told, total, faults>>

\* herdr closes the stream, or writes something invalid.
EndStream(s) ==
    /\ task[s] = "running" /\ task' = [task EXCEPT ![s] = "ending"]
    /\ UNCHANGED <<poolVars, up, inbox, outbox, handler, observes, closed, told,
                   total, faults>>

\* Mutant: a task that never started is not counted down.
FreedStarted(s) == IF task[s] = "aborted" THEN total ELSE total - 1

\* observe_done gives the place back, however the task ended.
Freed(s) == total - 1

\* The process is reaped, the client is told unless it was, and the task's
\* callback runs.  An aborted task has no `finally`.
Finish(s) ==
    /\ task[s] \in {"ending", "cancelled", "aborted"}
    /\ IF closed[s] \/ task[s] = "aborted" THEN UNCHANGED <<outbox, told, closed>>
       ELSE TellClosed(s) /\ closed' = [closed EXCEPT ![s] = TRUE]
    /\ task' = [task EXCEPT ![s] = "done"]
    /\ total' = Freed(s)
    /\ observes' = [observes EXCEPT ![Owner[s]] = @ \ {s}]
    /\ UNCHANGED <<poolVars, up, inbox, handler, faults>>

\* Mutant: the sessions of a lost connection stay as they are.
Orphaned(r) == session

\* close_server.
ClosedWith(r) == Closing(pool[r], "disconnected")

\* The connection is lost: close_server ends the sessions of the runtime.
Drop(r) ==
    /\ up[r] /\ up' = [up EXCEPT ![r] = FALSE]
    /\ faults < MaxFaults /\ faults' = faults + 1
    /\ outbox' = [outbox EXCEPT ![r] = <<>>]
    /\ session' = ClosedWith(r)
    /\ UNCHANGED <<pool, sent, framed, inbox, bridgeVars>>

\* The handler has read what had arrived and leaves: `finally` cancels the
\* observes of the connection.
Leave(r) ==
    /\ ~up[r] /\ handler[r] = Reading /\ inbox[r] = <<>>
    /\ handler' = [handler EXCEPT ![r] = Over]
    /\ task' = [s \in Sessions |-> IF s \in observes[r] THEN Cancelled(s) ELSE task[s]]
    /\ UNCHANGED <<poolVars, up, inbox, outbox, observes, closed, told, total, faults>>

-----------------------------------------------------------------------------
BridgeStep(r) == ReadObserve(r) \/ ReadStop(r) \/ Stopped(r) \/ Leave(r)

Next ==
    \/ \E r \in Runtimes : BridgeStep(r) \/ ReceiveTerm(r) \/ AnonymousError(r) \/ Drop(r)
    \/ \E s \in Sessions :
         \/ Register(s) \/ SendObserve(s) \/ CloseSession(s) \/ Poll(s)
         \/ Spawn(s) \/ SendFrame(s) \/ EndStream(s) \/ Finish(s)

Spec == Init /\ [][Next]_vars

-----------------------------------------------------------------------------
\* The counter shared by all connections is the number of observes that run,
\* whatever ended the others: herdr, a stop, a dead connection, or a
\* cancellation before their first step.
TotalIsLive == total = Cardinality({s \in Sessions : task[s] \in Live})

\* No order of observes on several connections exceeds the bridge's limit.
WithinTotal == Cardinality({s \in Sessions : task[s] \in Live}) <= InTotal

\* A client is told once that an observe has ended, although its task and the
\* handler that stops it may both do so.
ClosedOnce == \A s \in Sessions : told[s] <= 1

\* Everything the runtime has sent was read, every task that has to end has
\* ended and was told of.
Settled(r) ==
    /\ inbox[r] = <<>> /\ outbox[r] = <<>>
    /\ handler[r] = Over \/ (handler[r] = Reading /\ up[r])
    /\ \A s \in Sessions : Owner[s] = r =>
         /\ sent[s] \/ session[s] = "unopened"
         /\ task[s] \in {"none", "new", "running", "done"}

\* "Observation never outlives its viewer": when a session is no longer shown
\* (closed, evicted, failed or disconnected) and the messages about it have
\* been handled, its observe does not run.
NeverOutlivesViewer ==
    \A r \in Runtimes : Settled(r) =>
        \A s \in Sessions : Owner[s] = r /\ session[s] \in Gone => task[s] \notin Live

\* A preview whose observe was refused or has ended does not stay "live".
ViewerLearns ==
    \A r \in Runtimes : Settled(r) =>
        \A s \in Sessions : Owner[s] = r /\ (told[s] > 0 \/ task[s] = "done")
                                => session[s] \in Gone

\* The observes of all clients stay within the bridge's count and end with the
\* sessions they are for, and the sessions with them.
TerminalsAccounted ==
    TotalIsLive /\ WithinTotal /\ ClosedOnce /\ NeverOutlivesViewer /\ ViewerLearns
=============================================================================
