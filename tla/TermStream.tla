------------------------------ MODULE TermStream ------------------------------
(***************************************************************************)
(* The frames of one live preview on their way from the bridge to a        *)
(* browser: the bounded buffer of a session (deckapp/agent_term.py), the   *)
(* pump thread and the bounded queue of its stream                         *)
(* (deckapp/web_terminals.py), and a browser that paints what it reads.    *)
(*                                                                         *)
(* A frame is full or a change to the one before it, so a browser that     *)
(* misses a frame paints a torn screen until the next full one.            *)
(***************************************************************************)
EXTENDS Integers, Sequences, SequencesExt, FiniteSetsExt

CONSTANTS
    MaxFrames,   \* CardTerminals max_frames
    QueueMax,    \* QUEUE_MAX
    MaxMade      \* bound: frames of the preview

VARIABLES
    buffer,    \* _Session.frames
    made,      \* _Session.next_index - 1
    dropped,   \* _Session.dropped
    ended,     \* _Session.closed is not None
    known,     \* the session is in the pool
    pump,      \* polling, putting or done
    batch,     \* what the last poll returned and the pump has yet to put
    after,     \* the pump's cursor
    last,      \* the poll said the session has closed
    queue,     \* TermSub.queue
    left,      \* TermSub.cancelled: the browser has gone
    painted,   \* the last frame the browser has painted
    torn,      \* a frame was painted on the wrong screen (history)
    displaced  \* the close marker took a frame's place in a full queue (history)

vars == <<buffer, made, dropped, ended, known, pump, batch, after, last, queue,
          left, painted, torn, displaced>>
streamVars  == <<buffer, made, dropped, ended>>
browserVars == <<left, painted, torn>>

Frame == [n : 1..MaxMade, full : BOOLEAN]
Closed == [n |-> 0, full |-> FALSE]   \* the final close marker

TypeOK ==
    /\ buffer \in Seq(Frame) /\ batch \in Seq(Frame)
    /\ queue \in Seq(Frame \cup {Closed})
    /\ Len(buffer) <= MaxFrames /\ Len(queue) <= QueueMax
    /\ {made, after, painted} \subseteq 0..MaxMade
    /\ {dropped, ended, known, last, left, torn, displaced} \subseteq BOOLEAN
    /\ pump \in {"polling", "putting", "done"}

Init ==
    /\ buffer = <<>> /\ made = 0 /\ dropped = FALSE /\ ended = FALSE /\ known = TRUE
    /\ pump = "polling" /\ batch = <<>> /\ after = 0 /\ last = FALSE
    /\ queue = <<>> /\ left = FALSE
    /\ painted = 0 /\ torn = FALSE /\ displaced = FALSE

-----------------------------------------------------------------------------
\* on_term: a full frame makes all earlier ones needless.
Before(full) == [frames  |-> IF full THEN <<>> ELSE buffer,
                 dropped |-> dropped /\ ~full]

\* on_term of a frame: it is appended, and the oldest are evicted while there
\* are too many frames or too many bytes (`least` is as far as bytes go).  The
\* first frame of an observe is a full one.
OnFrame ==
    /\ known /\ ~ended /\ made < MaxMade
    /\ \E full \in IF made = 0 THEN {TRUE} ELSE BOOLEAN :
         LET seq == Append(Before(full).frames, [n |-> made + 1, full |-> full])
         IN  \E evicted \in 0..(Len(seq) - 1) :
               /\ Len(seq) - evicted <= MaxFrames
               /\ buffer' = SubSeq(seq, evicted + 1, Len(seq))
               /\ dropped' = (Before(full).dropped \/ evicted > 0)
    /\ made' = made + 1
    /\ UNCHANGED <<ended, known, pump, batch, after, last, queue, browserVars, displaced>>

\* A term_closed, an error or a lost connection closes the session.
OnClosed ==
    /\ known /\ ~ended /\ ended' = TRUE
    /\ UNCHANGED <<buffer, made, dropped, known, pump, batch, after, last, queue,
                   browserVars, displaced>>

\* Another preview evicts the session from the pool.
Evict ==
    /\ known /\ known' = FALSE /\ ended' = TRUE
    /\ UNCHANGED <<buffer, made, dropped, pump, batch, after, last, queue,
                   browserVars, displaced>>

-----------------------------------------------------------------------------
\* Mutant: the final marker is put like any other item.
FinishIfRoom(q) == IF Len(q) < QueueMax THEN Append(q, Closed) ELSE q

\* Mutant: no item makes room for the marker.
FinishBeyond(q) == Append(q, Closed)

\* The marker always gets in, at the price of the oldest item.
Finished(q) == IF Len(q) < QueueMax THEN Append(q, Closed) ELSE Append(Tail(q), Closed)

\* _finish.
Finish == /\ queue' = Finished(queue) /\ pump' = "done"
          /\ displaced' = (displaced \/ Len(queue) = QueueMax)

Unseen == SelectSeq(buffer, LAMBDA f : f.n > after)

\* Mutant: any frame after the cursor will do.
NoGap == FALSE

\* poll's `gap`: frames the pump has not seen were evicted.
Gap == /\ dropped
       /\ buffer # <<>> => after < Head(buffer).n - 1
       /\ buffer = <<>> => after < made
       /\ ~(Unseen # <<>> /\ Head(Unseen).full)

\* One round of _pump: the session is gone, has a gap, or gives its new frames;
\* a closed session is forgotten with its last frames.
Poll ==
    /\ pump = "polling" /\ ~left
    /\ IF ~known
       THEN Finish /\ UNCHANGED <<batch, after, last, known>>
       ELSE IF Gap
       THEN Finish /\ known' = FALSE /\ UNCHANGED <<batch, after, last>>
       ELSE /\ ended \/ made > after
            /\ batch' = Unseen /\ after' = made /\ last' = ended
            /\ known' = ~ended /\ pump' = "putting"
            /\ UNCHANGED <<queue, displaced>>
    /\ UNCHANGED <<streamVars, browserVars>>

\* The pump puts one frame; a full queue ends the stream, as a closed session
\* does after its last frame.
Put ==
    /\ pump = "putting"
    /\ IF batch = <<>> /\ last
       THEN Finish /\ UNCHANGED <<batch, known>>
       ELSE IF batch = <<>>
       THEN pump' = "polling" /\ UNCHANGED <<queue, batch, known, displaced>>
       ELSE IF Len(queue) < QueueMax
       THEN /\ queue' = Append(queue, Head(batch)) /\ batch' = Tail(batch)
            /\ UNCHANGED <<pump, known, displaced>>
       ELSE Finish /\ batch' = <<>> /\ known' = FALSE
    /\ UNCHANGED <<streamVars, after, last, browserVars>>

\* The pump notices that the browser has gone.
PumpLeaves ==
    /\ pump = "polling" /\ left /\ pump' = "done"
    /\ UNCHANGED <<streamVars, known, batch, after, last, queue, browserVars, displaced>>

\* The browser reads an item and paints it.
Paint ==
    /\ ~left /\ queue # <<>>
    /\ LET frame == Head(queue)
       IN  IF frame = Closed
           THEN left' = TRUE /\ UNCHANGED <<painted, torn>>
           ELSE /\ torn' = (torn \/ ~(frame.full \/ frame.n = painted + 1))
                /\ painted' = frame.n /\ UNCHANGED left
    /\ queue' = Tail(queue)
    /\ UNCHANGED <<streamVars, known, pump, batch, after, last, displaced>>

\* WebTerminals.close: the browser goes away, the session is closed.
Leave ==
    /\ ~left /\ left' = TRUE /\ known' = FALSE /\ ended' = TRUE
    /\ UNCHANGED <<buffer, made, dropped, pump, batch, after, last, queue, painted,
                   torn, displaced>>

Next == OnFrame \/ OnClosed \/ Evict \/ Poll \/ Put \/ PumpLeaves \/ Paint \/ Leave

Spec == Init /\ [][Next]_vars

-----------------------------------------------------------------------------
\* However far the browser lags behind a buffer that evicts, it never paints a
\* change on a screen the change was not made for - unless the close marker has
\* taken the place of a frame it had yet to read.
NoTornScreen == torn => displaced

\* A stream that has ended always says so to a browser that still listens.
CloseDelivered == pump = "done" /\ ~left => Closed \in ToSet(queue)

\* What the browser paints is what the agent's terminal showed, to the end.
StreamIsWhole == NoTornScreen /\ CloseDelivered
=============================================================================
