------------------------------ MODULE NotifyFeed ------------------------------
(***************************************************************************)
(* How a banner reaches the screen.  The runtime keeps an acknowledged feed *)
(* of alerts and withdrawals of one agent (notify.py); the desktop shell    *)
(* long-polls it, shows each item and acknowledges it (notify_pump.rs), or  *)
(* asks the runtime to show it itself when its own banner failed.  The      *)
(* shell, its connection and a banner can fail; the feed is bounded.        *)
(***************************************************************************)
EXTENDS Integers, FiniteSets, FiniteSetsExt

CONSTANTS
    Capacity,   \* items the feed keeps (NotificationFeed.DEFAULT_MAXLEN)
    MaxItems,   \* bound: items queued
    MaxFaults   \* bound: crashes, lost replies and failed banners

\* What the constants must satisfy; the modules that run this one assume it.
CapacityPositive == Capacity \in Nat \ {0}

VARIABLES
    last,       \* _seq: the newest item
    notices,    \* the items queued, [seq -> "alert" or "withdraw"]
    kept,       \* _items: the seqs the feed still has
    acked,      \* _acked_seq
    falling,    \* _fallback_seq, 0 when no fallback runs
    droppedSeqs,  \* undelivered items evicted by overflow
    shell,      \* the pump: phase, its cursor, and the batch it delivers
    seen,       \* how often the banner of each item was shown
    posted,     \* alerts whose banner is on the screen and can be removed
    troubles    \* [crashes, fallbacks that failed, all faults so far]

feedVars == <<last, notices, kept, acked, falling, droppedSeqs, shell, seen, posted, troubles>>

Seqs == 1..MaxItems
Phases == {"down", "poll", "wait", "deliver", "ack", "fallback"}

TypeOK ==
  /\ last \in 0..MaxItems /\ acked \in 0..last /\ falling \in 0..last
  /\ notices \in [1..last -> {"alert", "withdraw"}]
  /\ kept \subseteq 1..last /\ Cardinality(kept) <= Capacity
  /\ droppedSeqs \subseteq 1..last /\ posted \subseteq 1..last
  /\ shell.pc \in Phases /\ shell.cursor \in 0..last /\ shell.batch \subseteq 1..last
  /\ seen \in [Seqs -> 0..(2 + MaxFaults)]
  /\ troubles.all \in 0..MaxFaults

Down == [pc |-> "down", cursor |-> 0, batch |-> {}]

Init ==
  /\ last = 0 /\ notices = << >> /\ kept = {} /\ acked = 0 /\ falling = 0 /\ droppedSeqs = {}
  /\ shell = Down /\ seen = [s \in Seqs |-> 0] /\ posted = {}
  /\ troubles = [crashes |-> 0, failed |-> 0, all |-> 0]

Fault(kind) ==
  /\ troubles.all < MaxFaults
  /\ troubles' = [troubles EXCEPT !.all = @ + 1,
                                  !.crashes = @ + (IF kind = "crash" THEN 1 ELSE 0),
                                  !.failed = @ + (IF kind = "failed" THEN 1 ELSE 0)]
----------------------------------------------------------------------------
(* The runtime. *)

Newest(S, n) == {s \in S : Cardinality({t \in S : t > s}) < n}

\* Mutant: an undelivered item never leaves.
TrimmedOfDelivered(S) ==
  LET open == {s \in S : s > acked} IN open \cup Newest(S \ open, Capacity - Cardinality(open))

\* _trim_locked: acknowledged items leave first, the newest of them last; an
\* undelivered item leaves only when the feed is full of undelivered ones.
Trimmed(S) ==
  LET open == {s \in S : s > acked}
      room == Capacity - Cardinality(open)
  IN IF Cardinality(S) <= Capacity THEN S
     ELSE IF room > 0 THEN open \cup Newest(S \ open, room)
     ELSE Newest(open, Capacity)

\* push, and withdraw, which queues an item of another kind.
Push(kind) ==
  /\ last < MaxItems
  /\ last' = last + 1
  /\ notices' = [s \in 1..last' |-> IF s = last' THEN kind ELSE notices[s]]
  /\ LET all == kept \cup {last'} IN
       /\ kept' = Trimmed(all)
       /\ droppedSeqs' = droppedSeqs \cup {s \in all \ Trimmed(all) : s > acked}
  /\ UNCHANGED <<acked, falling, shell, seen, posted, troubles>>

PushAlert == Push("alert")
\* The agent left the status: live.py _withdraw_left, after an alert of it.
PushWithdraw == last > 0 /\ notices[last] = "alert" /\ Push("withdraw")

\* The floor wait() replies above.
Floor(after) == IF after > acked THEN after ELSE acked

\* ack: refused while a fallback runs.
AckFor(s) == IF falling = 0 /\ s > acked THEN s ELSE acked

\* fallback() under its lock: one item, not yet acknowledged, none running.
FallbackTakes(s) == s > acked /\ falling = 0 /\ s \in kept

\* deliver() returned, for a withdrawal at once: the banner is shown and the item acknowledged.
FallbackDone ==
  /\ falling # 0
  /\ seen' = IF notices[falling] = "alert" THEN [seen EXCEPT ![falling] = @ + 1] ELSE seen
  /\ acked' = IF falling > acked THEN falling ELSE acked
  /\ falling' = 0
  /\ UNCHANGED <<last, notices, kept, droppedSeqs, shell, posted, troubles>>

\* deliver() raised (osascript ran into its timeout): the item stays pending,
\* whether the banner appeared or not.
FallbackFails ==
  /\ falling # 0 /\ notices[falling] = "alert" /\ Fault("failed")
  /\ \E appeared \in {0, 1} : seen' = [seen EXCEPT ![falling] = @ + appeared]
  /\ falling' = 0
  /\ UNCHANGED <<last, notices, kept, acked, droppedSeqs, shell, posted>>
----------------------------------------------------------------------------
(* The shell's pump. *)

Start ==
  /\ shell.pc = "down" /\ shell' = [shell EXCEPT !.pc = "poll"]
  /\ UNCHANGED <<last, notices, kept, acked, falling, droppedSeqs, seen, posted, troubles>>

\* The long poll arrives: its cursor repairs an acknowledgement that was lost.
Poll ==
  /\ shell.pc = "poll" /\ shell' = [shell EXCEPT !.pc = "wait"]
  /\ acked' = AckFor(shell.cursor)
  /\ UNCHANGED <<last, notices, kept, falling, droppedSeqs, seen, posted, troubles>>

Batch == IF falling # 0 THEN {} ELSE {s \in kept : s > Floor(shell.cursor)}

\* The pump goes on with its batch, or polls again at its end.
Onward(batch) == IF batch = {} THEN "poll" ELSE "deliver"

\* A bug: the whole batch counts as delivered when it is received.
TakenCursor == Max(Batch)
\* The cursor step() takes from a reply: what the feed has acknowledged.
ReplyCursor == Floor(shell.cursor)

\* wait() replies once there is work; step() takes the batch above its cursor,
\* which follows what the feed has acknowledged.
Reply ==
  /\ shell.pc = "wait" /\ Batch # {}
  /\ shell' = [pc |-> "deliver", cursor |-> ReplyCursor, batch |-> Batch]
  /\ UNCHANGED <<last, notices, kept, acked, falling, droppedSeqs, seen, posted, troubles>>

\* The poll times out with nothing to deliver, or its reply is lost.
ReplyEmpty ==
  /\ shell.pc = "wait" /\ Batch = {}
  /\ shell' = [shell EXCEPT !.pc = "poll", !.cursor = Floor(@)]
  /\ UNCHANGED <<last, notices, kept, acked, falling, droppedSeqs, seen, posted, troubles>>
ReplyLost ==
  /\ shell.pc = "wait" /\ Fault("lost") /\ shell' = [shell EXCEPT !.pc = "poll"]
  /\ UNCHANGED <<last, notices, kept, acked, falling, droppedSeqs, seen, posted>>

Item == Min(shell.batch)

\* deliver_feed_item: a banner is shown, or the delivered ones are removed;
\* the cursor moves on at once, before the acknowledgement.
Deliver ==
  /\ shell.pc = "deliver"
  /\ IF notices[Item] = "alert"
     THEN /\ seen' = [seen EXCEPT ![Item] = @ + 1]
          /\ posted' = posted \cup {Item}
     ELSE /\ posted' = {} /\ UNCHANGED seen
  /\ shell' = [shell EXCEPT !.pc = "ack", !.cursor = Item]
  /\ UNCHANGED <<last, notices, kept, acked, falling, droppedSeqs, troubles>>

\* The acknowledgement is taken, refused (409) or lost; a batch stops at the
\* first that was not taken.
Ack ==
  /\ shell.pc = "ack"
  /\ \/ acked' = AckFor(Item) /\ troubles' = troubles
     \/ acked' \in {acked, AckFor(Item)} /\ Fault("lost")
  /\ LET rest == shell.batch \ {Item} IN
       \/ falling = 0 /\ troubles' = troubles /\ shell' = [shell EXCEPT !.pc = Onward(rest), !.batch = rest]
       \/ (falling # 0 \/ troubles' # troubles) /\ shell' = [shell EXCEPT !.pc = "poll", !.batch = {}]
  /\ UNCHANGED <<last, notices, kept, falling, droppedSeqs, seen, posted>>

\* The native banner fails: the runtime is asked to show this item.
PostFails ==
  /\ shell.pc = "deliver" /\ notices[Item] = "alert" /\ Fault("post")
  /\ falling' = IF FallbackTakes(Item) THEN Item ELSE falling
  /\ shell' = [shell EXCEPT !.pc = IF FallbackTakes(Item) THEN "fallback" ELSE "poll"]
  /\ UNCHANGED <<last, notices, kept, acked, droppedSeqs, seen, posted>>

\* The answer to that call: delivered, or the call failed or timed out while
\* the runtime is still at it.  Either way the batch ends.
FallbackAnswer ==
  /\ shell.pc = "fallback"
  /\ \/ falling = 0 /\ acked >= Item /\ shell' = [pc |-> "poll", cursor |-> Item, batch |-> {}]
                   /\ UNCHANGED troubles
     \/ falling = 0 /\ acked < Item /\ shell' = [shell EXCEPT !.pc = "poll", !.batch = {}]
                   /\ UNCHANGED troubles
     \/ Fault("lost") /\ shell' = [shell EXCEPT !.pc = "poll", !.batch = {}]
  /\ UNCHANGED <<last, notices, kept, acked, falling, droppedSeqs, seen, posted>>

\* The shell dies wherever it is; macOS keeps its banners, its cursor is lost.
Crash ==
  /\ shell.pc # "down" /\ Fault("crash") /\ shell' = Down
  /\ UNCHANGED <<last, notices, kept, acked, falling, droppedSeqs, seen, posted>>

PumpStep == Start \/ Poll \/ Reply \/ ReplyEmpty \/ Deliver \/ Ack \/ FallbackAnswer
Next ==
  \/ PushAlert \/ PushWithdraw \/ FallbackDone \/ FallbackFails
  \/ PumpStep \/ ReplyLost \/ PostFails \/ Crash

Spec == Init /\ [][Next]_feedVars
----------------------------------------------------------------------------
\* Nothing vanishes silently: what the feed counts as delivered was shown, or
\* is one of the drops it reports.
NothingVanishes ==
  \A s \in 1..acked : notices[s] = "alert" => seen[s] > 0 \/ s \in droppedSeqs

\* A banner is shown once more only for a shell that died before it
\* acknowledged, or a fallback that failed after its banner appeared.
ShownOnce == \A s \in 1..last : seen[s] <= 1 + troubles.crashes + troubles.failed

\* Once everything is acknowledged, a banner that was withdrawn is gone, unless
\* the withdrawal itself was dropped.
WithdrawnIsGone ==
  (acked = last /\ shell.pc = "wait" /\ falling = 0) =>
    \A w \in 1..last : notices[w] = "withdraw" /\ w \notin droppedSeqs =>
      \A s \in posted : s > w

BannersArrive == NothingVanishes /\ ShownOnce /\ WithdrawnIsGone
============================================================================
