------------------------- MODULE EventFanoutProofs --------------------------
(***************************************************************************)
(* Proofs about EventFanout, for any runtimes, episodes and bounds, with   *)
(* or without crashes and failing lists, while the watchdog of a           *)
(* subscription does not fire (where it does, the statements are false:    *)
(* see README): a cursor covers only what is known, no event is skipped,   *)
(* and a question is alerted once.  Without faults of the runtime, what it *)
(* shows is the question each blocked pane asks.                           *)
(***************************************************************************)
EXTENDS EventFanout, FiniteSetTheorems, NaturalsInduction, WellFoundedInduction, TLAPS

-----------------------------------------------------------------------------
(* What is on its way to a client.                                         *)

\* Snapshots say nothing about the log; events and event_sync do.
Told(m) == m.type # "snapshot"

\* The order in which they reach a client: an event_sync goes behind the events
\* up to its seq.
Key(m) == IF m.type = "event" THEN 2 * m.seq ELSE 2 * m.seq + 1

\* What goes onto the wire of client c next.
Waiting(c) ==
  IF PumpWaits(c) THEN <<Event(pump.seq)>>
  ELSE IF sub[c] = None THEN << >> ELSE sub[c].todo

\* The events and event_syncs on wire w and in rest r behind it.
Coming(w, r) ==
  {m \in Messages : Told(m) /\ (\/ \E i \in DOMAIN w : w[i] = m
                                \/ \E i \in DOMAIN r : r[i] = m)}

Sorted(s) ==
  \A i, j \in DOMAIN s : i < j /\ Told(s[i]) /\ Told(s[j]) => Key(s[i]) < Key(s[j])

InTurn(w, r) ==
  /\ Sorted(w)
  /\ Sorted(r)
  /\ \A i \in DOMAIN w, j \in DOMAIN r : Told(w[i]) /\ Told(r[j]) => Key(w[i]) < Key(r[j])

\* A runtime's cursor is a place in the log of the running bridge.
Here(c) == disk[c].cursor # None /\ disk[c].cursor[1] = epoch

\* Is blocked event n the one of an episode that is still open?
Asking(n) == log[n].kind = "blocked" /\ log[n].ep \in Open

-----------------------------------------------------------------------------
(* The inductive invariant.                                                *)

\* The types the proof needs.
Types ==
  /\ epoch \in 1..MaxEpochs
  /\ log \in Seq(Frames) /\ Len(log) <= MaxSeq
  /\ low \in 1..(Len(log) + 1)
  /\ log # << >> => low <= Len(log)
  /\ fleet \in [Episodes -> [state : {"new", "open", "over"},
                             asks : 0..MaxQuestions, done : 0..MaxQuestions]]
  /\ \A ep \in Episodes : fleet[ep].state # "new" => fleet[ep].asks # 0
  /\ queue \in Seq(1..MaxSeq)
  /\ pump = None \/ pump \in Pumps
  /\ sub \in [Clients -> Subs \cup {None}]
  /\ conn \in [Clients -> {"down", "joining", "up"}]
  /\ wire \in [Clients -> Seq(Messages)]
  /\ listing \in [Clients -> [ok : BOOLEAN, panes : SUBSET Episodes] \cup {None}]
  /\ uplink = [c \in Clients |-> uplink[c]]
  /\ mem = [c \in Clients |-> mem[c]]
  /\ disk = [c \in Clients |-> disk[c]]
  /\ \A c \in Clients :
       /\ DOMAIN mem[c] = DOMAIN NoMemory
       /\ mem[c].synced \in BOOLEAN
       /\ mem[c].batch \in Batches \cup {None}
       /\ DOMAIN disk[c] = {"cursor", "known"}
       /\ disk[c].cursor \in Cursors \cup {None}

\* The log tells the truth: an episode it names is not new, and one whose end
\* it tells is over.
LogIsTrue ==
  \A n \in DOMAIN log :
    /\ fleet[log[n].ep].state # "new"
    /\ log[n].kind = "unblocked" => fleet[log[n].ep].state = "over"

\* The pump's frames are in order and of this log.
PumpInOrder ==
  /\ \A i \in DOMAIN queue : queue[i] <= Len(log)
  /\ \A i, j \in DOMAIN queue : i < j => queue[i] < queue[j]
  /\ pump # None => \A c \in pump.to : sub[c] # None /\ sub[c].active

CursorsAreOfLogs ==
  \A c \in Clients :
    disk[c].cursor # None =>
      /\ disk[c].cursor[1] <= epoch
      /\ Here(c) => disk[c].cursor[2] <= Len(log)

\* A client that is not subscribed gets snapshots only, and asks for what
\* follows its cursor.
BeforeSubscription(c) ==
  /\ Coming(wire[c], Waiting(c)) = {}
  /\ ~mem[c].synced
  /\ conn[c] = "down" => /\ uplink[c] = << >>
                         /\ listing[c] = None
                         /\ mem[c].batch = None
  /\ conn[c] # "down" => /\ uplink[c] = <<Request(c)>>
                         /\ mem[c].batch = << >>

\* Whoever feeds the client next has everything past upto: the ring while it
\* catches up, the queue afterwards.
Fed(c) ==
  /\ sub[c].upto <= Len(log)
  /\ ~sub[c].active => low <= sub[c].upto + 1
  /\ sub[c].active =>
       /\ sub[c].todo = << >>
       /\ \A n \in (sub[c].upto + 1)..Len(log) : \E i \in DOMAIN queue : queue[i] = n

\* After its event_sync, what is coming is every event from the cursor to upto.
Following(c) ==
  /\ mem[c].batch = None
  /\ Here(c)
  /\ disk[c].cursor[2] <= sub[c].upto
  /\ Coming(wire[c], Waiting(c)) =
       {m \in Messages : \E n \in (disk[c].cursor[2] + 1)..sub[c].upto : m = Event(n)}

\* The events the runtime has in its batch once event_sync m arrives.
Batched(c, m) ==
  {n \in 1..m : \/ \E i \in DOMAIN mem[c].batch : mem[c].batch[i] = n
                \/ Event(n) \in Coming(wire[c], Waiting(c))}

\* Before its event_sync m, what is coming is the rest of the replay, the sync
\* and every event from there to upto.
ReplayingTo(c, m, gap) ==
  /\ Sync(m, gap) \in Coming(wire[c], Waiting(c))
  /\ \A x \in Coming(wire[c], Waiting(c)) :
       x = Sync(m, gap) \/ \E n \in 1..sub[c].upto : x = Event(n)
  /\ \A n \in (m + 1)..sub[c].upto : Event(n) \in Coming(wire[c], Waiting(c))
  /\ \A i \in DOMAIN mem[c].batch : mem[c].batch[i] <= m
  /\ ~gap /\ Here(c) => (disk[c].cursor[2] + 1)..m \subseteq Batched(c, m)
  /\ \A n \in 1..m :
       Asking(n) => \/ Here(c) /\ n <= disk[c].cursor[2]
                    \/ \E p \in Batched(c, m) :
                         log[p].kind = "blocked" /\ log[p].ep = log[n].ep

Replaying(c) ==
  /\ mem[c].batch # None
  /\ \E m \in 0..sub[c].upto, gap \in BOOLEAN : ReplayingTo(c, m, gap)

AfterSubscription(c) ==
  /\ conn[c] # "down"
  /\ uplink[c] = << >>
  /\ listing[c] = None
  /\ Fed(c)
  /\ mem[c].synced => Following(c)
  /\ ~mem[c].synced => Replaying(c)

Lane(c) ==
  /\ InTurn(wire[c], Waiting(c))
  /\ sub[c] = None => BeforeSubscription(c)
  /\ sub[c] # None => AfterSubscription(c)

IInv ==
  /\ Types
  /\ LogIsTrue
  /\ PumpInOrder
  /\ CursorsAreOfLogs
  /\ \A c \in Clients : Lane(c)
  /\ CursorKnows

-----------------------------------------------------------------------------
(* Sets of places put in order.                                            *)

LEMMA Bounds ==
  /\ MaxQuestions \in Nat \ {0}
  /\ MaxSeq \in Nat \ {0}
  /\ MaxEpochs \in Nat \ {0}
  /\ RingMax \in Nat \ {0}
  BY FanoutAssumption

USE Bounds

\* InOrder lists every place once, in ascending order: a place's rank, how many
\* places there are up to it, is an injection into 1..Cardinality, so it meets
\* every rank.
LEMMA InOrderLists ==
  ASSUME NEW max \in Nat, NEW S \in SUBSET (1..max)
  PROVE  /\ InOrder(S) \in Seq(S)
         /\ Len(InOrder(S)) = Cardinality(S)
         /\ Cardinality(S) \in Nat
         /\ \A i, j \in 1..Cardinality(S) : i < j => InOrder(S)[i] < InOrder(S)[j]
         /\ \A n \in S : \E i \in 1..Cardinality(S) : InOrder(S)[i] = n
<1> DEFINE upto(n) == {m \in S : m <= n}
           rank == [n \in S |-> Cardinality(upto(n))]
           k == Cardinality(S)
<1>1. IsFiniteSet(S) /\ k \in Nat
  <2>1. IsFiniteSet(1..max)
    BY FS_Interval
  <2>2. IsFiniteSet(S)
    BY <2>1, FS_Subset
  <2> QED BY <2>2, FS_CardinalityType
<1> \A n \in S : n \in Nat
  OBVIOUS
<1>2. \A n \in S : IsFiniteSet(upto(n)) /\ Cardinality(upto(n)) \in 1..k
  <2> TAKE n \in S
  <2>1. upto(n) \in SUBSET S /\ n \in upto(n)
    OBVIOUS
  <2>2. IsFiniteSet(upto(n)) /\ Cardinality(upto(n)) <= k /\ Cardinality(upto(n)) \in Nat
    BY <1>1, <2>1, FS_Subset, FS_CardinalityType
  <2>3. Cardinality(upto(n)) # 0
    BY <2>1, <2>2, FS_EmptySet
  <2> QED BY <1>1, <2>2, <2>3
<1>3. \A n, m \in S : n < m => Cardinality(upto(n)) < Cardinality(upto(m))
  <2> SUFFICES ASSUME NEW n \in S, NEW m \in S, n < m
               PROVE  Cardinality(upto(n)) < Cardinality(upto(m))
    OBVIOUS
  <2> n \in Nat /\ m \in Nat
    OBVIOUS
  <2>1. upto(n) \in SUBSET upto(m) /\ m \in upto(m) /\ m \notin upto(n)
    <3>1. ASSUME NEW x \in upto(n) PROVE x \in upto(m)
      <4>1. x \in S /\ x \in Nat /\ x <= n
        BY <3>1
      <4> QED BY <4>1
    <3>2. upto(n) \subseteq upto(m)
      BY <3>1
    <3>3. m \in upto(m)
      OBVIOUS
    <3>4. m \notin upto(n)
      OBVIOUS
    <3> QED BY <3>2, <3>3, <3>4
  <2>2. /\ Cardinality(upto(n)) <= Cardinality(upto(m))
        /\ Cardinality(upto(m)) = Cardinality(upto(n)) => upto(m) = upto(n)
    BY <1>2, <2>1, FS_Subset
  <2> QED BY <1>2, <2>1, <2>2
<1>4. rank \in Injection(S, 1..k)
  <2>1. rank \in [S -> 1..k]
    BY <1>2
  <2>2. \A n, m \in S : rank[n] = rank[m] => n = m
    BY <1>2, <1>3
  <2> QED BY <2>1, <2>2 DEF Injection, IsInjective
<1>5. rank \in Surjection(S, 1..k)
  <2>1. IsFiniteSet(1..k) /\ Cardinality(1..k) = k
    BY <1>1, FS_Interval
  <2> QED BY <1>1, <1>4, <2>1, FS_Injection
<1>6. \A i \in 1..k : \E n \in S : Cardinality(upto(n)) = i
  BY <1>5 DEF Surjection
<1>7. \A i \in 1..k : InOrder(S)[i] \in S /\ Cardinality(upto(InOrder(S)[i])) = i
  BY <1>6 DEF InOrder
<1>8. InOrder(S) \in Seq(S) /\ Len(InOrder(S)) = k
  <2>1. InOrder(S) \in [1..k -> S]
    BY <1>7 DEF InOrder
  <2> QED BY <1>1, <2>1
<1>9. \A i, j \in 1..k : i < j => InOrder(S)[i] < InOrder(S)[j]
  <2> SUFFICES ASSUME NEW i \in 1..k, NEW j \in 1..k, i < j, ~(InOrder(S)[i] < InOrder(S)[j])
               PROVE  FALSE
    OBVIOUS
  <2>1. InOrder(S)[j] \in S /\ InOrder(S)[i] \in S
    BY <1>7
  <2>2. InOrder(S)[j] = InOrder(S)[i] \/ InOrder(S)[j] < InOrder(S)[i]
    <3>1. InOrder(S)[j] \in Nat /\ InOrder(S)[i] \in Nat
      BY <2>1
    <3> QED BY <3>1
  <2> DEFINE a == InOrder(S)[i]
             b == InOrder(S)[j]
  <2>3. Cardinality(upto(a)) = i /\ Cardinality(upto(b)) = j /\ a \in S /\ b \in S
    BY <1>7
  <2>4. CASE b = a
    BY <2>3, <2>4
  <2>5. CASE b < a
    <3> HIDE DEF a, b, upto
    <3> QED BY <1>3, <2>3, <2>5
  <2> QED BY <2>2, <2>4, <2>5
<1>10. \A n \in S : \E i \in 1..k : InOrder(S)[i] = n
  <2> TAKE n \in S
  <2>1. Cardinality(upto(n)) \in 1..k
    BY <1>2
  <2>2. InOrder(S)[Cardinality(upto(n))] \in S
    BY <1>7, <2>1
  <2> DEFINE m == InOrder(S)[Cardinality(upto(n))]
  <2>3. m = n
    <3>1. Cardinality(upto(m)) = Cardinality(upto(n)) /\ m \in S
      BY <1>7, <2>1
    <3> HIDE DEF m, upto
    <3>2. ~(m < n) /\ ~(n < m)
      BY <1>2, <1>3, <3>1
    <3> QED BY <3>1, <3>2
  <2> QED BY <2>1, <2>3
<1> QED BY <1>1, <1>8, <1>9, <1>10

\* Some place of the set is the last one.
LEMMA LastPlace ==
  ASSUME NEW max \in Nat, NEW S \in SUBSET (1..max), S # {}
  PROVE  \E n \in S : \A x \in S : x <= n
<1> DEFINE k == Cardinality(S)
           s == InOrder(S)
<1>1. /\ s \in Seq(S) /\ Len(s) = k /\ k \in Nat
      /\ \A i, j \in 1..k : i < j => s[i] < s[j]
      /\ \A n \in S : \E i \in 1..k : s[i] = n
  BY InOrderLists
<1> HIDE DEF s, k
<1>2. k \in 1..k
  <2>1. PICK n \in S : TRUE
    OBVIOUS
  <2>2. PICK i \in 1..k : s[i] = n
    BY <1>1, <2>1
  <2> QED BY <1>1, <2>2
<1>3. s[k] \in S
  BY <1>1, <1>2
<1>4. ASSUME NEW x \in S PROVE x <= s[k]
  <2>1. PICK i \in 1..k : s[i] = x
    BY <1>1
  <2>2. x \in 1..max /\ s[k] \in 1..max
    BY <1>3
  <2>3. i = k \/ i < k
    BY <1>1
  <2> QED BY <1>1, <1>2, <2>1, <2>2, <2>3
<1> QED BY <1>3, <1>4

\* The messages of a replay, in the order of their places.
LEMMA EventsInOrder ==
  ASSUME NEW S \in SUBSET (1..MaxSeq)
  PROVE  /\ Events(S) \in Seq(Messages)
         /\ Sorted(Events(S))
         /\ \A i \in DOMAIN Events(S) : \E n \in S : Events(S)[i] = Event(n)
         /\ \A n \in S : \E i \in DOMAIN Events(S) : Events(S)[i] = Event(n)
<1> DEFINE s == InOrder(S)
<1>1. /\ s \in Seq(S)
      /\ \A i, j \in DOMAIN s : i < j => s[i] < s[j]
      /\ \A n \in S : \E i \in DOMAIN s : s[i] = n
  <2>1. MaxSeq \in Nat
    OBVIOUS
  <2>2. /\ s \in Seq(S) /\ Len(s) = Cardinality(S)
        /\ \A i, j \in 1..Cardinality(S) : i < j => s[i] < s[j]
        /\ \A n \in S : \E i \in 1..Cardinality(S) : s[i] = n
    BY <2>1, InOrderLists
  <2> HIDE DEF s
  <2>3. DOMAIN s = 1..Cardinality(S)
    BY <2>2
  <2> QED BY <2>2, <2>3
<1>2. Events(S) = [i \in DOMAIN s |-> Event(s[i])]
  BY DEF Events
<1> HIDE DEF s
<1>3. \A n \in S : Event(n) \in Messages /\ Event(n).type = "event" /\ Event(n).seq = n
  BY DEF Event, Messages
<1>4. Events(S) \in [1..Len(s) -> Messages] /\ Len(s) \in Nat
  <2>1. Len(s) \in Nat /\ DOMAIN s = 1..Len(s) /\ \A i \in DOMAIN s : s[i] \in S
    BY <1>1
  <2> QED BY <1>2, <1>3, <2>1
<1>5. Events(S) \in Seq(Messages) /\ DOMAIN Events(S) = DOMAIN s
  BY <1>1, <1>4
<1>6. Sorted(Events(S))
  <2> SUFFICES ASSUME NEW i \in DOMAIN s, NEW j \in DOMAIN s, i < j
               PROVE  Key(Events(S)[i]) < Key(Events(S)[j])
    BY <1>5 DEF Sorted
  <2>1. Key(Events(S)[i]) = 2 * s[i] /\ Key(Events(S)[j]) = 2 * s[j]
    <3>1. s[i] \in S /\ s[j] \in S
      BY <1>1
    <3>2. Events(S)[i] = Event(s[i]) /\ Events(S)[j] = Event(s[j])
      BY <1>2
    <3> QED BY <1>3, <3>1, <3>2 DEF Key
  <2>2. s[i] \in Nat /\ s[j] \in Nat /\ s[i] < s[j]
    <3>1. s[i] \in S /\ s[j] \in S /\ S \subseteq Nat
      BY <1>1
    <3>2. s[i] < s[j]
      BY <1>1
    <3> QED BY <3>1, <3>2
  <2> QED BY <2>1, <2>2
<1>7. \A i \in DOMAIN Events(S) : \E n \in S : Events(S)[i] = Event(n)
  <2> TAKE i \in DOMAIN Events(S)
  <2>1. s[i] \in S /\ Events(S)[i] = Event(s[i])
    BY <1>1, <1>2, <1>5
  <2> QED BY <2>1
<1>8. \A n \in S : \E i \in DOMAIN Events(S) : Events(S)[i] = Event(n)
  <2> TAKE n \in S
  <2>1. PICK i \in DOMAIN s : s[i] = n
    BY <1>1
  <2> QED BY <1>2, <1>5, <2>1
<1> QED BY <1>5, <1>6, <1>7, <1>8

-----------------------------------------------------------------------------
(* What a step does to the messages on their way.                          *)

LEMMA ToldMessages ==
  /\ \A n \in 1..MaxSeq :
       Event(n) \in Messages /\ Told(Event(n)) /\ Key(Event(n)) = 2 * n /\ Event(n).seq = n
       /\ Event(n).type = "event"
  /\ \A n \in 0..MaxSeq, gap \in BOOLEAN :
       Sync(n, gap) \in Messages /\ Told(Sync(n, gap)) /\ Key(Sync(n, gap)) = 2 * n + 1
       /\ Sync(n, gap).seq = n /\ Sync(n, gap).gap = gap /\ Sync(n, gap).type = "sync"
  /\ \A panes \in SUBSET Episodes :
       Snapshot(panes) \in Messages /\ ~Told(Snapshot(panes)) /\ Snapshot(panes).type = "snapshot"
  /\ \A m \in Messages :
       /\ m.type = "event" => m.seq \in 1..MaxSeq /\ m = Event(m.seq)
       /\ m.type = "sync" => m.seq \in 0..MaxSeq /\ m.gap \in BOOLEAN /\ m = Sync(m.seq, m.gap)
       /\ Told(m) => m.type \in {"event", "sync"} /\ Key(m) \in Nat
<1>1. \A n \in 1..MaxSeq :
       Event(n) \in Messages /\ Told(Event(n)) /\ Key(Event(n)) = 2 * n /\ Event(n).seq = n
       /\ Event(n).type = "event"
  BY DEF Event, Messages, Told, Key
<1>2. \A n \in 0..MaxSeq, gap \in BOOLEAN :
       Sync(n, gap) \in Messages /\ Told(Sync(n, gap)) /\ Key(Sync(n, gap)) = 2 * n + 1
       /\ Sync(n, gap).seq = n /\ Sync(n, gap).gap = gap /\ Sync(n, gap).type = "sync"
  BY DEF Sync, Messages, Told, Key
<1>3. \A panes \in SUBSET Episodes :
       Snapshot(panes) \in Messages /\ ~Told(Snapshot(panes)) /\ Snapshot(panes).type = "snapshot"
  BY DEF Snapshot, Messages, Told
<1>4. \A m \in Messages :
       /\ m.type = "event" => m.seq \in 1..MaxSeq /\ m = Event(m.seq)
       /\ m.type = "sync" => m.seq \in 0..MaxSeq /\ m.gap \in BOOLEAN /\ m = Sync(m.seq, m.gap)
       /\ Told(m) => m.type \in {"event", "sync"} /\ Key(m) \in Nat
  BY DEF Event, Sync, Messages, Told, Key
<1> QED BY <1>1, <1>2, <1>3, <1>4

\* A snapshot changes nothing that is told about the log.
LEMMA ShowingKeeps ==
  ASSUME NEW w \in Seq(Messages), NEW r \in Seq(Messages), InTurn(w, r), NEW panes \in SUBSET Episodes
  PROVE  /\ Append(w, Snapshot(panes)) \in Seq(Messages)
         /\ InTurn(Append(w, Snapshot(panes)), r)
         /\ Coming(Append(w, Snapshot(panes)), r) = Coming(w, r)
<1> DEFINE x == Snapshot(panes)
           v == Append(w, x)
<1>1. x \in Messages /\ ~Told(x)
  BY ToldMessages
<1> HIDE DEF x
<1>2. /\ v \in Seq(Messages) /\ DOMAIN v = 1..(Len(w) + 1) /\ v[Len(w) + 1] = x
      /\ \A i \in 1..Len(w) : v[i] = w[i]
      /\ DOMAIN w = 1..Len(w) /\ Len(w) \in Nat
  BY <1>1
<1> HIDE DEF v
<1>3. InTurn(v, r)
  <2>1. \A i \in DOMAIN v : Told(v[i]) => i \in DOMAIN w /\ v[i] = w[i]
    BY <1>1, <1>2
  <2>2. Sorted(v)
    BY <2>1 DEF InTurn, Sorted
  <2>3. \A i \in DOMAIN v, j \in DOMAIN r : Told(v[i]) /\ Told(r[j]) => Key(v[i]) < Key(r[j])
    BY <2>1 DEF InTurn
  <2> QED BY <2>2, <2>3 DEF InTurn
<1>4. Coming(v, r) = Coming(w, r)
  BY <1>1, <1>2 DEF Coming
<1> QED BY <1>2, <1>3, <1>4 DEF v, x

LEMMA SortedTail ==
  ASSUME NEW s \in Seq(Messages), s # << >>, Sorted(s)
  PROVE  Sorted(Tail(s))
<1> SUFFICES ASSUME NEW i \in DOMAIN Tail(s), NEW j \in DOMAIN Tail(s), i < j,
                    Told(Tail(s)[i]), Told(Tail(s)[j])
             PROVE  Key(Tail(s)[i]) < Key(Tail(s)[j])
  BY DEF Sorted
<1>1. /\ i + 1 \in DOMAIN s /\ j + 1 \in DOMAIN s /\ i + 1 < j + 1
      /\ Tail(s)[i] = s[i + 1] /\ Tail(s)[j] = s[j + 1]
  OBVIOUS
<1> QED BY <1>1 DEF Sorted

\* What waits goes onto the wire in its turn.
LEMMA SendingKeeps ==
  ASSUME NEW w \in Seq(Messages), NEW r \in Seq(Messages), InTurn(w, r), r # << >>
  PROVE  /\ Append(w, Head(r)) \in Seq(Messages)
         /\ Tail(r) \in Seq(Messages)
         /\ InTurn(Append(w, Head(r)), Tail(r))
         /\ Coming(Append(w, Head(r)), Tail(r)) = Coming(w, r)
<1> DEFINE v == Append(w, Head(r))
           t == Tail(r)
<1>1. /\ v \in Seq(Messages) /\ DOMAIN v = 1..(Len(w) + 1) /\ v[Len(w) + 1] = r[1]
      /\ \A i \in 1..Len(w) : v[i] = w[i]
      /\ DOMAIN w = 1..Len(w) /\ Len(w) \in Nat
      /\ t \in Seq(Messages) /\ DOMAIN t = 1..(Len(r) - 1) /\ Len(r) \in Nat \ {0}
      /\ \A i \in 1..(Len(r) - 1) : t[i] = r[i + 1]
      /\ DOMAIN r = 1..Len(r)
  OBVIOUS
<1>3. Sorted(t)
  BY SortedTail DEF InTurn
<1> HIDE DEF v, t
<1>2. Sorted(v)
  <2> SUFFICES ASSUME NEW i \in DOMAIN v, NEW j \in DOMAIN v, i < j, Told(v[i]), Told(v[j])
               PROVE  Key(v[i]) < Key(v[j])
    BY DEF Sorted
  <2>1. i \in 1..Len(w) /\ v[i] = w[i]
    BY <1>1
  <2>2. CASE j \in 1..Len(w)
    <3>1. v[j] = w[j] /\ i \in DOMAIN w /\ j \in DOMAIN w
      BY <1>1, <2>1, <2>2
    <3> QED BY <2>1, <3>1 DEF InTurn, Sorted
  <2>3. CASE j = Len(w) + 1
    <3>1. v[j] = r[1] /\ i \in DOMAIN w /\ 1 \in DOMAIN r
      BY <1>1, <2>1, <2>3
    <3> QED BY <2>1, <3>1 DEF InTurn
  <2> QED BY <1>1, <2>2, <2>3
<1>4. \A i \in DOMAIN v, j \in DOMAIN t : Told(v[i]) /\ Told(t[j]) => Key(v[i]) < Key(t[j])
  <2> TAKE i \in DOMAIN v, j \in DOMAIN t
  <2>1. t[j] = r[j + 1] /\ j + 1 \in DOMAIN r /\ 1 \in DOMAIN r /\ 1 < j + 1
    BY <1>1
  <2>2. CASE i \in DOMAIN w
    BY <1>1, <2>1, <2>2 DEF InTurn
  <2>3. CASE i = Len(w) + 1
    BY <1>1, <2>1, <2>3 DEF InTurn, Sorted
  <2> QED BY <1>1, <2>2, <2>3
<1>5. Coming(v, t) = Coming(w, r)
  <2>1. ASSUME NEW m, \E i \in DOMAIN v : v[i] = m
        PROVE  (\E i \in DOMAIN w : w[i] = m) \/ (\E i \in DOMAIN r : r[i] = m)
    <3>1. PICK i \in DOMAIN v : v[i] = m
      BY <2>1
    <3>2. CASE i \in DOMAIN w
      BY <1>1, <3>1, <3>2
    <3>3. CASE i \notin DOMAIN w
      <4>1. 1 \in DOMAIN r /\ r[1] = m
        BY <1>1, <3>1, <3>3
      <4> QED BY <4>1
    <3> QED BY <3>2, <3>3
  <2>2. ASSUME NEW m, \E i \in DOMAIN t : t[i] = m
        PROVE  \E i \in DOMAIN r : r[i] = m
    <3>1. PICK i \in DOMAIN t : t[i] = m
      BY <2>2
    <3>2. i + 1 \in DOMAIN r /\ r[i + 1] = m
      BY <1>1, <3>1
    <3> QED BY <3>2
  <2>3. ASSUME NEW m, \E i \in DOMAIN w : w[i] = m
        PROVE  \E i \in DOMAIN v : v[i] = m
    <3>1. PICK i \in DOMAIN w : w[i] = m
      BY <2>3
    <3>2. i \in DOMAIN v /\ v[i] = m
      BY <1>1, <3>1
    <3> QED BY <3>2
  <2>4. ASSUME NEW m, NEW i \in DOMAIN r, r[i] = m
        PROVE  (\E j \in DOMAIN v : v[j] = m) \/ (\E j \in DOMAIN t : t[j] = m)
    <3>1. CASE i = 1
      BY <1>1, <2>4, <3>1
    <3>2. CASE i # 1
      <4>1. i - 1 \in DOMAIN t /\ t[i - 1] = m
        BY <1>1, <2>4, <3>2
      <4> QED BY <4>1
    <3> QED BY <3>1, <3>2
  <2> QED BY <2>1, <2>2, <2>3, <2>4 DEF Coming
<1> QED BY <1>1, <1>2, <1>3, <1>4, <1>5 DEF InTurn, v, t

\* The head of the wire is the first of what is coming.
LEMMA TakingKeeps ==
  ASSUME NEW w \in Seq(Messages), NEW r \in Seq(Messages), InTurn(w, r), w # << >>
  PROVE  /\ Head(w) \in Messages
         /\ Tail(w) \in Seq(Messages)
         /\ InTurn(Tail(w), r)
         /\ ~Told(Head(w)) => Coming(Tail(w), r) = Coming(w, r)
         /\ Told(Head(w)) =>
              /\ Head(w) \in Coming(w, r)
              /\ Coming(Tail(w), r) = Coming(w, r) \ {Head(w)}
              /\ \A m \in Coming(Tail(w), r) : Key(Head(w)) < Key(m)
<1> DEFINE v == Tail(w)
           h == Head(w)
<1>1. /\ v \in Seq(Messages) /\ DOMAIN v = 1..(Len(w) - 1) /\ Len(w) \in Nat \ {0}
      /\ \A i \in 1..(Len(w) - 1) : v[i] = w[i + 1]
      /\ DOMAIN w = 1..Len(w) /\ h = w[1] /\ h \in Messages
  OBVIOUS
<1>2. InTurn(v, r)
  <2>1. Sorted(v)
    BY SortedTail DEF InTurn
  <2> HIDE DEF v, h
  <2>2. \A i \in DOMAIN v, j \in DOMAIN r : Told(v[i]) /\ Told(r[j]) => Key(v[i]) < Key(r[j])
    <3> TAKE i \in DOMAIN v, j \in DOMAIN r
    <3>1. i + 1 \in DOMAIN w /\ v[i] = w[i + 1]
      BY <1>1
    <3> QED BY <3>1 DEF InTurn
  <2> QED BY <2>1, <2>2 DEF InTurn
<1> HIDE DEF v, h
<1>3. \A m \in Messages : (\E i \in DOMAIN w : w[i] = m) <=> m = h \/ \E i \in DOMAIN v : v[i] = m
  <2> SUFFICES ASSUME NEW m \in Messages
               PROVE  (\E i \in DOMAIN w : w[i] = m) <=> m = h \/ \E i \in DOMAIN v : v[i] = m
    OBVIOUS
  <2>1. ASSUME NEW i \in DOMAIN w, w[i] = m PROVE m = h \/ \E j \in DOMAIN v : v[j] = m
    <3>1. CASE i = 1
      BY <1>1, <2>1, <3>1
    <3>2. CASE i # 1
      <4>1. i - 1 \in DOMAIN v /\ v[i - 1] = m
        BY <1>1, <2>1, <3>2
      <4> QED BY <4>1
    <3> QED BY <3>1, <3>2
  <2>2. ASSUME NEW i \in DOMAIN v, v[i] = m PROVE \E j \in DOMAIN w : w[j] = m
    <3>1. i + 1 \in DOMAIN w /\ w[i + 1] = m
      BY <1>1, <2>2
    <3> QED BY <3>1
  <2>3. m = h => \E j \in DOMAIN w : w[j] = m
    BY <1>1
  <2> QED BY <2>1, <2>2, <2>3
<1>4. ~Told(h) => Coming(v, r) = Coming(w, r)
  BY <1>3 DEF Coming
<1>5. ASSUME Told(h), NEW m \in Coming(v, r) PROVE Key(h) < Key(m)
  <2>1. Told(m)
    BY DEF Coming
  <2>2. ASSUME NEW i \in DOMAIN v, v[i] = m PROVE Key(h) < Key(m)
    <3>1. 1 \in DOMAIN w /\ i + 1 \in DOMAIN w /\ 1 < i + 1 /\ w[i + 1] = m
      BY <1>1, <2>2
    <3> QED BY <1>1, <1>5, <2>1, <3>1 DEF InTurn, Sorted
  <2>3. ASSUME NEW i \in DOMAIN r, r[i] = m PROVE Key(h) < Key(m)
    <3>1. 1 \in DOMAIN w
      BY <1>1
    <3> QED BY <1>1, <1>5, <2>1, <2>3, <3>1 DEF InTurn
  <2> QED BY <2>2, <2>3 DEF Coming
<1>6. Told(h) => h \in Coming(w, r) /\ Coming(v, r) = Coming(w, r) \ {h}
  <2> SUFFICES ASSUME Told(h) PROVE h \in Coming(w, r) /\ Coming(v, r) = Coming(w, r) \ {h}
    OBVIOUS
  <2>1. h \in Coming(w, r)
    BY <1>1, <1>3 DEF Coming
  <2>2. h \notin Coming(v, r)
    <3>1. Key(h) \in Nat
      BY <1>1, ToldMessages
    <3> QED BY <1>5, <3>1
  <2>3. Coming(v, r) \subseteq Coming(w, r)
    BY <1>3 DEF Coming
  <2>4. Coming(w, r) \subseteq Coming(v, r) \cup {h}
    BY <1>3 DEF Coming
  <2> QED BY <2>1, <2>2, <2>3, <2>4
<1> QED BY <1>1, <1>2, <1>4, <1>5, <1>6 DEF v, h

\* Something new waits behind everything that is coming.
LEMMA AddingKeeps ==
  ASSUME NEW w \in Seq(Messages), NEW r \in Seq(Messages), InTurn(w, << >>), Sorted(r),
         \A m \in Coming(w, << >>), i \in DOMAIN r : Told(r[i]) => Key(m) < Key(r[i])
  PROVE  /\ InTurn(w, r)
         /\ Coming(w, r) = Coming(w, << >>) \cup {m \in Messages : Told(m) /\ \E i \in DOMAIN r : r[i] = m}
<1>1. \A i \in DOMAIN w : Told(w[i]) => w[i] \in Coming(w, << >>)
  BY DEF Coming
<1>2. InTurn(w, r)
  BY <1>1 DEF InTurn
<1>3. DOMAIN << >> = {}
  OBVIOUS
<1> QED BY <1>2, <1>3 DEF Coming
-----------------------------------------------------------------------------
(* What a step that does not serve client c leaves of its lane.            *)

LEMMA SubType ==
  ASSUME Types, NEW c \in Clients, sub[c] # None
  PROVE  /\ sub[c] \in Subs
         /\ sub[c].todo \in Seq(Messages) /\ sub[c].upto \in 0..MaxSeq /\ sub[c].upto \in Nat
         /\ sub[c].active \in BOOLEAN
         /\ Len(log) \in Nat /\ Len(log) <= MaxSeq /\ low \in Nat
  BY DEF Types, Subs

LEMMA WaitingType ==
  ASSUME Types, NEW c \in Clients
  PROVE  wire[c] \in Seq(Messages) /\ Waiting(c) \in Seq(Messages)
<1>1. ASSUME PumpWaits(c) PROVE <<Event(pump.seq)>> \in Seq(Messages)
  <2>1. pump.seq \in 1..MaxSeq
    BY <1>1 DEF Types, Pumps, PumpWaits
  <2> QED BY <2>1, ToldMessages
<1>2. ASSUME sub[c] # None PROVE sub[c].todo \in Seq(Messages)
  BY <1>2 DEF Types, Subs
<1> QED BY <1>1, <1>2 DEF Types, Waiting

\* The log only grows, and no old event becomes one of an open episode.
Grows ==
  /\ epoch' = epoch
  /\ Len(log) <= Len(log')
  /\ \A n \in 1..Len(log) : log'[n] = log[n] /\ (Asking(n)' => Asking(n))

\* What the lane of client c is made of is as before.
Unmoved(c) ==
  /\ sub'[c] = sub[c]
  /\ conn'[c] = "down" <=> conn[c] = "down"
  /\ uplink'[c] = uplink[c]
  /\ listing'[c] = listing[c]
  /\ mem'[c].batch = mem[c].batch
  /\ mem'[c].synced = mem[c].synced
  /\ disk'[c].cursor = disk[c].cursor

LEMMA ReplayKept ==
  ASSUME Types, Types', NEW c \in Clients, Grows, sub[c] # None, Fed(c), Replaying(c),
         sub'[c] = sub[c], mem'[c].batch = mem[c].batch, disk'[c].cursor = disk[c].cursor,
         Coming(wire[c], Waiting(c))' = Coming(wire[c], Waiting(c))
  PROVE  Replaying(c)'
<1>1. PICK m \in 0..sub[c].upto, gap \in BOOLEAN : ReplayingTo(c, m, gap)
  BY DEF Replaying
<1>2. sub[c].upto \in Nat /\ sub[c].upto <= Len(log) /\ Len(log) \in Nat /\ m \in Nat /\ m <= Len(log)
  BY SubType DEF Fed
<1>3. Batched(c, m)' = Batched(c, m)
  BY DEF Batched
<1>4. Here(c)' <=> Here(c)
  BY DEF Here, Grows
<1>5. \A n \in 1..m : log'[n] = log[n] /\ (Asking(n)' => Asking(n))
  BY <1>2 DEF Grows
<1>6. Batched(c, m) \subseteq 1..m
  BY DEF Batched
<1>7. ASSUME NEW n \in 1..m, Asking(n)'
      PROVE  \/ Here(c) /\ n <= disk[c].cursor[2]
             \/ \E p \in Batched(c, m) : log'[p].kind = "blocked" /\ log'[p].ep = log'[n].ep
  <2>1. Asking(n)
    BY <1>5, <1>7
  <2>2. CASE Here(c) /\ n <= disk[c].cursor[2]
    BY <2>2
  <2>3. CASE \E p \in Batched(c, m) : log[p].kind = "blocked" /\ log[p].ep = log[n].ep
    <3>1. PICK p \in Batched(c, m) : log[p].kind = "blocked" /\ log[p].ep = log[n].ep
      BY <2>3
    <3> QED BY <1>5, <1>6, <3>1
  <2> QED BY <1>1, <2>1, <2>2, <2>3 DEF ReplayingTo
<1>8. ReplayingTo(c, m, gap)'
  BY <1>1, <1>3, <1>4, <1>7 DEF ReplayingTo
<1>9. mem'[c].batch # None
  BY DEF Replaying
<1> QED BY <1>8, <1>9 DEF Replaying

LEMMA LaneKept ==
  ASSUME Types, Types', NEW c \in Clients, Lane(c), Grows, Unmoved(c),
         InTurn(wire[c], Waiting(c))',
         Coming(wire[c], Waiting(c))' = Coming(wire[c], Waiting(c)),
         sub[c] # None => Fed(c)'
  PROVE  Lane(c)'
<1>1. Request(c)' = Request(c)
  BY DEF Unmoved, Request
<1>2. Here(c)' <=> Here(c)
  BY DEF Unmoved, Here, Grows
<1>3. ASSUME sub[c] = None PROVE Lane(c)'
  BY <1>1, <1>3 DEF Lane, BeforeSubscription, Unmoved
<1>4. ASSUME sub[c] # None PROVE Lane(c)'
  <2>1. AfterSubscription(c)
    BY <1>4 DEF Lane
  <2>2. ASSUME mem[c].synced PROVE Following(c)'
    BY <1>2, <2>1, <2>2 DEF AfterSubscription, Following, Unmoved
  <2>3. ASSUME ~mem[c].synced PROVE Replaying(c)'
    BY <1>4, <2>1, <2>3, ReplayKept DEF AfterSubscription, Unmoved
  <2>4. AfterSubscription(c)'
    BY <1>4, <2>1, <2>2, <2>3 DEF AfterSubscription, Unmoved
  <2> QED BY <1>4, <2>4 DEF Lane, Unmoved
<1> QED BY <1>3, <1>4

\* Nothing the client hears of is touched.
LEMMA LaneUntouched ==
  ASSUME Types, Types', NEW c \in Clients, Lane(c), Grows, Unmoved(c),
         wire'[c] = wire[c], Waiting(c)' = Waiting(c), sub[c] # None => Fed(c)'
  PROVE  Lane(c)'
<1>1. InTurn(wire[c], Waiting(c))'
  BY DEF Lane
<1>2. Coming(wire[c], Waiting(c))' = Coming(wire[c], Waiting(c))
  OBVIOUS
<1> QED BY <1>1, <1>2, LaneKept

\* A snapshot for the client changes nothing of this.
LEMMA LaneShown ==
  ASSUME Types, Types', NEW c \in Clients, Lane(c), Grows, Unmoved(c),
         NEW panes \in SUBSET Episodes, wire'[c] = Append(wire[c], Snapshot(panes)),
         Waiting(c)' = Waiting(c), sub[c] # None => Fed(c)'
  PROVE  Lane(c)'
<1>1. /\ wire[c] \in Seq(Messages) /\ Waiting(c) \in Seq(Messages)
      /\ InTurn(wire[c], Waiting(c))
  BY WaitingType DEF Lane
<1>2. InTurn(wire'[c], Waiting(c)) /\ Coming(wire'[c], Waiting(c)) = Coming(wire[c], Waiting(c))
  BY <1>1, ShowingKeeps
<1>3. InTurn(wire[c], Waiting(c))'
  BY <1>2
<1>4. Coming(wire[c], Waiting(c))' = Coming(wire[c], Waiting(c))
  BY <1>2
<1> QED BY <1>3, <1>4, LaneKept

\* While the hub is as it was, whoever feeds the client still can.
LEMMA FedKept ==
  ASSUME NEW c, Fed(c), UNCHANGED hub, sub'[c] = sub[c]
  PROVE  Fed(c)'
  BY DEF Fed, hub

\* A step of another client, or of the agents, that emits nothing.
LEMMA CursorKnowsKept ==
  ASSUME Types, Types', CursorsAreOfLogs, CursorKnows, Grows,
         \A c \in Clients : /\ disk'[c].cursor = disk[c].cursor
                            /\ disk[c].known \subseteq disk'[c].known
  PROVE  CursorKnows' /\ CursorsAreOfLogs'
<1>0. ASSUME NEW c \in Clients, disk[c].cursor # None
      PROVE  disk[c].cursor[2] \in Nat
  <2>1. disk[c].cursor \in Cursors
    BY <1>0 DEF Types
  <2> QED BY <2>1 DEF Cursors
<1>1. CursorKnows'
  <2> SUFFICES ASSUME NEW c \in Clients, disk'[c].cursor # None, disk'[c].cursor[1] = epoch',
                      NEW n \in 1..disk'[c].cursor[2],
                      log'[n].kind = "blocked", log'[n].ep \in Open'
               PROVE  log'[n].ep \in disk'[c].known
    BY DEF CursorKnows
  <2>1. disk[c].cursor # None /\ disk[c].cursor[1] = epoch /\ n \in 1..disk[c].cursor[2] /\ Here(c)
    BY DEF Grows, Here
  <2>2. disk[c].cursor[2] <= Len(log) /\ disk[c].cursor[2] \in Nat /\ Len(log) \in Nat
    <3>1. Len(log) \in Nat
      BY DEF Types
    <3> QED BY <1>0, <2>1, <3>1 DEF CursorsAreOfLogs
  <2>3. n \in 1..Len(log)
    BY <2>1, <2>2
  <2>4. log'[n] = log[n] /\ Asking(n)
    BY <2>3 DEF Grows, Asking
  <2> QED BY <2>1, <2>4 DEF CursorKnows, Asking
<1>2. CursorsAreOfLogs'
  <2> SUFFICES ASSUME NEW c \in Clients, disk'[c].cursor # None
               PROVE  /\ disk'[c].cursor[1] <= epoch'
                      /\ Here(c)' => disk'[c].cursor[2] <= Len(log')
    BY DEF CursorsAreOfLogs
  <2>1. disk[c].cursor # None /\ disk'[c].cursor = disk[c].cursor
    OBVIOUS
  <2>2. disk[c].cursor[2] \in Nat /\ Len(log) \in Nat /\ Len(log') \in Nat
    <3>1. Len(log) \in Nat
      BY DEF Types
    <3>2. Len(log') \in Nat
      BY DEF Types
    <3> QED BY <1>0, <2>1, <3>1, <3>2
  <2>3. epoch' = epoch /\ Len(log) <= Len(log')
    BY DEF Grows
  <2>4. disk'[c].cursor[1] <= epoch'
    BY <2>1, <2>3 DEF CursorsAreOfLogs
  <2>5. ASSUME Here(c)' PROVE disk'[c].cursor[2] <= Len(log')
    <3>1. Here(c)
      BY <2>1, <2>3, <2>5 DEF Here
    <3>2. disk[c].cursor[2] <= Len(log)
      BY <2>1, <3>1 DEF CursorsAreOfLogs
    <3> QED BY <2>1, <2>2, <2>3, <3>2
  <2> QED BY <2>4, <2>5
<1> QED BY <1>1, <1>2
-----------------------------------------------------------------------------
(* The agents, and what the bridge emits.                                  *)

LEMMA EmitKeeps ==
  ASSUME Types, PumpInOrder, NEW f \in Frames, Emit(<<f>>), UNCHANGED <<pump, sub>>,
         \A c \in Clients : sub[c] # None => Fed(c)
  PROVE  /\ log' = Append(log, f)
         /\ Len(log') = Len(log) + 1
         /\ \A n \in 1..Len(log) : log'[n] = log[n]
         /\ log'[Len(log) + 1] = f
         /\ log' \in Seq(Frames) /\ Len(log') <= MaxSeq
         /\ low' \in 1..(Len(log') + 1)
         /\ log' # << >> => low' <= Len(log')
         /\ queue' \in Seq(1..MaxSeq)
         /\ epoch' = epoch
         /\ PumpInOrder'
         /\ \A c \in Clients : sub[c] # None => Fed(c)'
<1>1. /\ log' = Append(log, f) /\ Len(log') = Len(log) + 1 /\ Len(log) \in Nat
      /\ \A n \in 1..Len(log) : log'[n] = log[n]
      /\ log'[Len(log) + 1] = f
      /\ log' \in Seq(Frames) /\ Len(log') <= MaxSeq
      /\ epoch' = epoch
  BY DEF Emit, Types
<1>2. low' \in low..Len(log') /\ low' \in 1..Len(log')
  BY <1>1 DEF Emit, Pruned, Types
<1>3. /\ queue' \in Seq(1..MaxSeq)
      /\ queue' = queue \/ queue' = Append(queue, Len(log) + 1)
      /\ (\E c \in Clients : sub[c] # None) => queue' = Append(queue, Len(log) + 1)
  <2>1. [i \in 1..Len(<<f>>) |-> Len(log) + i] = <<Len(log) + 1>>
    OBVIOUS
  <2>2. queue \o <<Len(log) + 1>> = Append(queue, Len(log) + 1)
    BY DEF Types
  <2>3. Len(log) + 1 \in 1..MaxSeq /\ queue \in Seq(1..MaxSeq)
    BY <1>1 DEF Types
  <2>4. queue' = IF \E c \in Clients : sub[c] # None
                 THEN queue \o [i \in 1..Len(<<f>>) |-> Len(log) + i] ELSE queue
    BY DEF Emit, Subscribed
  <2>5. queue' = IF \E c \in Clients : sub[c] # None THEN Append(queue, Len(log) + 1) ELSE queue
    BY <2>1, <2>2, <2>4
  <2>6. Append(queue, Len(log) + 1) \in Seq(1..MaxSeq)
    BY <2>3
  <2> QED BY <2>3, <2>5, <2>6
<1>4. PumpInOrder'
  <2>1. queue \in Seq(1..MaxSeq) /\ Len(queue) \in Nat /\ DOMAIN queue = 1..Len(queue)
    BY DEF Types
  <2>2. CASE queue' = queue
    BY <1>1, <2>1, <2>2 DEF PumpInOrder
  <2>3. CASE queue' = Append(queue, Len(log) + 1)
    <3>0. /\ DOMAIN queue' = 1..(Len(queue) + 1) /\ queue'[Len(queue) + 1] = Len(log) + 1
          /\ \A i \in 1..Len(queue) : queue'[i] = queue[i]
      BY <2>1, <2>3
    <3>1. ASSUME NEW i \in DOMAIN queue'
          PROVE  /\ i \in Int
                 /\ \/ i \in DOMAIN queue /\ queue'[i] = queue[i]
                    \/ i = Len(queue) + 1 /\ queue'[i] = Len(log) + 1
      BY <2>1, <3>0, <3>1
    <3>2. ASSUME NEW i \in DOMAIN queue PROVE queue[i] \in Int /\ queue[i] <= Len(log) /\ i <= Len(queue)
      BY <2>1, <3>2 DEF PumpInOrder
    <3>3. \A i \in DOMAIN queue' : queue'[i] <= Len(log')
      <4> TAKE i \in DOMAIN queue'
      <4> QED BY <1>1, <3>1, <3>2
    <3>4. \A i, j \in DOMAIN queue' : i < j => queue'[i] < queue'[j]
      <4> TAKE i, j \in DOMAIN queue'
      <4>1. CASE i \in DOMAIN queue /\ j \in DOMAIN queue /\ queue'[i] = queue[i] /\ queue'[j] = queue[j]
        BY <4>1 DEF PumpInOrder
      <4>2. CASE i \in DOMAIN queue /\ queue'[i] = queue[i] /\ queue'[j] = Len(log) + 1
        BY <1>1, <3>2, <4>2
      <4>3. CASE i = Len(queue) + 1
        <5>1. j <= Len(queue) + 1 /\ j \in Int /\ Len(queue) \in Nat
          BY <2>1, <3>0
        <5> QED BY <4>3, <5>1
      <4> QED BY <3>1, <4>1, <4>2, <4>3
    <3> QED BY <3>3, <3>4 DEF PumpInOrder
  <2> QED BY <1>3, <2>2, <2>3
<1>5. ASSUME NEW c \in Clients, sub[c] # None PROVE Fed(c)'
  <2>1. /\ sub[c].upto \in Nat /\ sub[c].active \in BOOLEAN
        /\ queue \in Seq(1..MaxSeq) /\ low \in Nat
    BY <1>5, SubType DEF Types
  <2>2. queue' = Append(queue, Len(log) + 1)
    BY <1>3, <1>5
  <2>3. ~sub[c].active => low' <= sub[c].upto + 1
    BY <1>5 DEF Emit, CatchingUp, Subscribed
  <2>4. ASSUME sub[c].active, NEW n \in (sub[c].upto + 1)..Len(log')
        PROVE  \E i \in DOMAIN queue' : queue'[i] = n
    <3>1. CASE n <= Len(log)
      <4>1. PICK i \in DOMAIN queue : queue[i] = n
        BY <1>1, <1>5, <2>1, <2>4, <3>1 DEF Fed
      <4>2. i \in DOMAIN queue' /\ queue'[i] = n
        BY <2>1, <2>2, <4>1
      <4> QED BY <4>2
    <3>2. CASE n = Len(log) + 1
      <4>1. Len(queue) + 1 \in DOMAIN queue' /\ queue'[Len(queue) + 1] = n
        BY <2>1, <2>2, <3>2
      <4> QED BY <4>1
    <3> QED BY <1>1, <2>1, <2>4, <3>1, <3>2
  <2>5. sub[c].upto <= Len(log')
    BY <1>1, <1>5, <2>1 DEF Fed
  <2> QED BY <1>5, <2>3, <2>4, <2>5 DEF Fed
<1> QED BY <1>1, <1>2, <1>3, <1>4, <1>5

\* Steps that leave the runtimes, the connections and the pump alone.
LEMMA FleetKeeps ==
  ASSUME IInv, Types', LogIsTrue', PumpInOrder', Grows,
         UNCHANGED <<linkButWire, runtime>>,
         \A c \in Clients :
           \/ wire'[c] = wire[c]
           \/ \E panes \in SUBSET Episodes : wire'[c] = Append(wire[c], Snapshot(panes)),
         \A c \in Clients : sub[c] # None => Fed(c)'
  PROVE  IInv'
<1>1. CursorKnows' /\ CursorsAreOfLogs'
  BY CursorKnowsKept DEF IInv, runtime
<1>2. ASSUME NEW c \in Clients PROVE Lane(c)'
  <2>1. Unmoved(c) /\ Waiting(c)' = Waiting(c) /\ Lane(c)
    BY <1>2 DEF Unmoved, linkButWire, runtime, Waiting, PumpWaits, IInv
  <2>2. CASE wire'[c] = wire[c]
    BY <2>1, <2>2, LaneUntouched DEF IInv
  <2>3. CASE \E panes \in SUBSET Episodes : wire'[c] = Append(wire[c], Snapshot(panes))
    BY <2>1, <2>3, LaneShown DEF IInv
  <2> QED BY <2>2, <2>3
<1> QED BY <1>1, <1>2 DEF IInv

LEMMA FedAll ==
  ASSUME IInv
  PROVE  \A c \in Clients : sub[c] # None => Fed(c)
  BY DEF IInv, Lane, AfterSubscription

LEMMA AnnouncedIsOpen ==
  ASSUME IInv, NEW n \in 1..Len(log)
  PROVE  log[n] \in Frames /\ log[n].ep \in Episodes
<1>1. log[n] \in Frames
  BY DEF IInv, Types
<1> QED BY <1>1 DEF Frames

LEMMA OpenStates ==
  ASSUME IInv, NEW ep \in Open
  PROVE  ep \in Episodes /\ fleet[ep].state = "open"
  BY DEF Open

LEMMA BlocksIInv ==
  ASSUME IInv, NEW ep \in Episodes, Blocks(ep)
  PROVE  IInv'
<1>1. Types'
  <2>1. Snapshot(Open \cup {ep}) \in Messages
    BY ToldMessages DEF Open
  <2>2. wire' \in [Clients -> Seq(Messages)]
    <3>1. ASSUME NEW c \in Clients PROVE Append(wire[c], Snapshot(Open \cup {ep})) \in Seq(Messages)
      BY <2>1, <3>1 DEF IInv, Types
    <3> QED BY <3>1 DEF IInv, Types, Blocks, Broadcast
  <2>3. fleet' \in [Episodes -> [state : {"new", "open", "over"},
                                 asks : 0..MaxQuestions, done : 0..MaxQuestions]]
    BY DEF IInv, Types, Blocks
  <2>4. \A x \in Episodes : fleet'[x].state # "new" => fleet'[x].asks # 0
    BY DEF IInv, Types, Blocks
  <2>5. UNCHANGED <<hub, linkButWire, runtime>>
    BY DEF Blocks
  <2> QED BY <2>2, <2>3, <2>4, <2>5 DEF IInv, Types, hub, linkButWire, runtime
<1>2. \A n \in 1..Len(log) : log[n].ep # ep /\ fleet'[log[n].ep] = fleet[log[n].ep]
  <2> TAKE n \in 1..Len(log)
  <2>1. log[n].ep \in Episodes
    BY AnnouncedIsOpen
  <2>2. n \in DOMAIN log
    BY DEF IInv, Types
  <2>3. fleet[log[n].ep].state # "new" /\ fleet[ep].state = "new"
    BY <2>2 DEF IInv, LogIsTrue, Blocks
  <2> QED BY <2>1, <2>3 DEF IInv, Types, Blocks
<1>3. LogIsTrue' /\ PumpInOrder'
  BY <1>2 DEF IInv, LogIsTrue, PumpInOrder, Blocks, hub, linkButWire, Types
<1>4. Grows
  <2>1. Len(log) \in Nat
    BY DEF IInv, Types
  <2> QED BY <1>2, <2>1 DEF Grows, Asking, Open, Blocks, hub
<1>5. Open \cup {ep} \in SUBSET Episodes
  BY DEF Open
<1>6. \A c \in Clients : wire'[c] = wire[c] \/ wire'[c] = Append(wire[c], Snapshot(Open \cup {ep}))
  BY DEF Blocks, Broadcast
<1>7. \A c \in Clients : sub[c] # None => Fed(c)'
  BY FedAll, FedKept DEF Blocks, linkButWire
<1> QED BY <1>1, <1>3, <1>4, <1>5, <1>6, <1>7, FleetKeeps DEF Blocks

LEMMA AsksNextIInv ==
  ASSUME IInv, NEW ep \in Episodes, AsksNext(ep)
  PROVE  IInv'
<1>1. fleet' \in [Episodes -> [state : {"new", "open", "over"},
                               asks : 0..MaxQuestions, done : 0..MaxQuestions]]
  <2>1. fleet[ep] \in [state : {"new", "open", "over"}, asks : 0..MaxQuestions, done : 0..MaxQuestions]
    BY DEF IInv, Types
  <2>2. fleet[ep].asks + 1 \in 0..MaxQuestions
    BY <2>1 DEF AsksNext
  <2>3. [fleet[ep] EXCEPT !.asks = fleet[ep].asks + 1]
          \in [state : {"new", "open", "over"}, asks : 0..MaxQuestions, done : 0..MaxQuestions]
    BY <2>1, <2>2
  <2> QED BY <2>3 DEF IInv, Types, AsksNext
<1>2. \A x \in Episodes : fleet'[x].state = fleet[x].state
  BY DEF IInv, Types, AsksNext
<1>3. Types'
  <2>1. \A x \in Episodes : fleet'[x].state # "new" => fleet'[x].asks # 0
    <3> TAKE x \in Episodes
    <3>1. fleet[ep].asks \in Nat
      BY DEF IInv, Types
    <3> QED BY <1>2, <3>1 DEF IInv, Types, AsksNext
  <2>2. UNCHANGED <<hub, link, runtime>>
    BY DEF AsksNext
  <2> QED BY <1>1, <2>1, <2>2 DEF IInv, Types, hub, link, runtime
<1>4. LogIsTrue' /\ PumpInOrder'
  <2>1. LogIsTrue'
    <3>1. log' = log /\ DOMAIN log = 1..Len(log)
      BY DEF IInv, Types, AsksNext, hub
    <3>2. \A n \in 1..Len(log) : fleet'[log[n].ep].state = fleet[log[n].ep].state
      BY <1>2, AnnouncedIsOpen
    <3> QED BY <3>1, <3>2 DEF IInv, LogIsTrue
  <2>2. PumpInOrder'
    BY DEF IInv, PumpInOrder, AsksNext, hub, link
  <2> QED BY <2>1, <2>2
<1>5. Grows
  <2>1. Len(log) \in Nat
    BY DEF IInv, Types
  <2> QED BY <1>2, <2>1 DEF Grows, Asking, Open, AsksNext, hub
<1>6. \A c \in Clients : sub[c] # None => Fed(c)'
  BY FedAll, FedKept DEF AsksNext, link
<1> QED BY <1>3, <1>4, <1>5, <1>6, FleetKeeps DEF AsksNext, link, linkButWire

\* A step of the agents that emits one frame.
LEMMA EmittingIInv ==
  ASSUME IInv, NEW ep \in Open, NEW f \in Frames, f.ep = ep, Emit(<<f>>),
         UNCHANGED <<linkButWire, runtime>>,
         fleet' \in [Episodes -> [state : {"new", "open", "over"},
                                  asks : 0..MaxQuestions, done : 0..MaxQuestions]],
         \A x \in Episodes : x # ep => fleet'[x] = fleet[x],
         fleet'[ep].state \in {"open", "over"}, fleet'[ep].asks = fleet[ep].asks,
         f.kind = "unblocked" => fleet'[ep].state = "over",
         wire' \in [Clients -> Seq(Messages)],
         \A c \in Clients :
           \/ wire'[c] = wire[c]
           \/ \E panes \in SUBSET Episodes : wire'[c] = Append(wire[c], Snapshot(panes))
  PROVE  IInv'
<1>1. /\ log' = Append(log, f)
      /\ Len(log') = Len(log) + 1
      /\ \A n \in 1..Len(log) : log'[n] = log[n]
      /\ log'[Len(log) + 1] = f
      /\ log' \in Seq(Frames) /\ Len(log') <= MaxSeq
      /\ low' \in 1..(Len(log') + 1)
      /\ log' # << >> => low' <= Len(log')
      /\ queue' \in Seq(1..MaxSeq)
      /\ epoch' = epoch
      /\ PumpInOrder'
      /\ \A c \in Clients : sub[c] # None => Fed(c)'
  BY FedAll, EmitKeeps DEF IInv, linkButWire
<1>2. Types'
  <2>1. \A x \in Episodes : fleet'[x].state # "new" => fleet'[x].asks # 0
    <3> TAKE x \in Episodes
    <3>1. fleet[x].state # "new" => fleet[x].asks # 0
      BY DEF IInv, Types
    <3>2. fleet[ep].state = "open" /\ fleet[ep].asks # 0
      BY OpenStates DEF IInv, Types
    <3> QED BY <3>1, <3>2
  <2> QED BY <1>1, <2>1 DEF IInv, Types, linkButWire, runtime
<1>3. Len(log) \in Nat
  BY DEF IInv, Types
<1>4. \A n \in 1..Len(log) :
        fleet'[log[n].ep] = fleet[log[n].ep] \/ (log[n].ep = ep /\ fleet[ep].state = "open")
  BY AnnouncedIsOpen, OpenStates
<1>5. LogIsTrue'
  <2> SUFFICES ASSUME NEW n \in 1..(Len(log) + 1)
               PROVE  /\ fleet'[log'[n].ep].state # "new"
                      /\ log'[n].kind = "unblocked" => fleet'[log'[n].ep].state = "over"
    BY <1>1, <1>3 DEF LogIsTrue
  <2>1. CASE n \in 1..Len(log)
    <3>1. n \in DOMAIN log /\ log'[n] = log[n]
      BY <1>1, <2>1 DEF IInv, Types
    <3>2. /\ fleet[log[n].ep].state # "new"
          /\ log[n].kind = "unblocked" => fleet[log[n].ep].state = "over"
      BY <3>1 DEF IInv, LogIsTrue
    <3> QED BY <1>4, <2>1, <3>1, <3>2
  <2>2. CASE n = Len(log) + 1
    BY <1>1, <2>2
  <2> QED BY <1>3, <2>1, <2>2
<1>6. Grows
  <2>1. ASSUME NEW n \in 1..Len(log), Asking(n)' PROVE Asking(n)
    <3>1. n \in DOMAIN log /\ log'[n] = log[n]
      BY <1>1, <1>3
    <3>2. \/ fleet'[log[n].ep] = fleet[log[n].ep]
          \/ fleet[log[n].ep].state = "open" /\ fleet[log[n].ep].asks = fleet'[log[n].ep].asks
      BY <1>4
    <3>3. log[n].ep \in Episodes
      BY AnnouncedIsOpen
    <3> QED BY <2>1, <3>1, <3>2, <3>3 DEF Asking, Open
  <2> QED BY <1>1, <1>3, <2>1 DEF Grows
<1> QED BY <1>1, <1>2, <1>5, <1>6, FleetKeeps

LEMMA FrameOf ==
  ASSUME IInv, NEW ep \in Open, NEW kind \in Kinds
  PROVE  Frame(kind, ep, fleet[ep].asks) \in Frames
         /\ Frame(kind, ep, fleet[ep].asks).ep = ep
         /\ Frame(kind, ep, fleet[ep].asks).kind = kind
<1>1. fleet[ep].asks \in Questions /\ ep \in Episodes
  BY OpenStates DEF IInv, Types, Questions
<1> QED BY <1>1 DEF Frame, Frames

LEMMA AnnounceIInv ==
  ASSUME IInv, NEW ep \in Episodes, Announce(ep)
  PROVE  IInv'
<1> DEFINE f == Frame("blocked", ep, fleet[ep].asks)
<1>1. ep \in Open /\ fleet[ep].state = "open"
  BY DEF Announce, Open
<1>2. f \in Frames /\ f.ep = ep /\ f.kind = "blocked"
  BY <1>1, FrameOf DEF Announce, Kinds
<1>3. Emit(<<f>>) /\ UNCHANGED <<fleet, linkButWire, runtime>> /\ wire' = wire
  BY DEF Announce, link, linkButWire
<1> HIDE DEF f
<1> QED BY <1>1, <1>2, <1>3, EmittingIInv DEF IInv, Types

LEMMA AnsweredIInv ==
  ASSUME IInv, NEW ep \in Episodes, Answered(ep)
  PROVE  IInv'
<1> DEFINE f == Frame("answered", ep, fleet[ep].asks)
<1>1. ep \in Open /\ fleet[ep].state = "open"
  BY DEF Answered, Open
<1>2. fleet[ep] \in [state : {"new", "open", "over"}, asks : 0..MaxQuestions, done : 0..MaxQuestions]
  BY DEF IInv, Types
<1>3. f \in Frames /\ f.ep = ep /\ f.kind = "answered"
  BY <1>1, <1>2, FrameOf DEF Answered, Kinds
<1>4. Emit(<<f>>) /\ UNCHANGED <<linkButWire, runtime>> /\ wire' = wire
  BY DEF Answered, link, linkButWire
<1>5. [fleet[ep] EXCEPT !.done = fleet[ep].asks]
        \in [state : {"new", "open", "over"}, asks : 0..MaxQuestions, done : 0..MaxQuestions]
  BY <1>2
<1>6. /\ fleet' \in [Episodes -> [state : {"new", "open", "over"},
                                  asks : 0..MaxQuestions, done : 0..MaxQuestions]]
      /\ \A x \in Episodes : x # ep => fleet'[x] = fleet[x]
      /\ fleet'[ep].state = "open" /\ fleet'[ep].asks = fleet[ep].asks
  BY <1>1, <1>2, <1>5 DEF IInv, Types, Answered
<1> HIDE DEF f
<1> QED BY <1>1, <1>3, <1>4, <1>6, EmittingIInv DEF IInv, Types

LEMMA UnblocksIInv ==
  ASSUME IInv, NEW ep \in Episodes, Unblocks(ep)
  PROVE  IInv'
<1> DEFINE f == Frame("unblocked", ep, fleet[ep].asks)
           panes == Open \ {ep}
<1>1. ep \in Open /\ fleet[ep].state = "open"
  BY DEF Unblocks, Open
<1>2. fleet[ep] \in [state : {"new", "open", "over"}, asks : 0..MaxQuestions, done : 0..MaxQuestions]
  BY DEF IInv, Types
<1>3. f \in Frames /\ f.ep = ep /\ f.kind = "unblocked"
  BY <1>1, <1>2, FrameOf DEF Kinds
<1>4. /\ fleet' \in [Episodes -> [state : {"new", "open", "over"},
                                  asks : 0..MaxQuestions, done : 0..MaxQuestions]]
      /\ \A x \in Episodes : x # ep => fleet'[x] = fleet[x]
      /\ fleet'[ep].state = "over" /\ fleet'[ep].asks = fleet[ep].asks
  <2>1. [fleet[ep] EXCEPT !.state = "over"]
          \in [state : {"new", "open", "over"}, asks : 0..MaxQuestions, done : 0..MaxQuestions]
    BY <1>2
  <2> QED BY <1>2, <2>1 DEF IInv, Types, Unblocks
<1>5. panes \in SUBSET Episodes
  BY DEF Open
<1>6. \A c \in Clients : wire'[c] = wire[c] \/ wire'[c] = Append(wire[c], Snapshot(panes))
  BY DEF Unblocks, Broadcast
<1>7. wire' \in [Clients -> Seq(Messages)]
  <2>1. Snapshot(panes) \in Messages
    BY <1>5, ToldMessages
  <2> HIDE DEF panes
  <2>2. ASSUME NEW c \in Clients PROVE wire'[c] \in Seq(Messages)
    <3>1. wire[c] \in Seq(Messages)
      BY <2>2 DEF IInv, Types
    <3>2. Append(wire[c], Snapshot(panes)) \in Seq(Messages)
      BY <2>1, <3>1
    <3> QED BY <1>6, <3>1, <3>2
  <2>3. wire' = [c \in Clients |-> wire'[c]]
    BY DEF Unblocks, Broadcast
  <2> QED BY <2>2, <2>3
<1>8. UNCHANGED <<linkButWire, runtime>>
  BY DEF Unblocks
<1>9. CASE Announced(ep) # 0
  <2>1. Emit(<<f>>)
    BY <1>9 DEF Unblocks
  <2> HIDE DEF f, panes
  <2> QED BY <1>1, <1>3, <1>4, <1>5, <1>6, <1>7, <1>8, <2>1, EmittingIInv
<1>10. CASE Announced(ep) = 0
  <2> HIDE DEF f, panes
  <2>1. UNCHANGED hub
    BY <1>10 DEF Unblocks
  <2>2. Types'
    <3>1. \A x \in Episodes : fleet'[x].state # "new" => fleet'[x].asks # 0
      <4> TAKE x \in Episodes
      <4>1. fleet[x].state # "new" => fleet[x].asks # 0
        BY DEF IInv, Types
      <4>2. fleet[ep].state = "open" /\ fleet[ep].asks # 0
        BY <1>1, OpenStates DEF IInv, Types
      <4> QED BY <1>4, <4>1, <4>2
    <3> QED BY <1>4, <1>7, <1>8, <2>1, <3>1 DEF IInv, Types, hub, linkButWire, runtime
  <2>3. \A n \in 1..Len(log) : fleet'[log[n].ep] = fleet[log[n].ep] \/ fleet'[log[n].ep].state = "over"
    BY <1>4, AnnouncedIsOpen
  <2>4. LogIsTrue' /\ PumpInOrder'
    <3>1. ASSUME NEW n \in DOMAIN log
          PROVE  /\ fleet'[log[n].ep].state # "new"
                 /\ log[n].kind = "unblocked" => fleet'[log[n].ep].state = "over"
      <4>1. n \in 1..Len(log)
        BY <3>1 DEF IInv, Types
      <4>2. /\ fleet[log[n].ep].state # "new"
            /\ log[n].kind = "unblocked" => fleet[log[n].ep].state = "over"
        BY <3>1 DEF IInv, LogIsTrue
      <4> QED BY <2>3, <4>1, <4>2
    <3>2. PumpInOrder'
      BY <1>8, <2>1 DEF IInv, PumpInOrder, hub, linkButWire
    <3> QED BY <2>1, <3>1, <3>2 DEF LogIsTrue, hub
  <2>5. Grows
    <3>1. ASSUME NEW n \in 1..Len(log), Asking(n)' PROVE Asking(n)
      BY <2>1, <2>3, <3>1 DEF Asking, Open, hub
    <3>2. Len(log) \in Nat
      BY DEF IInv, Types
    <3> QED BY <2>1, <3>1, <3>2 DEF Grows, hub
  <2>6. \A c \in Clients : sub[c] # None => Fed(c)'
    BY <1>8, <2>1, FedAll, FedKept DEF linkButWire
  <2> QED BY <1>5, <1>6, <1>8, <2>2, <2>4, <2>5, <2>6, FleetKeeps
<1> QED BY <1>9, <1>10
-----------------------------------------------------------------------------
(* The pump and the subscriptions.                                         *)

\* Nothing that is coming is past what was handed out.
LEMMA ComingUpTo ==
  ASSUME Types, NEW c \in Clients, sub[c] # None, AfterSubscription(c)
  PROVE  \A x \in Coming(wire[c], Waiting(c)) :
           /\ x \in Messages /\ Told(x) /\ Key(x) \in Nat
           /\ Key(x) <= 2 * sub[c].upto + 1
           /\ x.type = "event" => x.seq <= sub[c].upto
<1> TAKE x \in Coming(wire[c], Waiting(c))
<1>1. x \in Messages /\ Told(x) /\ Key(x) \in Nat
  BY ToldMessages DEF Coming
<1>2. sub[c].upto \in Nat /\ sub[c].upto <= MaxSeq
  BY SubType
<1>3. ASSUME NEW n \in Nat, n <= sub[c].upto, x = Event(n)
      PROVE  Key(x) <= 2 * sub[c].upto + 1 /\ x.type = "event" /\ x.seq <= sub[c].upto
  BY <1>2, <1>3 DEF Event, Key
<1>4. ASSUME NEW m \in Nat, m <= sub[c].upto, NEW gap, x = Sync(m, gap)
      PROVE  Key(x) <= 2 * sub[c].upto + 1 /\ x.type = "sync"
  BY <1>2, <1>4 DEF Sync, Key
<1>5. CASE mem[c].synced
  <2>1. disk[c].cursor[2] \in Nat
    BY <1>5 DEF AfterSubscription, Following, Types, Cursors, Here
  <2>2. PICK n \in (disk[c].cursor[2] + 1)..sub[c].upto : x = Event(n)
    BY <1>5 DEF AfterSubscription, Following
  <2>3. n \in Nat /\ n <= sub[c].upto
    BY <1>2, <2>1
  <2> QED BY <1>1, <1>3, <2>2, <2>3
<1>6. CASE ~mem[c].synced
  <2>1. PICK m \in 0..sub[c].upto, gap \in BOOLEAN : ReplayingTo(c, m, gap)
    BY <1>6 DEF AfterSubscription, Replaying
  <2>2. CASE x = Sync(m, gap)
    BY <1>1, <1>2, <1>4, <2>2
  <2>3. CASE \E n \in 1..sub[c].upto : x = Event(n)
    BY <1>1, <1>2, <1>3, <2>3
  <2> QED BY <2>1, <2>2, <2>3 DEF ReplayingTo
<1> QED BY <1>5, <1>6

\* More of the log is handed out to the client.
LEMMA LaneExtended ==
  ASSUME Types, Types', NEW c \in Clients, Lane(c), Grows, sub[c] # None, sub'[c] # None,
         conn'[c] = conn[c], uplink'[c] = uplink[c], listing'[c] = listing[c],
         mem'[c] = mem[c], disk'[c].cursor = disk[c].cursor,
         sub[c].upto <= sub'[c].upto, InTurn(wire[c], Waiting(c))', Fed(c)',
         Coming(wire[c], Waiting(c))' =
           Coming(wire[c], Waiting(c))
             \cup {x \in Messages : \E n \in (sub[c].upto + 1)..sub'[c].upto : x = Event(n)}
  PROVE  Lane(c)'
<1> DEFINE coming == Coming(wire[c], Waiting(c))
           old == sub[c].upto
           new == sub'[c].upto
<1>1. /\ AfterSubscription(c)
      /\ old \in Nat /\ new \in Nat /\ old <= new /\ new <= MaxSeq /\ old <= Len(log) /\ Len(log) \in Nat
  <2>1. AfterSubscription(c) /\ Fed(c)
    BY DEF Lane, AfterSubscription
  <2>2. sub'[c].upto \in 0..MaxSeq
    BY DEF Types, Subs
  <2>3. old \in Nat /\ Len(log) \in Nat /\ old <= Len(log)
    BY <2>1, SubType DEF Fed
  <2> QED BY <2>1, <2>2, <2>3
<1>2. Here(c)' <=> Here(c)
  BY DEF Here, Grows
<1>3. ASSUME mem[c].synced PROVE Following(c)'
  <2>1. /\ mem[c].batch = None /\ Here(c) /\ disk[c].cursor[2] <= old
        /\ coming = {x \in Messages : \E n \in (disk[c].cursor[2] + 1)..old : x = Event(n)}
    BY <1>1, <1>3 DEF AfterSubscription, Following
  <2>2. disk[c].cursor[2] \in Nat
    BY <2>1 DEF Types, Cursors, Here
  <2>3. Coming(wire[c], Waiting(c))' = {x \in Messages : \E n \in (disk[c].cursor[2] + 1)..new : x = Event(n)}
    <3>1. \A n : n \in (disk[c].cursor[2] + 1)..new <=>
                 n \in (disk[c].cursor[2] + 1)..old \/ n \in (old + 1)..new
      BY <1>1, <2>1, <2>2
    <3> HIDE DEF coming, old, new
    <3>2. Coming(wire[c], Waiting(c))' =
            coming \cup {x \in Messages : \E n \in (old + 1)..new : x = Event(n)}
      BY DEF coming, old, new
    <3> QED BY <2>1, <3>1, <3>2
  <2>4. disk[c].cursor[2] <= new
    BY <1>1, <2>1, <2>2
  <2> QED BY <1>2, <2>1, <2>3, <2>4 DEF Following
<1>4. ASSUME ~mem[c].synced PROVE Replaying(c)'
  <2>1. mem[c].batch # None /\ \E m \in 0..old, gap \in BOOLEAN : ReplayingTo(c, m, gap)
    BY <1>1, <1>4 DEF AfterSubscription, Replaying
  <2>2. PICK m \in 0..old, gap \in BOOLEAN : ReplayingTo(c, m, gap)
    BY <2>1
  <2>3. m \in Nat /\ m <= old /\ m \in 0..new
    BY <1>1
  <2>4. ASSUME NEW n \in 1..m PROVE Event(n) \in Coming(wire[c], Waiting(c))' <=> Event(n) \in coming
    <3>1. ASSUME NEW k \in (old + 1)..new PROVE Event(n) # Event(k)
      BY <1>1, <2>3, <3>1 DEF Event
    <3> QED BY <3>1
  <2>5. Batched(c, m)' = Batched(c, m)
    BY <2>4 DEF Batched
  <2>6. Sync(m, gap) \in Coming(wire[c], Waiting(c))'
    BY <2>2 DEF ReplayingTo
  <2>7. \A x \in Coming(wire[c], Waiting(c))' : x = Sync(m, gap) \/ \E n \in 1..new : x = Event(n)
    <3> TAKE x \in Coming(wire[c], Waiting(c))'
    <3>1. CASE x \in coming
      <4>1. x = Sync(m, gap) \/ \E n \in 1..old : x = Event(n)
        BY <2>2, <3>1 DEF ReplayingTo
      <4> QED BY <1>1, <4>1
    <3>2. CASE \E n \in (old + 1)..new : x = Event(n)
      BY <1>1, <3>2
    <3> QED BY <3>1, <3>2
  <2>8. \A n \in (m + 1)..new : Event(n) \in Coming(wire[c], Waiting(c))'
    <3> TAKE n \in (m + 1)..new
    <3>1. CASE n \in (m + 1)..old
      BY <2>2, <3>1 DEF ReplayingTo
    <3>2. CASE n \in (old + 1)..new
      <4>1. Event(n) \in Messages
        BY <1>1, <3>2, ToldMessages
      <4> QED BY <3>2, <4>1
    <3> QED BY <1>1, <2>3, <3>1, <3>2
  <2>9. \A n \in 1..m : log'[n] = log[n] /\ (Asking(n)' => Asking(n))
    BY <1>1, <2>3 DEF Grows
  <2>10. ASSUME NEW n \in 1..m, Asking(n)'
         PROVE  \/ Here(c) /\ n <= disk[c].cursor[2]
                \/ \E p \in Batched(c, m) : log'[p].kind = "blocked" /\ log'[p].ep = log'[n].ep
    <3>1. CASE \E p \in Batched(c, m) : log[p].kind = "blocked" /\ log[p].ep = log[n].ep
      <4>1. PICK p \in Batched(c, m) : log[p].kind = "blocked" /\ log[p].ep = log[n].ep
        BY <3>1
      <4>2. p \in 1..m
        BY DEF Batched
      <4> QED BY <2>9, <4>1, <4>2
    <3> QED BY <2>2, <2>9, <2>10, <3>1 DEF ReplayingTo
  <2> HIDE DEF coming
  <2>11. ReplayingTo(c, m, gap)'
    BY <1>2, <2>2, <2>5, <2>6, <2>7, <2>8, <2>10 DEF ReplayingTo
  <2> QED BY <2>1, <2>3, <2>11 DEF Replaying
<1>5. AfterSubscription(c)'
  BY <1>1, <1>3, <1>4 DEF AfterSubscription
<1> QED BY <1>5 DEF Lane

\* A step that leaves the log, the fleet and what the runtimes hold alone.
LEMMA HubStill ==
  ASSUME IInv, UNCHANGED <<fleet, epoch, log>>
  PROVE  Grows
<1>1. Len(log) \in Nat
  BY DEF IInv, Types
<1> QED BY <1>1 DEF Grows, Asking, Open

LEMMA PumpTakeIInv ==
  ASSUME IInv, PumpTake
  PROVE  IInv'
<1> DEFINE n == Head(queue)
           targets == PumpTargets(n)
<1>1. /\ queue \in Seq(1..MaxSeq) /\ queue # << >> /\ n \in 1..MaxSeq /\ n = queue[1]
      /\ queue' = Tail(queue) /\ Tail(queue) \in Seq(1..MaxSeq)
      /\ Len(queue) \in Nat \ {0} /\ Len(queue') = Len(queue) - 1
      /\ DOMAIN queue = 1..Len(queue) /\ DOMAIN queue' = 1..(Len(queue) - 1)
      /\ \A i \in 1..(Len(queue) - 1) : queue'[i] = queue[i + 1]
  <2>1. queue \in Seq(1..MaxSeq) /\ queue # << >> /\ queue' = Tail(queue)
    BY DEF IInv, Types, PumpTake
  <2> QED BY <2>1
<1>2. /\ pump = None /\ UNCHANGED <<fleet, epoch, log, low, conn, connects, listing, wire, uplink, runtime>>
      /\ sub' = [c \in Clients |-> IF c \in targets THEN [sub[c] EXCEPT !.upto = n] ELSE sub[c]]
      /\ pump' = IF targets = {} THEN None ELSE [seq |-> n, to |-> targets]
  BY DEF PumpTake
<1>3. n <= Len(log) /\ Len(log) \in Nat
  BY <1>1 DEF IInv, PumpInOrder, Types
<1>4. \A c \in Clients :
        /\ c \in targets <=> sub[c] # None /\ sub[c].active /\ n > sub[c].upto
        /\ sub[c] # None => AfterSubscription(c) /\ Fed(c) /\ sub[c] \in Subs /\ sub[c].upto \in Nat
  BY SubType DEF PumpTargets, Subscribed, IInv, Lane, AfterSubscription
<1>5. targets \in SUBSET Clients
  BY DEF PumpTargets
<1> HIDE DEF n, targets
<1>6. \A c \in targets : n = sub[c].upto + 1
  <2> TAKE c \in targets
  <2>1. /\ sub[c] # None /\ sub[c].active /\ n > sub[c].upto /\ Fed(c) /\ sub[c].upto \in Nat
    BY <1>4, <1>5
  <2>2. sub[c].upto + 1 \in (sub[c].upto + 1)..Len(log)
    BY <1>1, <1>3, <2>1
  <2>3. PICK i \in DOMAIN queue : queue[i] = sub[c].upto + 1
    BY <2>1, <2>2 DEF Fed
  <2>4. i = 1 \/ queue[1] < queue[i]
    BY <1>1, <2>3 DEF IInv, PumpInOrder
  <2> QED BY <1>1, <2>1, <2>3, <2>4
<1>7. \A c \in Clients : sub'[c] = IF c \in targets THEN [sub[c] EXCEPT !.upto = n] ELSE sub[c]
  BY <1>2
<1>8. ASSUME NEW c \in targets
      PROVE  /\ sub'[c] \in Subs /\ sub'[c] # None
             /\ sub'[c].upto = n /\ sub'[c].active = sub[c].active /\ sub'[c].todo = sub[c].todo
  <2>1. sub[c] \in Subs
    BY <1>4, <1>5
  <2>2. sub'[c] = [sub[c] EXCEPT !.upto = n]
    BY <1>5, <1>7
  <2>3. n \in 0..MaxSeq
    BY <1>1
  <2>4. /\ sub'[c] \in Subs
        /\ sub'[c].upto = n /\ sub'[c].active = sub[c].active /\ sub'[c].todo = sub[c].todo
    BY <2>1, <2>2, <2>3 DEF Subs
  <2> QED BY <2>4, NoneAssumption
<1>9. ASSUME targets # {}
      PROVE  pump' \in Pumps /\ pump' # None /\ pump'.seq = n /\ pump'.to = targets
  <2>1. pump' = [seq |-> n, to |-> targets]
    BY <1>2, <1>9
  <2>2. pump' \in Pumps /\ pump'.seq = n /\ pump'.to = targets
    BY <1>1, <1>5, <1>9, <2>1 DEF Pumps
  <2> QED BY <2>2, NoneAssumption
<1>10. Types'
  <2>1. sub' \in [Clients -> Subs \cup {None}]
    <3>1. ASSUME NEW c \in Clients PROVE sub'[c] \in Subs \cup {None}
      BY <1>7, <1>8, <3>1 DEF IInv, Types
    <3> QED BY <1>2, <3>1
  <2>2. pump' = None \/ pump' \in Pumps
    BY <1>2, <1>9
  <2>3. queue' \in Seq(1..MaxSeq)
    BY <1>1
  <2> QED BY <1>2, <2>1, <2>2, <2>3 DEF IInv, Types, runtime
<1>11. LogIsTrue'
  BY <1>2 DEF IInv, LogIsTrue
<1>12. PumpInOrder'
  <2>1. \A i \in DOMAIN queue' : i + 1 \in DOMAIN queue /\ queue'[i] = queue[i + 1]
    BY <1>1
  <2>2. \A i \in DOMAIN queue' : queue'[i] <= Len(log')
    BY <1>2, <2>1 DEF IInv, PumpInOrder
  <2>3. \A i, j \in DOMAIN queue' : i < j => queue'[i] < queue'[j]
    <3> SUFFICES ASSUME NEW i \in DOMAIN queue', NEW j \in DOMAIN queue', i < j
                 PROVE  queue'[i] < queue'[j]
      OBVIOUS
    <3>0. i \in 1..(Len(queue) - 1) /\ j \in 1..(Len(queue) - 1) /\ Len(queue) \in Nat
      BY <1>1
    <3>1. i + 1 \in DOMAIN queue /\ j + 1 \in DOMAIN queue /\ i + 1 < j + 1
      <4>1. i \in Int /\ j \in Int /\ i + 1 < j + 1
        BY <3>0
      <4> QED BY <2>1, <4>1
    <3>2. queue'[i] = queue[i + 1] /\ queue'[j] = queue[j + 1]
      BY <2>1
    <3>3. queue[i + 1] < queue[j + 1]
      BY <3>1 DEF IInv, PumpInOrder
    <3> QED BY <3>2, <3>3
  <2>4. pump' # None => \A c \in pump'.to : sub'[c] # None /\ sub'[c].active
    <3> SUFFICES ASSUME pump' # None, NEW c \in pump'.to PROVE sub'[c] # None /\ sub'[c].active
      OBVIOUS
    <3>1. c \in targets
      BY <1>2, <1>9
    <3> QED BY <1>4, <1>5, <1>8, <3>1
  <2> QED BY <2>2, <2>3, <2>4 DEF PumpInOrder
<1>13. CursorsAreOfLogs' /\ CursorKnows'
  BY <1>2 DEF IInv, CursorsAreOfLogs, CursorKnows, Here, runtime, Open
<1>14. Grows
  BY <1>2, HubStill
<1>15. ASSUME NEW c \in Clients, c \notin targets PROVE Lane(c)'
  <2>1. sub'[c] = sub[c] /\ Unmoved(c) /\ wire'[c] = wire[c]
    BY <1>2, <1>7, <1>15 DEF Unmoved, runtime
  <2>2. Waiting(c)' = Waiting(c)
    BY <1>2, <1>9, <1>15, <2>1 DEF Waiting, PumpWaits
  <2>3. ASSUME sub[c] # None PROVE Fed(c)'
    <3>1. ASSUME sub[c].active, NEW k \in (sub[c].upto + 1)..Len(log)
          PROVE  \E i \in DOMAIN queue' : queue'[i] = k
      <4>1. PICK i \in DOMAIN queue : queue[i] = k
        BY <1>4, <2>3, <3>1 DEF Fed
      <4>2. n <= sub[c].upto
        BY <1>1, <1>4, <1>15, <2>3, <3>1
      <4>3. i # 1
        BY <1>1, <1>3, <1>4, <2>3, <3>1, <4>1, <4>2
      <4>4. i - 1 \in DOMAIN queue' /\ queue'[i - 1] = k
        BY <1>1, <4>1, <4>3
      <4> QED BY <4>4
    <3> QED BY <1>2, <1>4, <2>1, <2>3, <3>1 DEF Fed
  <2> QED BY <1>10, <1>14, <2>1, <2>2, <2>3, LaneUntouched DEF IInv
<1>16. ASSUME NEW c \in targets PROVE Lane(c)'
  <2>1. c \in Clients /\ sub[c] # None /\ sub[c].active /\ n = sub[c].upto + 1 /\ n > sub[c].upto
        /\ AfterSubscription(c) /\ Fed(c) /\ sub[c].upto \in Nat /\ sub[c].todo = << >>
    BY <1>4, <1>5, <1>6, <1>16 DEF Fed
  <2>2. Waiting(c) = << >>
    BY <1>2, <2>1 DEF Waiting, PumpWaits
  <2>3. Waiting(c)' = <<Event(n)>>
    BY <1>9, <1>16 DEF Waiting, PumpWaits
  <2>4. wire[c] \in Seq(Messages) /\ InTurn(wire[c], << >>)
    BY <2>1, <2>2, WaitingType DEF IInv, Lane
  <2>5. Event(n) \in Messages /\ Told(Event(n)) /\ Key(Event(n)) = 2 * n
    BY <1>1, ToldMessages
  <2>6. \A x \in Coming(wire[c], << >>) : Key(x) \in Nat /\ Key(x) < Key(Event(n))
    BY <2>1, <2>2, <2>5, ComingUpTo DEF IInv
  <2> DEFINE r == <<Event(n)>>
  <2>7. r \in Seq(Messages) /\ DOMAIN r = {1} /\ r[1] = Event(n)
    BY <2>5
  <2>8. Sorted(r)
    BY <2>7 DEF Sorted
  <2> HIDE DEF r
  <2>9. /\ InTurn(wire[c], r)
        /\ Coming(wire[c], r) =
             Coming(wire[c], << >>) \cup {m \in Messages : Told(m) /\ \E i \in DOMAIN r : r[i] = m}
    BY <2>4, <2>6, <2>7, <2>8, AddingKeeps
  <2>10. {m \in Messages : Told(m) /\ \E i \in DOMAIN r : r[i] = m}
           = {x \in Messages : \E k \in (sub[c].upto + 1)..sub'[c].upto : x = Event(k)}
    <3>1. sub'[c].upto = n
      BY <1>8, <1>16
    <3>2. (sub[c].upto + 1)..sub'[c].upto = {n}
      BY <1>1, <2>1, <3>1
    <3> QED BY <2>5, <2>7, <3>2
  <2>11. wire'[c] = wire[c] /\ Waiting(c)' = r
    BY <1>2, <2>3 DEF r
  <2>12. /\ InTurn(wire[c], Waiting(c))'
         /\ Coming(wire[c], Waiting(c))' =
              Coming(wire[c], Waiting(c))
                \cup {x \in Messages : \E k \in (sub[c].upto + 1)..sub'[c].upto : x = Event(k)}
    BY <2>2, <2>9, <2>10, <2>11
  <2>13. Fed(c)'
    <3>1. sub'[c].upto = n /\ sub'[c].active /\ sub'[c].todo = << >>
      BY <1>8, <1>16, <2>1
    <3>2. ASSUME NEW k \in (n + 1)..Len(log) PROVE \E i \in DOMAIN queue' : queue'[i] = k
      <4>1. k \in (sub[c].upto + 1)..Len(log)
        BY <1>1, <2>1, <3>2
      <4>2. PICK i \in DOMAIN queue : queue[i] = k
        BY <2>1, <4>1 DEF Fed
      <4>3. i # 1
        BY <1>1, <3>2, <4>2
      <4>4. i - 1 \in 1..(Len(queue) - 1)
        BY <1>1, <4>2, <4>3
      <4>5. queue'[i - 1] = queue[(i - 1) + 1] /\ (i - 1) + 1 = i
        BY <1>1, <4>2, <4>4
      <4> QED BY <1>1, <4>2, <4>4, <4>5
    <3> QED BY <1>2, <1>3, <3>1, <3>2 DEF Fed
  <2>14. sub[c].upto <= sub'[c].upto
    BY <1>1, <1>8, <1>16, <2>1
  <2> QED BY <1>2, <1>8, <1>10, <1>14, <1>16, <2>1, <2>12, <2>13, <2>14, LaneExtended DEF IInv, runtime
<1> QED BY <1>5, <1>10, <1>11, <1>12, <1>13, <1>15, <1>16 DEF IInv

\* What a step changes of the connection of one client.
LEMMA OtherLanes ==
  ASSUME IInv, Types', Grows, NEW c \in Clients,
         \A d \in Clients \ {c} :
           /\ Unmoved(d)
           /\ wire'[d] = wire[d]
           /\ Waiting(d)' = Waiting(d),
         UNCHANGED hub
  PROVE  \A d \in Clients \ {c} : Lane(d)'
<1> TAKE d \in Clients \ {c}
<1>1. sub[d] # None => Fed(d)'
  BY FedAll, FedKept DEF Unmoved
<1> QED BY <1>1, LaneUntouched DEF IInv

LEMMA PumpSendIInv ==
  ASSUME IInv, NEW c \in Clients, PumpSend(c)
  PROVE  IInv'
<1>1. /\ pump # None /\ c \in pump.to /\ pump \in Pumps
      /\ wire' = [wire EXCEPT ![c] = Append(@, Event(pump.seq))]
      /\ pump' = Without(pump, c)
      /\ UNCHANGED <<fleet, hub, sub, conn, connects, listing, uplink, runtime>>
  BY DEF PumpSend, PumpWaits, IInv, Types
<1>2. /\ pump' = None \/ pump' \in Pumps
      /\ \A d \in Clients : PumpWaits(d)' <=> PumpWaits(d) /\ d # c
      /\ pump' # None => pump'.seq = pump.seq /\ pump'.to \subseteq pump.to
  <2>1. CASE pump.to \subseteq {c}
    BY <1>1, <2>1 DEF Without, PumpWaits
  <2>2. CASE ~(pump.to \subseteq {c})
    <3>1. pump' = [pump EXCEPT !.to = pump.to \ {c}]
      BY <1>1, <2>2 DEF Without
    <3>2. pump' \in Pumps /\ pump'.seq = pump.seq /\ pump'.to = pump.to \ {c}
      BY <1>1, <2>2, <3>1 DEF Pumps
    <3>3. pump' # None
      BY <3>2, NoneAssumption
    <3> QED BY <1>1, <3>2, <3>3 DEF PumpWaits
  <2> QED BY <2>1, <2>2
<1>3. pump.seq \in 1..MaxSeq
  BY <1>1 DEF Pumps
<1>4. Types'
  <2>1. Event(pump.seq) \in Messages
    BY <1>3, ToldMessages
  <2>2. Append(wire[c], Event(pump.seq)) \in Seq(Messages)
    BY <2>1 DEF IInv, Types
  <2>3. wire' \in [Clients -> Seq(Messages)]
    BY <1>1, <2>2 DEF IInv, Types
  <2> QED BY <1>1, <1>2, <2>3 DEF IInv, Types, hub, runtime
<1>5. LogIsTrue' /\ CursorsAreOfLogs' /\ CursorKnows'
  BY <1>1 DEF IInv, LogIsTrue, CursorsAreOfLogs, CursorKnows, Here, hub, runtime, Open
<1>6. PumpInOrder'
  BY <1>1, <1>2 DEF IInv, PumpInOrder, hub
<1>7. Grows
  BY <1>1, HubStill DEF hub
<1>8. \A d \in Clients \ {c} : Lane(d)'
  <2>1. \A d \in Clients \ {c} : Unmoved(d) /\ wire'[d] = wire[d]
    BY <1>1 DEF Unmoved, runtime, IInv, Types
  <2>2. \A d \in Clients \ {c} : Waiting(d)' = Waiting(d)
    BY <1>1, <1>2 DEF Waiting, PumpWaits
  <2> QED BY <1>1, <1>4, <1>7, <2>1, <2>2, OtherLanes
<1>9. Lane(c)'
  <2>1. sub[c] # None /\ sub[c].active /\ AfterSubscription(c)
    BY <1>1 DEF IInv, PumpInOrder, Lane
  <2>2. sub[c].todo = << >> /\ Fed(c)
    BY <2>1 DEF AfterSubscription, Fed
  <2> DEFINE w == wire[c]
             r == Waiting(c)
  <2>3. r = <<Event(pump.seq)>> /\ Waiting(c)' = << >>
    BY <1>1, <1>2, <2>1, <2>2 DEF Waiting, PumpWaits
  <2>4. r # << >> /\ Head(r) = Event(pump.seq) /\ Tail(r) = << >>
    BY <2>3
  <2>5. w \in Seq(Messages) /\ r \in Seq(Messages) /\ InTurn(w, r)
    BY WaitingType DEF IInv, Lane
  <2>6. wire'[c] = Append(w, Head(r))
    BY <1>1, <2>4 DEF IInv, Types
  <2> HIDE DEF w, r
  <2>7. /\ InTurn(Append(w, Head(r)), Tail(r))
        /\ Coming(Append(w, Head(r)), Tail(r)) = Coming(w, r)
    BY <2>4, <2>5, SendingKeeps
  <2>8. InTurn(wire[c], Waiting(c))' /\ Coming(wire[c], Waiting(c))' = Coming(wire[c], Waiting(c))
    BY <2>3, <2>4, <2>6, <2>7 DEF w, r
  <2>9. Unmoved(c) /\ Fed(c)'
    BY <1>1, <2>2, FedKept DEF Unmoved, runtime
  <2> QED BY <1>4, <1>7, <2>8, <2>9, LaneKept DEF IInv
<1> QED BY <1>4, <1>5, <1>6, <1>8, <1>9 DEF IInv

\* A step of one client that moves no cursor.
LEMMA ClientStep ==
  ASSUME IInv, Types', NEW c \in Clients, UNCHANGED <<fleet, hub>>, PumpInOrder',
         \A d \in Clients \ {c} :
           /\ Unmoved(d)
           /\ wire'[d] = wire[d]
           /\ PumpWaits(d)' <=> PumpWaits(d)
           /\ PumpWaits(d) => pump'.seq = pump.seq,
         \A d \in Clients : disk'[d].cursor = disk[d].cursor /\ disk[d].known \subseteq disk'[d].known,
         Lane(c)'
  PROVE  IInv'
<1>1. Grows
  BY HubStill DEF hub
<1>2. LogIsTrue'
  BY DEF IInv, LogIsTrue, hub
<1>3. CursorsAreOfLogs' /\ CursorKnows'
  BY <1>1, CursorKnowsKept DEF IInv
<1>4. \A d \in Clients \ {c} : Waiting(d)' = Waiting(d)
  BY DEF Waiting, Unmoved
<1>5. \A d \in Clients \ {c} : Lane(d)'
  BY <1>1, <1>4, OtherLanes
<1> QED BY <1>2, <1>3, <1>5 DEF IInv

\* ... and leaves pump, subscriptions and runtimes alone.
LEMMA QuietClientStep ==
  ASSUME IInv, Types', NEW c \in Clients,
         UNCHANGED <<fleet, hub, pump, sub, runtime>>,
         \A d \in Clients \ {c} :
           /\ conn'[d] = conn[d] /\ uplink'[d] = uplink[d] /\ listing'[d] = listing[d]
           /\ wire'[d] = wire[d],
         Lane(c)'
  PROVE  IInv'
<1>1. PumpInOrder'
  BY DEF IInv, PumpInOrder, hub
<1>2. \A d \in Clients \ {c} :
        /\ Unmoved(d)
        /\ wire'[d] = wire[d]
        /\ PumpWaits(d)' <=> PumpWaits(d)
        /\ PumpWaits(d) => pump'.seq = pump.seq
  BY DEF Unmoved, runtime, PumpWaits
<1>3. \A d \in Clients : disk'[d].cursor = disk[d].cursor /\ disk[d].known \subseteq disk'[d].known
  BY DEF runtime
<1> QED BY <1>1, <1>2, <1>3, ClientStep

LEMMA RegisterIInv ==
  ASSUME IInv, NEW c \in Clients, Register(c)
  PROVE  IInv'
<1>1. conn[c] = "joining" /\ conn' = [conn EXCEPT ![c] = "up"]
      /\ UNCHANGED <<fleet, hub, pump, sub, connects, listing, wire, uplink, runtime>>
  BY DEF Register
<1>2. Types'
  BY <1>1 DEF IInv, Types, hub, runtime
<1>3. conn'[c] = "up" /\ \A d \in Clients \ {c} : conn'[d] = conn[d]
  BY <1>1 DEF IInv, Types
<1>4. Grows
  BY <1>1, HubStill DEF hub
<1>5. Lane(c)'
  <2>1. Unmoved(c) /\ wire'[c] = wire[c] /\ Waiting(c)' = Waiting(c)
    BY <1>1, <1>3 DEF Unmoved, Waiting, PumpWaits, runtime
  <2>2. sub[c] # None => Fed(c)'
    BY <1>1, FedAll, FedKept
  <2> QED BY <1>2, <1>4, <2>1, <2>2, LaneUntouched DEF IInv
<1> QED BY <1>1, <1>2, <1>3, <1>5, QuietClientStep

\* Only a client that is not subscribed is being listed or served.
LEMMA ServedIsFirst ==
  ASSUME IInv, NEW c \in Clients, uplink[c] # << >> \/ listing[c] # None
  PROVE  /\ sub[c] = None /\ conn[c] # "down" /\ BeforeSubscription(c)
         /\ uplink[c] = <<Request(c)>>
  BY DEF IInv, Lane, AfterSubscription, BeforeSubscription

LEMMA ListPanesIInv ==
  ASSUME IInv, NEW c \in Clients, ListPanes(c)
  PROVE  IInv'
<1>1. /\ uplink[c] # << >>
      /\ UNCHANGED <<fleet, hub, pump, sub, conn, connects, wire, uplink, runtime>>
  BY DEF ListPanes, Serving
<1>2. PICK ok \in BOOLEAN : listing' = [listing EXCEPT ![c] = [ok |-> ok, panes |-> Open]]
  BY FanoutAssumption DEF ListPanes
<1>3. Types'
  <2>1. [ok |-> ok, panes |-> Open] \in [ok : BOOLEAN, panes : SUBSET Episodes]
    BY DEF Open
  <2> QED BY <1>1, <1>2, <2>1 DEF IInv, Types, hub, runtime
<1>4. Lane(c)'
  <2>1. /\ sub[c] = None /\ conn[c] # "down" /\ BeforeSubscription(c)
        /\ uplink[c] = <<Request(c)>>
    BY <1>1, ServedIsFirst
  <2>2. Waiting(c)' = Waiting(c) /\ Request(c)' = Request(c)
    BY <1>1 DEF Waiting, PumpWaits, Request, runtime
  <2>3. BeforeSubscription(c)'
    BY <1>1, <2>1, <2>2 DEF BeforeSubscription, runtime
  <2>4. InTurn(wire[c], Waiting(c))'
    BY <1>1, <2>2 DEF IInv, Lane
  <2> QED BY <1>1, <2>1, <2>3, <2>4 DEF Lane
<1>5. \A d \in Clients \ {c} : listing'[d] = listing[d]
  BY <1>2 DEF IInv, Types
<1> QED BY <1>1, <1>3, <1>4, <1>5, QuietClientStep

LEMMA SendReplayIInv ==
  ASSUME IInv, NEW c \in Clients, SendReplay(c)
  PROVE  IInv'
<1>1. /\ sub[c] # None /\ ~sub[c].active /\ ~PumpWaits(c) /\ sub[c].todo # << >>
      /\ wire' = [wire EXCEPT ![c] = Append(@, Head(sub[c].todo))]
      /\ sub' = [sub EXCEPT ![c].todo = Tail(@)]
      /\ UNCHANGED <<fleet, hub, pump, conn, connects, listing, uplink, runtime>>
  BY DEF SendReplay, CatchingUp, Subscribed
<1>2. /\ sub[c] \in Subs /\ sub[c].todo \in Seq(Messages)
      /\ Head(sub[c].todo) \in Messages /\ Tail(sub[c].todo) \in Seq(Messages)
  BY <1>1, SubType DEF IInv
<1>3. /\ sub'[c] \in Subs /\ sub'[c].todo = Tail(sub[c].todo)
      /\ sub'[c].upto = sub[c].upto /\ sub'[c].active = sub[c].active
  <2>1. sub'[c] = [sub[c] EXCEPT !.todo = Tail(sub[c].todo)]
    BY <1>1 DEF IInv, Types
  <2> QED BY <1>2, <2>1 DEF Subs
<1>4. sub'[c] # None
  BY <1>3, NoneAssumption
<1>5. \A d \in Clients \ {c} : sub'[d] = sub[d] /\ wire'[d] = wire[d]
  BY <1>1 DEF IInv, Types
<1>6. Types'
  <2>1. wire' \in [Clients -> Seq(Messages)]
    BY <1>1, <1>2 DEF IInv, Types
  <2>2. sub' \in [Clients -> Subs \cup {None}]
    <3>1. sub' = [d \in Clients |-> sub'[d]]
      BY <1>1 DEF IInv, Types
    <3> QED BY <1>3, <1>5, <3>1 DEF IInv, Types
  <2> QED BY <1>1, <2>1, <2>2 DEF IInv, Types, hub, runtime
<1>7. PumpInOrder'
  <2>1. pump # None => \A d \in pump.to : sub'[d] # None /\ sub'[d].active
    <3> SUFFICES ASSUME pump # None, NEW d \in pump.to PROVE sub'[d] # None /\ sub'[d].active
      OBVIOUS
    <3>1. d \in Clients /\ d # c
      BY <1>1 DEF PumpWaits, IInv, Types, Pumps
    <3> QED BY <1>5, <3>1 DEF IInv, PumpInOrder
  <2> QED BY <1>1, <2>1 DEF IInv, PumpInOrder, hub
<1>8. Grows
  BY <1>1, HubStill DEF hub
<1>9. Lane(c)'
  <2>1. AfterSubscription(c) /\ Fed(c)
    BY <1>1 DEF IInv, Lane, AfterSubscription
  <2> DEFINE w == wire[c]
             r == Waiting(c)
  <2>2. r = sub[c].todo /\ Waiting(c)' = Tail(r)
    BY <1>1, <1>3, <1>4 DEF Waiting, PumpWaits
  <2>3. w \in Seq(Messages) /\ r \in Seq(Messages) /\ InTurn(w, r) /\ r # << >>
    BY <1>1, <2>2, WaitingType DEF IInv, Lane
  <2>4. wire'[c] = Append(w, Head(r))
    BY <1>1, <2>2 DEF IInv, Types
  <2> HIDE DEF w, r
  <2>5. /\ InTurn(Append(w, Head(r)), Tail(r))
        /\ Coming(Append(w, Head(r)), Tail(r)) = Coming(w, r)
    BY <2>3, SendingKeeps
  <2>6. InTurn(wire[c], Waiting(c))'
    BY <2>2, <2>4, <2>5
  <2>7. Coming(wire[c], Waiting(c))' = Coming(wire[c], Waiting(c))
    BY <2>2, <2>4, <2>5 DEF w, r
  <2>8. Fed(c)'
    BY <1>1, <1>3, <2>1 DEF Fed, hub
  <2>9. Coming(wire[c], Waiting(c))' =
          Coming(wire[c], Waiting(c))
            \cup {x \in Messages : \E n \in (sub[c].upto + 1)..sub'[c].upto : x = Event(n)}
    <3>1. sub[c].upto \in Nat
      BY <1>1, SubType DEF IInv
    <3>2. (sub[c].upto + 1)..sub'[c].upto = {}
      BY <1>3, <3>1
    <3> QED BY <2>7, <3>2
  <2>10. sub[c].upto <= sub'[c].upto
    BY <1>1, <1>3, SubType DEF IInv
  <2> QED BY <1>1, <1>4, <1>6, <1>8, <2>6, <2>8, <2>9, <2>10, LaneExtended DEF IInv, runtime
<1>10. \A d \in Clients \ {c} :
        /\ Unmoved(d)
        /\ wire'[d] = wire[d]
        /\ PumpWaits(d)' <=> PumpWaits(d)
        /\ PumpWaits(d) => pump'.seq = pump.seq
  BY <1>1, <1>5 DEF Unmoved, runtime, PumpWaits
<1> QED BY <1>1, <1>6, <1>7, <1>9, <1>10, ClientStep DEF runtime

LEMMA CatchUpIInv ==
  ASSUME IInv, NEW c \in Clients, CatchUp(c)
  PROVE  IInv'
<1> DEFINE pending == Pending(c)
           old == sub[c].upto
<1>1. /\ sub[c] # None /\ ~sub[c].active /\ sub[c].todo = << >>
      /\ sub' = [sub EXCEPT ![c] =
                   IF pending = {} THEN [sub[c] EXCEPT !.active = TRUE]
                   ELSE [sub[c] EXCEPT !.todo = Events(pending), !.upto = Len(log)]]
      /\ UNCHANGED <<fleet, hub, pump, conn, connects, listing, wire, uplink, runtime>>
  BY DEF CatchUp, CatchingUp, Subscribed
<1>2. /\ sub[c] \in Subs /\ old \in Nat /\ old <= Len(log) /\ low <= old + 1
      /\ Len(log) \in 0..MaxSeq /\ low \in Nat /\ AfterSubscription(c) /\ Fed(c)
  <2>1. AfterSubscription(c) /\ Fed(c)
    BY <1>1 DEF IInv, Lane, AfterSubscription
  <2> QED BY <1>1, <2>1, SubType DEF IInv, Fed, Types
<1>3. pending = (old + 1)..Len(log)
  BY <1>2 DEF Pending, Ring
<1>4. pending \in SUBSET (1..MaxSeq)
  BY <1>2, <1>3
<1> HIDE DEF pending
<1>5. /\ sub'[c] \in Subs /\ sub'[c].upto = Len(log)
      /\ sub'[c].active <=> pending = {}
      /\ sub'[c].todo = IF pending = {} THEN << >> ELSE Events(pending)
  <2>1. CASE pending = {}
    <3>1. sub'[c] = [sub[c] EXCEPT !.active = TRUE]
      BY <1>1, <2>1 DEF IInv, Types
    <3>2. old = Len(log)
      BY <1>2, <1>3, <2>1
    <3> QED BY <1>1, <1>2, <2>1, <3>1, <3>2 DEF Subs
  <2>2. CASE pending # {}
    <3>1. sub'[c] = [sub[c] EXCEPT !.todo = Events(pending), !.upto = Len(log)]
      BY <1>1, <2>2 DEF IInv, Types
    <3>2. Events(pending) \in Seq(Messages)
      BY <1>4, EventsInOrder
    <3>3. Len(log) \in 0..MaxSeq /\ sub[c] \in Subs /\ ~sub[c].active
      BY <1>1, <1>2
    <3> HIDE DEF old
    <3>4. sub'[c] \in Subs /\ sub'[c].upto = Len(log)
      BY <3>1, <3>2, <3>3 DEF Subs
    <3>5. sub'[c].active = sub[c].active /\ sub'[c].todo = Events(pending)
      BY <3>1, <3>3 DEF Subs
    <3> QED BY <2>2, <3>3, <3>4, <3>5
  <2> QED BY <2>1, <2>2
<1>6. sub'[c] # None
  BY <1>5, NoneAssumption
<1>7. \A d \in Clients \ {c} : sub'[d] = sub[d]
  BY <1>1 DEF IInv, Types
<1>8. ~PumpWaits(c)
  BY <1>1 DEF IInv, PumpInOrder, PumpWaits
<1>9. Types'
  <2>1. sub' \in [Clients -> Subs \cup {None}]
    <3>1. sub' = [d \in Clients |-> sub'[d]]
      BY <1>1 DEF IInv, Types
    <3> QED BY <1>5, <1>7, <3>1 DEF IInv, Types
  <2> QED BY <1>1, <2>1 DEF IInv, Types, hub, runtime
<1>10. PumpInOrder'
  <2>1. pump # None => \A d \in pump.to : sub'[d] # None /\ sub'[d].active
    <3> SUFFICES ASSUME pump # None, NEW d \in pump.to PROVE sub'[d] # None /\ sub'[d].active
      OBVIOUS
    <3>1. d \in Clients /\ d # c
      BY <1>8 DEF PumpWaits, IInv, Types, Pumps
    <3> QED BY <1>7, <3>1 DEF IInv, PumpInOrder
  <2> QED BY <1>1, <2>1 DEF IInv, PumpInOrder, hub
<1>11. Grows
  BY <1>1, HubStill DEF hub
<1>12. Lane(c)'
  <2> DEFINE w == wire[c]
             r == IF pending = {} THEN << >> ELSE Events(pending)
  <2>1. Waiting(c) = << >> /\ Waiting(c)' = r /\ wire'[c] = w
    BY <1>1, <1>5, <1>6, <1>8 DEF Waiting, PumpWaits
  <2>2. w \in Seq(Messages) /\ InTurn(w, << >>)
    BY <2>1, WaitingType DEF IInv, Lane
  <2>3. /\ r \in Seq(Messages) /\ Sorted(r)
        /\ \A i \in DOMAIN r : \E n \in pending : r[i] = Event(n)
        /\ \A n \in pending : \E i \in DOMAIN r : r[i] = Event(n)
    <3>1. CASE pending = {}
      BY <3>1 DEF Sorted
    <3>2. CASE pending # {}
      BY <1>4, <3>2, EventsInOrder
    <3> QED BY <3>1, <3>2
  <2>4. ASSUME NEW m \in Coming(w, << >>), NEW i \in DOMAIN r PROVE Key(m) < Key(r[i])
    <3>1. Key(m) \in Nat /\ Key(m) <= 2 * old + 1
      BY <1>1, <1>2, <2>1, <2>4, ComingUpTo DEF IInv
    <3>2. PICK n \in pending : r[i] = Event(n)
      BY <2>3, <2>4
    <3>3. n \in 1..MaxSeq /\ n \in Nat /\ n >= old + 1
      BY <1>2, <1>3, <1>4
    <3>4. Key(Event(n)) = 2 * n
      BY <3>3, ToldMessages
    <3> HIDE DEF r
    <3>5. Key(r[i]) = 2 * n
      BY <3>2, <3>4
    <3> QED BY <1>2, <3>1, <3>3, <3>5
  <2> HIDE DEF w, r
  <2>5. /\ InTurn(w, r)
        /\ Coming(w, r) = Coming(w, << >>) \cup {m \in Messages : Told(m) /\ \E i \in DOMAIN r : r[i] = m}
    BY <2>2, <2>3, <2>4, AddingKeeps
  <2>6. {m \in Messages : Told(m) /\ \E i \in DOMAIN r : r[i] = m}
          = {x \in Messages : \E n \in (sub[c].upto + 1)..sub'[c].upto : x = Event(n)}
    <3>1. \A n \in pending : Told(Event(n))
      BY <1>4, ToldMessages
    <3>2. (sub[c].upto + 1)..sub'[c].upto = pending
      BY <1>3, <1>5
    <3>3. \A x : (\E i \in DOMAIN r : r[i] = x) <=> \E n \in pending : x = Event(n)
      BY <2>3
    <3> QED BY <3>1, <3>2, <3>3
  <2>7. /\ InTurn(wire[c], Waiting(c))'
        /\ Coming(wire[c], Waiting(c))' =
             Coming(wire[c], Waiting(c))
               \cup {x \in Messages : \E n \in (sub[c].upto + 1)..sub'[c].upto : x = Event(n)}
    BY <2>1, <2>5, <2>6 DEF w
  <2>8. Fed(c)'
    <3>1. low <= Len(log) + 1
      BY DEF IInv, Types
    <3>2. (Len(log) + 1)..Len(log) = {}
      BY <1>2
    <3> QED BY <1>1, <1>2, <1>5, <3>1, <3>2 DEF Fed, hub
  <2>9. sub[c].upto <= sub'[c].upto
    BY <1>2, <1>5
  <2> QED BY <1>1, <1>6, <1>9, <1>11, <2>7, <2>8, <2>9, LaneExtended DEF IInv, runtime
<1>13. \A d \in Clients \ {c} :
        /\ Unmoved(d)
        /\ wire'[d] = wire[d]
        /\ PumpWaits(d)' <=> PumpWaits(d)
        /\ PumpWaits(d) => pump'.seq = pump.seq
  BY <1>1, <1>7 DEF Unmoved, runtime, PumpWaits
<1> QED BY <1>1, <1>9, <1>10, <1>12, <1>13, ClientStep DEF runtime
-----------------------------------------------------------------------------
(* Connections come and go.                                                *)

LEMMA NotPumped ==
  ASSUME IInv, NEW c \in Clients, sub[c] = None
  PROVE  /\ ~PumpWaits(c) /\ Waiting(c) = << >>
         /\ BeforeSubscription(c) /\ InTurn(wire[c], << >>) /\ wire[c] \in Seq(Messages)
<1>1. ~PumpWaits(c)
  BY DEF IInv, PumpInOrder, PumpWaits
<1>2. Waiting(c) = << >>
  BY <1>1 DEF Waiting
<1> QED BY <1>1, <1>2 DEF IInv, Lane, Types

LEMMA MemoryFields ==
  DOMAIN NoMemory = {"batch", "alert", "synced", "resent", "view", "read", "spent"}
  BY DEF NoMemory, Memory

LEMMA SilentWire ==
  /\ InTurn(<< >>, << >>) /\ Coming(<< >>, << >>) = {}
  /\ << >> \in Seq(Messages)
  BY DEF InTurn, Sorted, Coming

LEMMA ConnectIInv ==
  ASSUME IInv, NEW c \in Clients, Connect(c)
  PROVE  IInv'
<1>1. /\ conn[c] = "down"
      /\ conn' = [conn EXCEPT ![c] = "joining"]
      /\ wire' = [wire EXCEPT ![c] = <<Snapshot(Open)>>]
      /\ uplink' = [uplink EXCEPT ![c] = <<Request(c)>>]
      /\ mem' = [mem EXCEPT ![c] = [NewBatch(c) EXCEPT !.synced = FALSE, !.resent = FALSE]]
      /\ UNCHANGED <<fleet, hub, pump, sub, listing, disk, alerted>>
  BY DEF Connect
<1>2. sub[c] = None
  BY <1>1 DEF IInv, Lane, AfterSubscription
<1>3. /\ ~PumpWaits(c) /\ Waiting(c) = << >> /\ BeforeSubscription(c)
  BY <1>2, NotPumped
<1>4. /\ mem'[c].batch = << >> /\ mem'[c].synced = FALSE /\ DOMAIN mem'[c] = DOMAIN mem[c]
      /\ \A d \in Clients \ {c} : mem'[d] = mem[d]
      /\ mem' = [d \in Clients |-> mem'[d]]
  <2>1. DOMAIN mem[c] = {"batch", "alert", "synced", "resent", "view", "read", "spent"}
    BY MemoryFields DEF IInv, Types
  <2>2. /\ mem'[c] = [NewBatch(c) EXCEPT !.synced = FALSE, !.resent = FALSE]
        /\ \A d \in Clients \ {c} : mem'[d] = mem[d]
        /\ mem' = [d \in Clients |-> mem'[d]]
    BY <1>1 DEF IInv, Types
  <2> QED BY <2>1, <2>2 DEF NewBatch
<1>5. << >> \in Batches /\ Snapshot(Open) \in Messages
  BY ToldMessages DEF Batches, Open
<1>6. Types'
  <2>1. wire' \in [Clients -> Seq(Messages)]
    BY <1>1, <1>5 DEF IInv, Types
  <2>2. conn' \in [Clients -> {"down", "joining", "up"}]
    BY <1>1 DEF IInv, Types
  <2>3. uplink' = [d \in Clients |-> uplink'[d]]
    BY <1>1 DEF IInv, Types
  <2>4. \A d \in Clients : /\ DOMAIN mem'[d] = DOMAIN NoMemory
                           /\ mem'[d].synced \in BOOLEAN
                           /\ mem'[d].batch \in Batches \cup {None}
    BY <1>4, <1>5 DEF IInv, Types
  <2>5. DOMAIN NoMemory' = DOMAIN NoMemory
    BY DEF NoMemory, Memory
  <2> QED BY <1>1, <1>4, <2>1, <2>2, <2>3, <2>4, <2>5 DEF IInv, Types, hub
<1>7. Waiting(c)' = << >> /\ Request(c)' = Request(c)
  BY <1>1, <1>2, <1>3 DEF Waiting, PumpWaits, Request
<1>8. InTurn(wire[c], Waiting(c))' /\ Coming(wire[c], Waiting(c))' = {}
  <2>1. wire'[c] = <<Snapshot(Open)>>
    BY <1>1 DEF IInv, Types
  <2>2. Open \in SUBSET Episodes
    BY DEF Open
  <2>3. /\ InTurn(Append(<< >>, Snapshot(Open)), << >>)
        /\ Coming(Append(<< >>, Snapshot(Open)), << >>) = {}
    BY <2>2, SilentWire, ShowingKeeps
  <2>4. Append(<< >>, Snapshot(Open)) = <<Snapshot(Open)>>
    OBVIOUS
  <2> QED BY <1>7, <2>1, <2>3, <2>4
<1>9. Lane(c)'
  <2>1. uplink'[c] = <<Request(c)>> /\ conn'[c] # "down"
    BY <1>1 DEF IInv, Types
  <2>2. BeforeSubscription(c)'
    BY <1>1, <1>3, <1>4, <1>7, <1>8, <2>1 DEF BeforeSubscription
  <2> QED BY <1>1, <1>2, <1>8, <2>2 DEF Lane
<1>10. \A d \in Clients \ {c} :
        /\ Unmoved(d)
        /\ wire'[d] = wire[d]
        /\ PumpWaits(d)' <=> PumpWaits(d)
        /\ PumpWaits(d) => pump'.seq = pump.seq
  BY <1>1, <1>4 DEF Unmoved, PumpWaits, IInv, Types
<1>11. PumpInOrder'
  BY <1>1 DEF IInv, PumpInOrder, hub
<1> QED BY <1>1, <1>6, <1>9, <1>10, <1>11, ClientStep

\* A connection that closes takes all that was on its way with it.
LEMMA ClosingIInv ==
  ASSUME IInv, NEW c \in Clients, Closed(c), UNCHANGED <<fleet, hub>>,
         NEW m, mem' = [mem EXCEPT ![c] = m], DOMAIN m = DOMAIN NoMemory,
         m.batch = None, m.synced = FALSE,
         disk' = [d \in Clients |-> disk'[d]],
         \A d \in Clients : /\ DOMAIN disk'[d] = {"cursor", "known"}
                            /\ disk'[d].cursor = disk[d].cursor
                            /\ disk[d].known \subseteq disk'[d].known
  PROVE  IInv'
<1>1. /\ conn' = [conn EXCEPT ![c] = "down"]
      /\ wire' = [wire EXCEPT ![c] = << >>]
      /\ uplink' = [uplink EXCEPT ![c] = << >>]
      /\ listing' = [listing EXCEPT ![c] = None]
      /\ sub' = [sub EXCEPT ![c] = None]
      /\ pump' = Without(pump, c)
  BY DEF Closed
<1>2. /\ pump' = None \/ pump' \in Pumps
      /\ \A d \in Clients : PumpWaits(d)' <=> PumpWaits(d) /\ d # c
      /\ pump' # None => pump # None /\ pump'.seq = pump.seq /\ pump'.to \subseteq pump.to \ {c}
  <2>1. CASE pump = None \/ pump.to \subseteq {c}
    <3>1. pump' = None
      BY <1>1, <2>1 DEF Without
    <3> QED BY <2>1, <3>1 DEF PumpWaits
  <2>2. CASE ~(pump = None \/ pump.to \subseteq {c})
    <3>1. pump' = [pump EXCEPT !.to = pump.to \ {c}]
      BY <1>1, <2>2 DEF Without
    <3>2. pump' \in Pumps /\ pump'.seq = pump.seq /\ pump'.to = pump.to \ {c}
      BY <2>2, <3>1 DEF IInv, Types, Pumps
    <3>3. pump' # None
      BY <3>2, NoneAssumption
    <3> QED BY <2>2, <3>2, <3>3 DEF PumpWaits
  <2> QED BY <2>1, <2>2
<1>3. /\ mem'[c] = m
      /\ \A d \in Clients \ {c} : mem'[d] = mem[d]
      /\ mem' = [d \in Clients |-> mem'[d]]
  BY DEF IInv, Types
<1>4. /\ conn'[c] = "down" /\ wire'[c] = << >> /\ uplink'[c] = << >> /\ listing'[c] = None
      /\ sub'[c] = None
  BY <1>1 DEF IInv, Types
<1>5. \A d \in Clients \ {c} :
        /\ conn'[d] = conn[d] /\ wire'[d] = wire[d] /\ uplink'[d] = uplink[d]
        /\ listing'[d] = listing[d] /\ sub'[d] = sub[d]
  BY <1>1 DEF IInv, Types
<1>6. Types'
  <2>1. /\ wire' \in [Clients -> Seq(Messages)]
        /\ conn' \in [Clients -> {"down", "joining", "up"}]
        /\ sub' \in [Clients -> Subs \cup {None}]
        /\ listing' \in [Clients -> [ok : BOOLEAN, panes : SUBSET Episodes] \cup {None}]
        /\ uplink' = [d \in Clients |-> uplink'[d]]
    BY <1>1, SilentWire DEF IInv, Types
  <2>2. \A d \in Clients : /\ DOMAIN mem'[d] = DOMAIN NoMemory
                           /\ mem'[d].synced \in BOOLEAN
                           /\ mem'[d].batch \in Batches \cup {None}
                           /\ disk'[d].cursor \in Cursors \cup {None}
    BY <1>3 DEF IInv, Types
  <2>3. DOMAIN NoMemory' = DOMAIN NoMemory
    BY DEF NoMemory, Memory
  <2> QED BY <1>2, <1>3, <2>1, <2>2, <2>3 DEF IInv, Types, hub
<1>7. PumpInOrder'
  <2>1. pump' # None => \A d \in pump'.to : sub'[d] # None /\ sub'[d].active
    <3> SUFFICES ASSUME pump' # None, NEW d \in pump'.to PROVE sub'[d] # None /\ sub'[d].active
      OBVIOUS
    <3>1. pump # None /\ d \in pump.to /\ d \in Clients /\ d # c
      BY <1>2 DEF IInv, Types, Pumps
    <3> QED BY <1>5, <3>1 DEF IInv, PumpInOrder
  <2> QED BY <2>1 DEF IInv, PumpInOrder, hub
<1>8. Lane(c)'
  <2>1. Waiting(c)' = << >>
    BY <1>2, <1>4 DEF Waiting
  <2>2. InTurn(wire[c], Waiting(c))' /\ Coming(wire[c], Waiting(c))' = {}
    BY <1>4, <2>1, SilentWire
  <2>3. BeforeSubscription(c)'
    BY <1>3, <1>4, <2>2 DEF BeforeSubscription
  <2> QED BY <1>4, <2>2, <2>3 DEF Lane
<1>9. \A d \in Clients \ {c} :
        /\ Unmoved(d)
        /\ wire'[d] = wire[d]
        /\ PumpWaits(d)' <=> PumpWaits(d)
        /\ PumpWaits(d) => pump'.seq = pump.seq
  <2> TAKE d \in Clients \ {c}
  <2>1. Unmoved(d)
    BY <1>3, <1>5 DEF Unmoved
  <2>2. PumpWaits(d)' <=> PumpWaits(d)
    BY <1>2
  <2>3. PumpWaits(d) => pump'.seq = pump.seq
    BY <1>2, <2>2 DEF PumpWaits
  <2> QED BY <1>5, <2>1, <2>2, <2>3
<1> QED BY <1>6, <1>7, <1>8, <1>9, ClientStep

LEMMA DiskFields ==
  ASSUME IInv
  PROVE  disk = [d \in Clients |-> disk[d]] /\ \A d \in Clients : DOMAIN disk[d] = {"cursor", "known"}
  BY DEF IInv, Types

LEMMA DropIInv ==
  ASSUME IInv, NEW c \in Clients, Drop(c)
  PROVE  IInv'
<1> DEFINE m == Forgets(mem[c])
<1>1. /\ Closed(c) /\ mem' = [mem EXCEPT ![c] = m]
      /\ UNCHANGED <<fleet, hub, connects, disk, alerted>>
  BY DEF Drop, IInv, Types
<1>2. DOMAIN m = DOMAIN NoMemory /\ m.batch = None /\ m.synced = FALSE
  <2>1. DOMAIN mem[c] = {"batch", "alert", "synced", "resent", "view", "read", "spent"}
    BY MemoryFields DEF IInv, Types
  <2> QED BY <2>1, MemoryFields DEF Forgets
<1> HIDE DEF m
<1> QED BY <1>1, <1>2, DiskFields, ClosingIInv

LEMMA CrashIInv ==
  ASSUME IInv, NEW c \in Clients, Crash(c)
  PROVE  IInv'
<1>1. /\ Closed(c) /\ mem' = [mem EXCEPT ![c] = NoMemory]
      /\ UNCHANGED <<fleet, hub, connects, disk, alerted>>
  BY DEF Crash
<1>2. NoMemory.batch = None /\ NoMemory.synced = FALSE
  BY DEF NoMemory, Memory
<1> QED BY <1>1, <1>2, DiskFields, ClosingIInv

LEMMA CrashAlertingIInv ==
  ASSUME IInv, NEW c \in Clients, CrashAlerting(c)
  PROVE  IInv'
<1>1. /\ Closed(c) /\ mem' = [mem EXCEPT ![c] = NoMemory]
      /\ UNCHANGED <<fleet, hub, connects>>
  BY DEF CrashAlerting
<1>2. PICK more : disk' = [disk EXCEPT ![c].known = @ \cup more]
  BY DEF CrashAlerting
<1>3. /\ disk' = [d \in Clients |-> disk'[d]]
      /\ \A d \in Clients : /\ DOMAIN disk'[d] = {"cursor", "known"}
                            /\ disk'[d].cursor = disk[d].cursor
                            /\ disk[d].known \subseteq disk'[d].known
  BY <1>2, DiskFields
<1>4. NoMemory.batch = None /\ NoMemory.synced = FALSE
  BY DEF NoMemory, Memory
<1> QED BY <1>1, <1>3, <1>4, ClosingIInv

LEMMA BridgeRestartIInv ==
  ASSUME IInv, BridgeRestart
  PROVE  IInv'
<1>1. /\ epoch < MaxEpochs /\ epoch' = epoch + 1
      /\ log' = << >> /\ low' = 1 /\ queue' = << >> /\ pump' = None
      /\ sub' = [c \in Clients |-> None]
      /\ conn' = [c \in Clients |-> "down"]
      /\ listing' = [c \in Clients |-> None]
      /\ wire' = [c \in Clients |-> << >>]
      /\ uplink' = [c \in Clients |-> << >>]
      /\ mem' = [c \in Clients |-> Forgets(mem[c])]
      /\ UNCHANGED <<connects, disk, alerted>>
  BY DEF BridgeRestart
<1>2. PICK ended \in SUBSET Open :
        fleet' = [ep \in Episodes |->
                    IF ep \in ended THEN [fleet[ep] EXCEPT !.state = "over"] ELSE fleet[ep]]
  BY DEF BridgeRestart
<1>3. \A c \in Clients :
        DOMAIN mem'[c] = DOMAIN NoMemory /\ mem'[c].batch = None /\ mem'[c].synced = FALSE
  <2> TAKE c \in Clients
  <2>1. DOMAIN mem[c] = {"batch", "alert", "synced", "resent", "view", "read", "spent"}
    BY MemoryFields DEF IInv, Types
  <2>2. mem'[c] = Forgets(mem[c])
    BY <1>1
  <2> QED BY <2>1, <2>2, MemoryFields DEF Forgets
<1>4. epoch \in Nat /\ epoch' \in 1..MaxEpochs
  BY <1>1 DEF IInv, Types
<1>5. /\ fleet' \in [Episodes -> [state : {"new", "open", "over"},
                                  asks : 0..MaxQuestions, done : 0..MaxQuestions]]
      /\ \A ep \in Episodes : fleet'[ep].state # "new" => fleet'[ep].asks # 0
  <2>1. ASSUME NEW ep \in Episodes
        PROVE  /\ fleet'[ep] \in [state : {"new", "open", "over"},
                                  asks : 0..MaxQuestions, done : 0..MaxQuestions]
               /\ fleet'[ep].state # "new" => fleet'[ep].asks # 0
    <3>1. /\ fleet[ep] \in [state : {"new", "open", "over"},
                            asks : 0..MaxQuestions, done : 0..MaxQuestions]
          /\ fleet[ep].state # "new" => fleet[ep].asks # 0
      BY DEF IInv, Types
    <3>2. CASE ep \in ended
      <4>1. fleet'[ep] = [fleet[ep] EXCEPT !.state = "over"] /\ fleet[ep].state = "open"
        BY <1>2, <3>2 DEF Open
      <4> QED BY <3>1, <4>1
    <3>3. CASE ep \notin ended
      BY <1>2, <3>1, <3>3
    <3> QED BY <3>2, <3>3
  <2> QED BY <1>2, <2>1
<1>6. Types'
  <2>1. << >> \in Seq(Frames) /\ Len(<< >>) = 0 /\ << >> \in Seq(1..MaxSeq)
    OBVIOUS
  <2>2. \A c \in Clients : disk'[c].cursor \in Cursors \cup {None} /\ DOMAIN disk'[c] = {"cursor", "known"}
    BY <1>1 DEF IInv, Types
  <2>3. disk' = [c \in Clients |-> disk'[c]]
    BY <1>1 DEF IInv, Types
  <2>4. DOMAIN NoMemory' = DOMAIN NoMemory
    BY DEF NoMemory, Memory
  <2>5. /\ sub' \in [Clients -> Subs \cup {None}]
        /\ conn' \in [Clients -> {"down", "joining", "up"}]
        /\ wire' \in [Clients -> Seq(Messages)]
        /\ listing' \in [Clients -> [ok : BOOLEAN, panes : SUBSET Episodes] \cup {None}]
        /\ uplink' = [c \in Clients |-> uplink'[c]]
        /\ mem' = [c \in Clients |-> mem'[c]]
    BY <1>1, SilentWire
  <2>6. /\ log' \in Seq(Frames) /\ Len(log') <= MaxSeq
        /\ low' \in 1..(Len(log') + 1)
        /\ (log' # << >> => low' <= Len(log'))
        /\ queue' \in Seq(1..MaxSeq) /\ pump' = None
    BY <1>1, <2>1
  <2>7. \A c \in Clients : /\ DOMAIN mem'[c] = DOMAIN NoMemory'
                           /\ mem'[c].synced \in BOOLEAN
                           /\ mem'[c].batch \in Batches \cup {None}
    BY <1>3, <2>4
  <2> QED BY <1>4, <1>5, <2>2, <2>3, <2>5, <2>6, <2>7 DEF Types
<1>7. LogIsTrue' /\ PumpInOrder'
  BY <1>1 DEF LogIsTrue, PumpInOrder
<1>8. \A c \in Clients : disk[c].cursor # None => disk[c].cursor[1] \in Nat /\ disk[c].cursor[1] < epoch'
  BY <1>1, <1>4 DEF IInv, CursorsAreOfLogs, Types, Cursors
<1>9. CursorsAreOfLogs' /\ CursorKnows'
  BY <1>1, <1>4, <1>8 DEF CursorsAreOfLogs, CursorKnows, Here
<1>10. ASSUME NEW c \in Clients PROVE Lane(c)'
  <2>1. sub'[c] = None /\ wire'[c] = << >> /\ uplink'[c] = << >> /\ listing'[c] = None /\ conn'[c] = "down"
    BY <1>1
  <2>2. Waiting(c)' = << >>
    BY <1>1, <2>1 DEF Waiting, PumpWaits
  <2>3. InTurn(wire[c], Waiting(c))' /\ Coming(wire[c], Waiting(c))' = {}
    BY <2>1, <2>2, SilentWire
  <2>4. BeforeSubscription(c)'
    BY <1>3, <2>1, <2>3 DEF BeforeSubscription
  <2> QED BY <2>1, <2>3, <2>4 DEF Lane
<1> QED BY <1>6, <1>7, <1>9, <1>10 DEF IInv
-----------------------------------------------------------------------------
(* A subscription: what the replay and its event_sync tell.                *)

\* The last blocked event of an open episode is among the frames the bridge
\* keeps of it.
LEMMA HeldAsks ==
  ASSUME IInv, NEW n \in 1..Len(log), Asking(n)
  PROVE  \E p \in HeldOpen : log[p].kind = "blocked" /\ log[p].ep = log[n].ep
<1> DEFINE asks == {k \in 1..Len(log) : log[k].kind = "blocked" /\ log[k].ep = log[n].ep}
<1>1. Len(log) \in Nat
  BY DEF IInv, Types
<1>2. asks \in SUBSET (1..Len(log)) /\ n \in asks
  BY DEF Asking
<1>3. PICK p \in asks : \A x \in asks : x <= p
  <2> HIDE DEF asks
  <2> QED BY <1>1, <1>2, LastPlace
<1>4. p \in 1..Len(log) /\ p \in Nat /\ log[p].kind = "blocked" /\ log[p].ep = log[n].ep
  BY <1>1
<1>5. ASSUME NEW k \in (p + 1)..Len(log), log[k].ep = log[n].ep PROVE log[k].kind # "blocked"
  <2>1. k \in 1..Len(log) /\ k > p
    BY <1>1, <1>4, <1>5
  <2> QED BY <1>3, <1>4, <1>5, <2>1
<1>6. p \in Held(log[n].ep)
  BY <1>4, <1>5 DEF Held
<1>7. log[n].ep \in {e \in Open : \E k \in 1..Len(log) : log[k].ep = e}
  BY DEF Asking
<1> QED BY <1>4, <1>6, <1>7 DEF HeldOpen

\* A replay holds everything after the cursor or says that there may be a gap,
\* and tells of every question that is still open.
LEMMA ReplayTells ==
  ASSUME IInv, NEW c \in Clients
  PROVE  LET replay == Replay(Request(c)) IN
         /\ replay.gap \in BOOLEAN
         /\ replay.places \in SUBSET (1..Len(log))
         /\ ~replay.gap /\ Here(c) => (disk[c].cursor[2] + 1)..Len(log) \subseteq replay.places
         /\ \A n \in 1..Len(log) :
              Asking(n) => \/ Here(c) /\ n <= disk[c].cursor[2]
                           \/ \E p \in replay.places :
                                log[p].kind = "blocked" /\ log[p].ep = log[n].ep
<1> DEFINE r == Request(c)
           cursor == disk[c].cursor
<1>1. Len(log) \in Nat /\ low \in Nat /\ low >= 1 /\ Len(log) <= MaxSeq
  BY DEF IInv, Types
<1>2. HeldOpen \in SUBSET (1..Len(log)) /\ Ring \in SUBSET (1..Len(log))
  BY <1>1 DEF HeldOpen, Held, Ring
<1>3. CASE cursor = None
  <2>1. r.after = None
    BY <1>3 DEF Request
  <2>2. Replay(r) = [places |-> HeldOpen, gap |-> FALSE]
    BY <2>1 DEF Replay
  <2>3. ~Here(c)
    BY <1>3 DEF Here
  <2> QED BY <1>2, <2>2, <2>3, HeldAsks
<1>4. CASE cursor # None
  <2>1. /\ r.after = cursor[2] /\ r.epoch = cursor[1] /\ cursor[2] \in 0..MaxSeq /\ cursor[2] \in Nat
        /\ r.after # None
    BY <1>4, NoneAssumption DEF Request, IInv, Types, Cursors
  <2>2. CASE Reaches(r)
    <3> DEFINE places == {n \in Ring : n > cursor[2]}
    <3>1. Replay(r) = [places |-> places, gap |-> FALSE]
      BY <2>1, <2>2 DEF Replay
    <3>2. Here(c)
      BY <1>4, <2>1, <2>2 DEF Here, Reaches
    <3>3. (cursor[2] + 1)..Len(log) \subseteq places
      <4>1. ASSUME NEW n \in (cursor[2] + 1)..Len(log) PROVE n \in low..Len(log) /\ n > cursor[2]
        BY <1>1, <2>1, <2>2, <4>1 DEF Reaches
      <4> QED BY <4>1 DEF Ring
    <3>4. places \in SUBSET (1..Len(log))
      BY <1>2
    <3>5. ASSUME NEW n \in 1..Len(log), ~(n <= cursor[2]) PROVE n \in places
      BY <1>1, <2>1, <3>3, <3>5
    <3> HIDE DEF places
    <3>6. ASSUME NEW n \in 1..Len(log), Asking(n)
          PROVE  \/ n <= cursor[2]
                 \/ \E p \in places : log[p].kind = "blocked" /\ log[p].ep = log[n].ep
      BY <3>5, <3>6 DEF Asking
    <3> QED BY <3>1, <3>2, <3>3, <3>4, <3>6
  <2>3. CASE ~Reaches(r)
    <3>1. Replay(r) = [places |-> Ring \cup HeldOpen, gap |-> TRUE]
      BY <2>1, <2>3 DEF Replay
    <3> QED BY <1>2, <3>1, HeldAsks
  <2> QED BY <2>2, <2>3
<1> QED BY <1>3, <1>4

LEMMA SubscribeIInv ==
  ASSUME IInv, NEW c \in Clients, Subscribe(c)
  PROVE  IInv'
<1> DEFINE replay == Replay(Request(c))
           P == replay.places
           gap == replay.gap
           sync == Sync(Len(log), gap)
           todo == Append(Events(P), sync)
<1>1. /\ sub[c] = None /\ conn[c] # "down" /\ BeforeSubscription(c)
      /\ uplink[c] = <<Request(c)>> /\ listing[c] # None
  <2>1. listing[c] # None
    BY DEF Subscribe
  <2> QED BY <2>1, ServedIsFirst
<1>2. /\ sub' = [sub EXCEPT ![c] = [todo |-> todo, upto |-> Len(log), active |-> FALSE]]
      /\ wire' = [wire EXCEPT ![c] = wire[c] \o Listed(c)]
      /\ uplink' = [uplink EXCEPT ![c] = Tail(uplink[c])]
      /\ listing' = [listing EXCEPT ![c] = None]
      /\ UNCHANGED <<fleet, hub, pump, conn, connects, runtime>>
  <2>1. Head(uplink[c]) = Request(c)
    BY <1>1
  <2> QED BY <2>1 DEF Subscribe, IInv, Types
<1>3. /\ gap \in BOOLEAN /\ P \in SUBSET (1..Len(log))
      /\ ~gap /\ Here(c) => (disk[c].cursor[2] + 1)..Len(log) \subseteq P
      /\ \A n \in 1..Len(log) :
           Asking(n) => \/ Here(c) /\ n <= disk[c].cursor[2]
                        \/ \E p \in P : log[p].kind = "blocked" /\ log[p].ep = log[n].ep
  BY ReplayTells
<1> HIDE DEF replay
<1>4. Len(log) \in 0..MaxSeq /\ Len(log) \in Nat
  BY DEF IInv, Types
<1>5. P \in SUBSET (1..MaxSeq)
  BY <1>3, <1>4
<1> HIDE DEF P, gap
<1>6. sync \in Messages /\ Told(sync) /\ Key(sync) = 2 * Len(log) + 1 /\ sync.type = "sync"
  BY <1>3, <1>4, ToldMessages
<1> HIDE DEF sync
<1>7. /\ Events(P) \in Seq(Messages) /\ Sorted(Events(P))
      /\ \A i \in DOMAIN Events(P) : \E n \in P : Events(P)[i] = Event(n)
      /\ \A n \in P : \E i \in DOMAIN Events(P) : Events(P)[i] = Event(n)
  BY <1>5, EventsInOrder
<1>8. /\ todo \in Seq(Messages) /\ Len(Events(P)) \in Nat
      /\ DOMAIN Events(P) = 1..Len(Events(P))
      /\ DOMAIN todo = 1..(Len(Events(P)) + 1)
      /\ todo[Len(Events(P)) + 1] = sync
      /\ \A i \in DOMAIN Events(P) : i \in DOMAIN todo /\ todo[i] = Events(P)[i]
  BY <1>6, <1>7
<1> HIDE DEF todo
<1>9. \A n \in P : Event(n) \in Messages /\ Told(Event(n)) /\ Key(Event(n)) < Key(sync)
  <2> TAKE n \in P
  <2>1. n \in 1..MaxSeq /\ n \in Nat /\ n <= Len(log)
    BY <1>3, <1>4
  <2>2. Event(n) \in Messages /\ Told(Event(n)) /\ Key(Event(n)) = 2 * n
    BY <2>1, ToldMessages
  <2> QED BY <1>4, <1>6, <2>1, <2>2
<1>10. Sorted(todo)
  <2> SUFFICES ASSUME NEW i \in DOMAIN todo, NEW j \in DOMAIN todo, i < j, Told(todo[i]), Told(todo[j])
               PROVE  Key(todo[i]) < Key(todo[j])
    BY DEF Sorted
  <2>1. i \in DOMAIN Events(P) /\ todo[i] = Events(P)[i]
    BY <1>8
  <2>2. CASE j \in DOMAIN Events(P)
    BY <1>7, <1>8, <2>1, <2>2 DEF Sorted
  <2>3. CASE j = Len(Events(P)) + 1
    <3>1. PICK n \in P : Events(P)[i] = Event(n)
      BY <1>7, <2>1
    <3> QED BY <1>8, <1>9, <2>1, <2>3, <3>1
  <2> QED BY <1>8, <2>2, <2>3
<1>11. {m \in Messages : Told(m) /\ \E i \in DOMAIN todo : todo[i] = m}
         = {sync} \cup {m \in Messages : \E n \in P : m = Event(n)}
  <2> DEFINE told == {m \in Messages : Told(m) /\ \E i \in DOMAIN todo : todo[i] = m}
             right == {sync} \cup {m \in Messages : \E n \in P : m = Event(n)}
  <2>1. ASSUME NEW m \in told PROVE m \in right
    <3>1. PICK i \in DOMAIN todo : todo[i] = m
      BY <2>1
    <3>2. CASE i \in DOMAIN Events(P)
      <4>1. \E n \in P : Events(P)[i] = Event(n)
        BY <1>7, <3>2
      <4>2. todo[i] = Events(P)[i] /\ m \in Messages
        BY <1>8, <2>1, <3>2
      <4> QED BY <3>1, <4>1, <4>2
    <3>3. CASE i = Len(Events(P)) + 1
      BY <1>8, <3>1, <3>3
    <3> QED BY <1>8, <3>2, <3>3
  <2>2. sync \in told
    BY <1>6, <1>8
  <2>3. ASSUME NEW n \in P PROVE Event(n) \in told
    <3>1. PICK i \in DOMAIN Events(P) : Events(P)[i] = Event(n)
      BY <1>7, <2>3
    <3>2. i \in DOMAIN todo /\ todo[i] = Event(n)
      BY <1>8, <3>1
    <3> QED BY <1>9, <2>3, <3>2
  <2> HIDE DEF told
  <2>4. told \subseteq right
    BY <2>1
  <2>5. right \subseteq told
    BY <2>2, <2>3
  <2>6. told = right
    BY <2>4, <2>5
  <2> QED BY <2>6 DEF told
<1>12. /\ ~PumpWaits(c) /\ Waiting(c) = << >> /\ InTurn(wire[c], << >>) /\ wire[c] \in Seq(Messages)
  BY <1>1, NotPumped
<1>13. /\ wire'[c] \in Seq(Messages) /\ InTurn(wire'[c], << >>) /\ Coming(wire'[c], << >>) = {}
  <2>1. Coming(wire[c], << >>) = {}
    BY <1>1, <1>12 DEF BeforeSubscription
  <2>2. wire'[c] = wire[c] \o Listed(c)
    BY <1>2 DEF IInv, Types
  <2>3. CASE ~listing[c].ok
    <3>1. wire'[c] = wire[c]
      BY <1>12, <2>2, <2>3 DEF Listed
    <3> QED BY <1>12, <2>1, <3>1
  <2>4. CASE listing[c].ok
    <3>1. PICK panes \in SUBSET Episodes : Listed(c) = <<Snapshot(panes)>>
      <4>1. listing[c].panes \in SUBSET Episodes /\ Open \in SUBSET Episodes
        BY <1>1 DEF IInv, Types, Open
      <4> QED BY <2>4, <4>1 DEF Listed
    <3>2. Snapshot(panes) \in Messages
      BY ToldMessages
    <3>3. wire'[c] = Append(wire[c], Snapshot(panes))
      BY <1>12, <2>2, <3>1, <3>2
    <3> DEFINE w == wire[c]
    <3>4. w \in Seq(Messages) /\ InTurn(w, << >>) /\ << >> \in Seq(Messages)
      BY <1>12
    <3>5. wire'[c] = Append(w, Snapshot(panes)) /\ Coming(w, << >>) = {}
      BY <2>1, <3>3
    <3> HIDE DEF w
    <3> DEFINE v == Append(w, Snapshot(panes))
    <3>6. v \in Seq(Messages) /\ InTurn(v, << >>) /\ Coming(v, << >>) = Coming(w, << >>)
      BY <3>4, ShowingKeeps
    <3> HIDE DEF v
    <3>7. wire'[c] = v
      BY <3>5 DEF v
    <3> QED BY <3>5, <3>6, <3>7
  <2> QED BY <2>3, <2>4
<1>14. /\ InTurn(wire'[c], todo)
       /\ Coming(wire'[c], todo) = {sync} \cup {m \in Messages : \E n \in P : m = Event(n)}
  <2>1. \A m \in Coming(wire'[c], << >>), i \in DOMAIN todo : Told(todo[i]) => Key(m) < Key(todo[i])
    BY <1>13
  <2>2. /\ InTurn(wire'[c], todo)
        /\ Coming(wire'[c], todo) = Coming(wire'[c], << >>)
             \cup {m \in Messages : Told(m) /\ \E i \in DOMAIN todo : todo[i] = m}
    BY <1>8, <1>10, <1>13, <2>1, AddingKeeps
  <2> QED BY <1>11, <1>13, <2>2
<1>15. /\ sub'[c] \in Subs /\ sub'[c].todo = todo /\ sub'[c].upto = Len(log) /\ sub'[c].active = FALSE
       /\ sub'[c] # None
  <2>1. sub'[c] = [todo |-> todo, upto |-> Len(log), active |-> FALSE]
    BY <1>2 DEF IInv, Types
  <2>2. sub'[c] \in Subs
    BY <1>4, <1>8, <2>1 DEF Subs
  <2>3. sub'[c] # None
    BY <2>2, NoneAssumption
  <2> QED BY <2>1, <2>2, <2>3
<1>16. /\ listing'[c] = None /\ uplink'[c] = << >>
       /\ \A d \in Clients \ {c} : /\ sub'[d] = sub[d] /\ wire'[d] = wire[d]
                                   /\ uplink'[d] = uplink[d] /\ listing'[d] = listing[d]
  BY <1>1, <1>2 DEF IInv, Types
<1>17. Types'
  <2>1. wire' \in [Clients -> Seq(Messages)]
    <3>1. wire' = [d \in Clients |-> wire'[d]]
      BY <1>2 DEF IInv, Types
    <3> QED BY <1>13, <1>16, <3>1 DEF IInv, Types
  <2>2. sub' \in [Clients -> Subs \cup {None}]
    <3>1. sub' = [d \in Clients |-> sub'[d]]
      BY <1>2 DEF IInv, Types
    <3> QED BY <1>15, <1>16, <3>1 DEF IInv, Types
  <2>3. /\ listing' \in [Clients -> [ok : BOOLEAN, panes : SUBSET Episodes] \cup {None}]
        /\ uplink' = [d \in Clients |-> uplink'[d]]
    BY <1>2 DEF IInv, Types
  <2> QED BY <1>2, <2>1, <2>2, <2>3 DEF IInv, Types, hub, runtime
<1>18. PumpInOrder'
  <2>1. pump # None => \A d \in pump.to : sub'[d] # None /\ sub'[d].active
    <3> SUFFICES ASSUME pump # None, NEW d \in pump.to PROVE sub'[d] # None /\ sub'[d].active
      OBVIOUS
    <3>1. d \in Clients /\ d # c
      BY <1>12 DEF PumpWaits, IInv, Types, Pumps
    <3> QED BY <1>16, <3>1 DEF IInv, PumpInOrder
  <2> QED BY <1>2, <2>1 DEF IInv, PumpInOrder, hub
<1>19. Waiting(c)' = todo
  BY <1>2, <1>12, <1>15 DEF Waiting, PumpWaits
<1>20. Lane(c)'
  <2>1. mem[c].batch = << >> /\ ~mem[c].synced /\ mem' = mem /\ disk' = disk /\ log' = log /\ epoch' = epoch
        /\ low' = low /\ fleet' = fleet
    BY <1>1, <1>2 DEF BeforeSubscription, runtime, hub
  <2>2. Coming(wire[c], Waiting(c))' = {sync} \cup {m \in Messages : \E n \in P : m = Event(n)}
    BY <1>14, <1>19
  <2>3. Fed(c)'
    <3>1. low <= Len(log) + 1
      BY DEF IInv, Types
    <3> QED BY <1>4, <1>15, <2>1, <3>1 DEF Fed
  <2>8. PICK len \in 0..MaxSeq : len = Len(log)
    BY <1>4
  <2>9. PICK g \in BOOLEAN : g = gap
    BY <1>3
  <2>4. Batched(c, len)' = P
    <3>1. ASSUME NEW n \in 1..len
          PROVE  Event(n) \in Coming(wire[c], Waiting(c))' <=> n \in P
      <4>1. n \in 1..MaxSeq
        BY <1>4, <2>8, <3>1
      <4>2. /\ Event(n).type = "event" /\ Event(n).seq = n
            /\ \A k \in P : Event(k).seq = k
        BY <1>5, <4>1, ToldMessages
      <4> QED BY <1>6, <1>9, <2>2, <4>2
    <3>2. DOMAIN << >> = {}
      OBVIOUS
    <3>3. Batched(c, len)' =
            {n \in 1..len : \/ \E i \in DOMAIN << >> : << >>[i] = n
                            \/ Event(n) \in Coming(wire[c], Waiting(c))'}
      BY <2>1 DEF Batched
    <3> QED BY <1>3, <2>8, <3>1, <3>2, <3>3
  <2>5. ReplayingTo(c, len, g)'
    <3>1. sync \in Coming(wire[c], Waiting(c))'
      BY <2>2
    <3>2. \A x \in Coming(wire[c], Waiting(c))' : x = sync \/ \E n \in 1..sub'[c].upto : x = Event(n)
      BY <1>3, <1>15, <2>2, <2>8
    <3>3. \A n \in (len + 1)..sub'[c].upto : Event(n) \in Coming(wire[c], Waiting(c))'
      BY <1>4, <1>15, <2>8
    <3>4. \A i \in DOMAIN mem'[c].batch : mem'[c].batch[i] <= len
      BY <2>1
    <3>5. Here(c)' <=> Here(c)
      BY <2>1 DEF Here
    <3>6. ~g /\ Here(c)' => (disk'[c].cursor[2] + 1)..len \subseteq Batched(c, len)'
      BY <1>3, <2>1, <2>4, <2>8, <2>9, <3>5
    <3>7. \A n \in 1..len :
            Asking(n)' => \/ Here(c)' /\ n <= disk'[c].cursor[2]
                          \/ \E p \in Batched(c, len)' :
                               log'[p].kind = "blocked" /\ log'[p].ep = log'[n].ep
      BY <1>3, <2>1, <2>4, <2>8, <3>5 DEF Asking, Open
    <3>8. Sync(len, g) = sync
      BY <2>8, <2>9 DEF sync
    <3> QED BY <2>1, <3>1, <3>2, <3>3, <3>4, <3>6, <3>7, <3>8 DEF ReplayingTo
  <2>6. Replaying(c)'
    <3>1. mem'[c].batch # None
      <4>1. << >> \in Batches
        BY DEF Batches
      <4> QED BY <2>1, <4>1, NoneAssumption
    <3>2. len \in 0..sub'[c].upto
      BY <1>4, <1>15, <2>8
    <3> QED BY <2>5, <3>1, <3>2 DEF Replaying
  <2>7. AfterSubscription(c)'
    BY <1>1, <1>2, <1>16, <2>1, <2>3, <2>6 DEF AfterSubscription
  <2> QED BY <1>14, <1>15, <1>19, <2>7 DEF Lane
<1>21. \A d \in Clients \ {c} :
        /\ Unmoved(d)
        /\ wire'[d] = wire[d]
        /\ PumpWaits(d)' <=> PumpWaits(d)
        /\ PumpWaits(d) => pump'.seq = pump.seq
  BY <1>2, <1>16 DEF Unmoved, runtime, PumpWaits
<1> QED BY <1>2, <1>17, <1>18, <1>20, <1>21, ClientStep DEF runtime
-----------------------------------------------------------------------------
(* What a runtime does with what it receives.                              *)

\* Whoever is told something is subscribed; it is told live events after its
\* event_sync and the replay before.
LEMMA ToldIsSubscribed ==
  ASSUME IInv, NEW c \in Clients, wire[c] # << >>, Told(Head(wire[c]))
  PROVE  /\ Head(wire[c]) \in Messages
         /\ Head(wire[c]) \in Coming(wire[c], Waiting(c))
         /\ sub[c] # None /\ AfterSubscription(c)
         /\ sub[c].upto \in Nat /\ sub[c].upto <= Len(log) /\ sub[c].upto <= MaxSeq
<1>1. wire[c] \in Seq(Messages) /\ Waiting(c) \in Seq(Messages) /\ InTurn(wire[c], Waiting(c))
  BY WaitingType DEF IInv, Lane
<1>2. Head(wire[c]) \in Messages /\ Head(wire[c]) \in Coming(wire[c], Waiting(c))
  BY <1>1, TakingKeeps
<1>3. sub[c] # None
  BY <1>2 DEF IInv, Lane, BeforeSubscription
<1>4. AfterSubscription(c) /\ Fed(c)
  BY <1>3 DEF IInv, Lane, AfterSubscription
<1> QED BY <1>2, <1>3, <1>4, SubType DEF Fed, IInv

\* What is left once the head of the wire is taken.
LEMMA Taken ==
  ASSUME IInv, NEW c \in Clients, wire[c] # << >>, Told(Head(wire[c])),
         UNCHANGED <<hub, linkButWire>>, wire' = [wire EXCEPT ![c] = Tail(wire[c])]
  PROVE  /\ Waiting(c)' = Waiting(c) /\ wire'[c] = Tail(wire[c])
         /\ InTurn(wire[c], Waiting(c))'
         /\ Coming(wire[c], Waiting(c))' = Coming(wire[c], Waiting(c)) \ {Head(wire[c])}
         /\ \A m \in Coming(wire[c], Waiting(c))' : Key(Head(wire[c])) < Key(m)
<1> DEFINE w == wire[c]
           r == Waiting(c)
<1>1. w \in Seq(Messages) /\ r \in Seq(Messages) /\ InTurn(w, r) /\ w # << >> /\ Told(Head(w))
  BY WaitingType DEF IInv, Lane
<1>2. Waiting(c)' = r /\ wire'[c] = Tail(w)
  BY DEF Waiting, PumpWaits, linkButWire, IInv, Types
<1> HIDE DEF w, r
<1>3. /\ InTurn(Tail(w), r)
      /\ Coming(Tail(w), r) = Coming(w, r) \ {Head(w)}
      /\ \A m \in Coming(Tail(w), r) : Key(Head(w)) < Key(m)
  BY <1>1, TakingKeeps
<1>4. Coming(wire[c], Waiting(c))' = Coming(Tail(w), r)
  BY <1>2
<1>5. InTurn(wire[c], Waiting(c))'
  BY <1>2, <1>3
<1> QED BY <1>2, <1>3, <1>4, <1>5 DEF w, r

\* Receiving leaves the lanes of the others as they are.
LEMMA OthersHear ==
  ASSUME IInv, NEW c \in Clients, UNCHANGED <<fleet, hub, linkButWire>>,
         wire' = [wire EXCEPT ![c] = Tail(wire[c])],
         \A d \in Clients \ {c} : mem'[d] = mem[d] /\ disk'[d] = disk[d]
  PROVE  /\ \A d \in Clients \ {c} :
              /\ Unmoved(d)
              /\ wire'[d] = wire[d]
              /\ PumpWaits(d)' <=> PumpWaits(d)
              /\ PumpWaits(d) => pump'.seq = pump.seq
         /\ PumpInOrder'
  BY DEF linkButWire, Unmoved, PumpWaits, IInv, Types, PumpInOrder, hub

LEMMA TailsType ==
  ASSUME IInv, NEW c \in Clients, wire[c] # << >>, wire' = [wire EXCEPT ![c] = Tail(wire[c])]
  PROVE  wire' \in [Clients -> Seq(Messages)]
<1>1. Tail(wire[c]) \in Seq(Messages)
  BY DEF IInv, Types
<1> QED BY <1>1 DEF IInv, Types

LEMMA ReceiveSnapshotIInv ==
  ASSUME IInv, NEW c \in Clients, ReceiveSnapshot(c)
  PROVE  IInv'
<1>1. /\ wire[c] # << >> /\ Head(wire[c]).type = "snapshot"
      /\ mem' = [mem EXCEPT ![c].view = Head(wire[c]).panes]
      /\ wire' = [wire EXCEPT ![c] = Tail(wire[c])]
      /\ UNCHANGED <<fleet, hub, linkButWire, disk, alerted>>
  BY DEF ReceiveSnapshot, IInv, Types
<1>2. /\ mem' = [d \in Clients |-> mem'[d]]
      /\ \A d \in Clients \ {c} : mem'[d] = mem[d]
      /\ DOMAIN mem'[c] = DOMAIN mem[c] /\ mem'[c].batch = mem[c].batch /\ mem'[c].synced = mem[c].synced
  <2>1. DOMAIN mem[c] = {"batch", "alert", "synced", "resent", "view", "read", "spent"}
    BY MemoryFields DEF IInv, Types
  <2>2. /\ mem'[c] = [mem[c] EXCEPT !.view = Head(wire[c]).panes]
        /\ mem' = [d \in Clients |-> mem'[d]]
        /\ \A d \in Clients \ {c} : mem'[d] = mem[d]
    BY <1>1 DEF IInv, Types
  <2> QED BY <2>1, <2>2
<1>3. Types'
  <2>1. wire' \in [Clients -> Seq(Messages)]
    BY <1>1, TailsType
  <2>2. \A d \in Clients : /\ DOMAIN mem'[d] = DOMAIN NoMemory
                           /\ mem'[d].synced \in BOOLEAN
                           /\ mem'[d].batch \in Batches \cup {None}
    BY <1>2 DEF IInv, Types
  <2>3. DOMAIN NoMemory' = DOMAIN NoMemory
    BY DEF NoMemory, Memory
  <2> QED BY <1>1, <1>2, <2>1, <2>2, <2>3 DEF IInv, Types, hub, linkButWire
<1>4. /\ \A d \in Clients \ {c} :
           /\ Unmoved(d)
           /\ wire'[d] = wire[d]
           /\ PumpWaits(d)' <=> PumpWaits(d)
           /\ PumpWaits(d) => pump'.seq = pump.seq
      /\ PumpInOrder'
  BY <1>1, <1>2, OthersHear
<1>5. Lane(c)'
  <2>1. Grows
    BY <1>1, HubStill DEF hub
  <2>2. Unmoved(c) /\ Waiting(c)' = Waiting(c) /\ wire'[c] = Tail(wire[c])
    BY <1>1, <1>2 DEF Unmoved, Waiting, PumpWaits, linkButWire, IInv, Types
  <2> DEFINE w == wire[c]
             r == Waiting(c)
  <2>3. w \in Seq(Messages) /\ r \in Seq(Messages) /\ InTurn(w, r) /\ w # << >> /\ ~Told(Head(w))
    BY <1>1, WaitingType DEF IInv, Lane, Told
  <2> HIDE DEF w, r
  <2>4. InTurn(Tail(w), r) /\ Coming(Tail(w), r) = Coming(w, r)
    BY <2>3, TakingKeeps
  <2>5. InTurn(wire[c], Waiting(c))'
    BY <2>2, <2>4 DEF w, r
  <2>6. Coming(wire[c], Waiting(c))' = Coming(wire[c], Waiting(c))
    BY <2>2, <2>4 DEF w, r
  <2>7. sub[c] # None => Fed(c)'
    BY <1>1, FedAll, FedKept DEF linkButWire
  <2> QED BY <1>3, <2>1, <2>2, <2>5, <2>6, <2>7, LaneKept DEF IInv
<1> QED BY <1>1, <1>3, <1>4, <1>5, ClientStep

LEMMA ReceiveBatchedIInv ==
  ASSUME IInv, NEW c \in Clients, ReceiveBatched(c)
  PROVE  IInv'
<1> DEFINE k == Head(wire[c]).seq
<1>1. /\ wire[c] # << >> /\ Head(wire[c]).type = "event" /\ mem[c].batch # None
      /\ mem' = [mem EXCEPT ![c].batch = Append(@, k)]
      /\ wire' = [wire EXCEPT ![c] = Tail(wire[c])]
      /\ UNCHANGED <<fleet, hub, linkButWire, disk, alerted>>
  BY DEF ReceiveBatched, IInv, Types
<1>2. Told(Head(wire[c]))
  BY <1>1 DEF Told
<1>3. /\ Head(wire[c]) \in Messages
      /\ Head(wire[c]) \in Coming(wire[c], Waiting(c))
      /\ sub[c] # None /\ AfterSubscription(c)
      /\ sub[c].upto \in Nat /\ sub[c].upto <= Len(log) /\ sub[c].upto <= MaxSeq
  BY <1>1, <1>2, ToldIsSubscribed
<1>4. k \in 1..MaxSeq /\ k \in Nat /\ Head(wire[c]) = Event(k) /\ Key(Head(wire[c])) = 2 * k
  <2>1. k \in 1..MaxSeq /\ Head(wire[c]) = Event(k)
    BY <1>1, <1>3, ToldMessages
  <2> HIDE DEF k
  <2> QED BY <2>1, ToldMessages
<1> HIDE DEF k
<1>5. /\ mem[c].batch \in Batches /\ Append(mem[c].batch, k) \in Batches
      /\ Len(mem[c].batch) \in Nat /\ DOMAIN mem[c].batch = 1..Len(mem[c].batch)
  <2>1. mem[c].batch \in Batches
    BY <1>1 DEF IInv, Types
  <2> QED BY <1>4, <2>1 DEF Batches
<1>6. /\ mem' = [d \in Clients |-> mem'[d]]
      /\ \A d \in Clients \ {c} : mem'[d] = mem[d]
      /\ DOMAIN mem'[c] = DOMAIN mem[c] /\ mem'[c].batch = Append(mem[c].batch, k)
      /\ mem'[c].synced = mem[c].synced
  <2>1. DOMAIN mem[c] = {"batch", "alert", "synced", "resent", "view", "read", "spent"}
    BY MemoryFields DEF IInv, Types
  <2>2. /\ mem'[c] = [mem[c] EXCEPT !.batch = Append(mem[c].batch, k)]
        /\ mem' = [d \in Clients |-> mem'[d]]
        /\ \A d \in Clients \ {c} : mem'[d] = mem[d]
    BY <1>1 DEF IInv, Types
  <2> QED BY <2>1, <2>2
<1>7. Types'
  <2>1. wire' \in [Clients -> Seq(Messages)]
    BY <1>1, TailsType
  <2>2. \A d \in Clients : /\ DOMAIN mem'[d] = DOMAIN NoMemory
                           /\ mem'[d].synced \in BOOLEAN
                           /\ mem'[d].batch \in Batches \cup {None}
    BY <1>5, <1>6 DEF IInv, Types
  <2>3. DOMAIN NoMemory' = DOMAIN NoMemory
    BY DEF NoMemory, Memory
  <2> QED BY <1>1, <1>6, <2>1, <2>2, <2>3 DEF IInv, Types, hub, linkButWire
<1>8. /\ \A d \in Clients \ {c} :
           /\ Unmoved(d)
           /\ wire'[d] = wire[d]
           /\ PumpWaits(d)' <=> PumpWaits(d)
           /\ PumpWaits(d) => pump'.seq = pump.seq
      /\ PumpInOrder'
  BY <1>1, <1>6, OthersHear
<1>9. /\ Waiting(c)' = Waiting(c)
      /\ InTurn(wire[c], Waiting(c))'
      /\ Coming(wire[c], Waiting(c))' = Coming(wire[c], Waiting(c)) \ {Event(k)}
      /\ \A m \in Coming(wire[c], Waiting(c))' : 2 * k < Key(m)
  BY <1>1, <1>2, <1>4, Taken
<1>10. ~mem[c].synced
  BY <1>1, <1>3 DEF AfterSubscription, Following
<1>11. PICK m \in 0..sub[c].upto, gap \in BOOLEAN : ReplayingTo(c, m, gap)
  BY <1>3, <1>10 DEF AfterSubscription, Replaying
<1>12. m \in Nat /\ m \in 0..MaxSeq
  BY <1>3
<1>13. /\ Sync(m, gap) \in Coming(wire[c], Waiting(c))' /\ k <= m
  <2>1. Sync(m, gap).type = "sync" /\ Event(k).type = "event" /\ Key(Sync(m, gap)) = 2 * m + 1
    BY <1>4, <1>12, ToldMessages
  <2>2. Sync(m, gap) \in Coming(wire[c], Waiting(c))'
    BY <1>9, <1>11, <2>1 DEF ReplayingTo
  <2> QED BY <1>4, <1>9, <1>12, <2>1, <2>2
<1>14. Batched(c, m)' = Batched(c, m)
  <2> DEFINE old == mem[c].batch
             new == mem'[c].batch
  <2>1. /\ DOMAIN new = 1..(Len(old) + 1) /\ new[Len(old) + 1] = k
        /\ \A i \in DOMAIN old : i \in DOMAIN new /\ new[i] = old[i]
    <3>1. new = Append(old, k) /\ old \in Seq(1..MaxSeq)
      BY <1>5, <1>6 DEF Batches
    <3> HIDE DEF old, new
    <3> QED BY <1>4, <3>1
  <2> HIDE DEF old, new
  <2>2. \A n : (\E i \in DOMAIN new : new[i] = n) <=> n = k \/ \E i \in DOMAIN old : old[i] = n
    <3>1. ASSUME NEW i \in DOMAIN new PROVE new[i] = k \/ \E j \in DOMAIN old : old[j] = new[i]
      BY <1>5, <2>1, <3>1 DEF old
    <3>2. Len(old) + 1 \in DOMAIN new
      BY <1>5, <2>1 DEF old
    <3> QED BY <2>1, <3>1, <3>2
  <2>3. Event(k) \in Coming(wire[c], Waiting(c))
    BY <1>3, <1>4
  <2>4. ASSUME NEW n \in 1..m PROVE Event(n) = Event(k) => n = k
    BY <2>4 DEF Event
  <2>5. ASSUME NEW n \in 1..m
        PROVE  (\E i \in DOMAIN new : new[i] = n) \/ Event(n) \in Coming(wire[c], Waiting(c))'
               <=> (\E i \in DOMAIN old : old[i] = n) \/ Event(n) \in Coming(wire[c], Waiting(c))
    BY <1>9, <2>2, <2>3, <2>4
  <2>6. Batched(c, m)' = {n \in 1..m : \/ \E i \in DOMAIN new : new[i] = n
                                       \/ Event(n) \in Coming(wire[c], Waiting(c))'}
    BY DEF Batched, new
  <2>7. Batched(c, m) = {n \in 1..m : \/ \E i \in DOMAIN old : old[i] = n
                                      \/ Event(n) \in Coming(wire[c], Waiting(c))}
    BY DEF Batched, old
  <2> QED BY <2>5, <2>6, <2>7
<1>15. ReplayingTo(c, m, gap)'
  <2>1. \A x \in Coming(wire[c], Waiting(c))' : x = Sync(m, gap) \/ \E n \in 1..sub'[c].upto : x = Event(n)
    BY <1>1, <1>9, <1>11 DEF ReplayingTo, linkButWire
  <2>2. \A n \in (m + 1)..sub'[c].upto : Event(n) \in Coming(wire[c], Waiting(c))'
    <3> TAKE n \in (m + 1)..sub'[c].upto
    <3>1. Event(n) \in Coming(wire[c], Waiting(c))
      BY <1>1, <1>11 DEF ReplayingTo, linkButWire
    <3>2. n # k
      BY <1>1, <1>3, <1>12, <1>13 DEF linkButWire
    <3>3. Event(n) # Event(k)
      BY <3>2 DEF Event
    <3> QED BY <1>9, <3>1, <3>3
  <2>3. \A i \in DOMAIN mem'[c].batch : mem'[c].batch[i] <= m
    <3> TAKE i \in DOMAIN mem'[c].batch
    <3> DEFINE old == mem[c].batch
    <3>1. mem'[c].batch = Append(old, k) /\ old \in Seq(1..MaxSeq) /\ \A j \in DOMAIN old : old[j] <= m
      BY <1>5, <1>6, <1>11 DEF ReplayingTo, Batches
    <3> HIDE DEF old
    <3>2. CASE i \in DOMAIN old
      BY <3>1, <3>2
    <3>3. CASE i \notin DOMAIN old
      <4>1. mem'[c].batch[i] = k
        BY <3>1, <3>3
      <4> QED BY <1>13, <4>1
    <3> QED BY <3>2, <3>3
  <2>4. Here(c)' <=> Here(c)
    BY <1>1 DEF Here, hub
  <2>5. ~gap /\ Here(c)' => (disk'[c].cursor[2] + 1)..m \subseteq Batched(c, m)'
    BY <1>1, <1>11, <1>14, <2>4 DEF ReplayingTo
  <2>6. \A n \in 1..m :
          Asking(n)' => \/ Here(c)' /\ n <= disk'[c].cursor[2]
                        \/ \E p \in Batched(c, m)' :
                             log'[p].kind = "blocked" /\ log'[p].ep = log'[n].ep
    BY <1>1, <1>11, <1>14, <2>4 DEF ReplayingTo, Asking, Open, hub
  <2> QED BY <1>13, <2>1, <2>2, <2>3, <2>5, <2>6 DEF ReplayingTo
<1>16. Lane(c)'
  <2>1. sub'[c] = sub[c] /\ conn' = conn /\ uplink' = uplink /\ listing' = listing
    BY <1>1 DEF linkButWire
  <2>2. mem'[c].batch # None
    BY <1>5, <1>6, NoneAssumption
  <2>3. Replaying(c)'
    BY <1>15, <2>1, <2>2 DEF Replaying
  <2>4. Fed(c)'
    BY <1>1, <1>3, <2>1, FedKept DEF AfterSubscription
  <2>5. AfterSubscription(c)'
    BY <1>3, <1>6, <1>10, <2>1, <2>3, <2>4 DEF AfterSubscription
  <2> QED BY <1>3, <1>9, <2>1, <2>5 DEF Lane
<1> QED BY <1>1, <1>7, <1>8, <1>16, ClientStep

\* What handling a message leaves on disk, whatever it reads, spends and alerts.
LEMMA HandlingSaves ==
  ASSUME NEW c \in Clients, NEW msg
  PROVE  /\ Handling(c, msg).cursor = <<epoch, msg.seq>>
         /\ msg.type = "sync" /\ mem[c].batch # None =>
              Handling(c, msg).opened = {log[mem[c].batch[i]].ep : i \in StillOpen(mem[c].batch)}
         /\ msg.type # "sync" /\ log[msg.seq].kind = "blocked" =>
              Handling(c, msg).opened = {log[msg.seq].ep}
<1>1. /\ HandleSync(c, msg).cursor = <<epoch, msg.seq>>
      /\ HandleSync(c, msg).opened =
           {log[(IF mem[c].batch = None THEN << >> ELSE mem[c].batch)[i]].ep :
              i \in StillOpen(IF mem[c].batch = None THEN << >> ELSE mem[c].batch)}
  BY DEF HandleSync
<1>2. ASSUME mem[c].batch # None
      PROVE  HandleSync(c, msg).opened = {log[mem[c].batch[i]].ep : i \in StillOpen(mem[c].batch)}
  <2>1. (IF mem[c].batch = None THEN << >> ELSE mem[c].batch) = mem[c].batch
    BY <1>2
  <2> QED BY <1>1, <2>1
<1>3. /\ HandleLive(c, msg.seq).cursor = <<epoch, msg.seq>>
      /\ HandleLive(c, msg.seq).opened =
           IF log[msg.seq].kind = "blocked" THEN {log[msg.seq].ep} ELSE {}
  BY DEF HandleLive
<1> QED BY <1>1, <1>2, <1>3 DEF Handling

\* The batch names every question it holds that is still open: the last of the
\* episode is followed by answers at most.
LEMMA BatchTells ==
  ASSUME IInv, NEW batch \in Seq(1..Len(log)), NEW i \in DOMAIN batch, Asking(batch[i])
  PROVE  \E j \in StillOpen(batch) : log[batch[j]].ep = log[batch[i]].ep
<1> DEFINE ep == log[batch[i]].ep
           asks == {j \in DOMAIN batch : log[batch[j]].kind = "blocked" /\ log[batch[j]].ep = ep}
<1>1. Len(batch) \in Nat /\ DOMAIN batch = 1..Len(batch) /\ Len(log) \in Nat
      /\ \A j \in DOMAIN batch : batch[j] \in 1..Len(log)
  <2>1. Len(log) \in Nat
    BY DEF IInv, Types
  <2> QED BY <2>1
<1>2. asks \in SUBSET (1..Len(batch)) /\ i \in asks
  BY <1>1 DEF Asking
<1>3. PICK j \in asks : \A x \in asks : x <= j
  <2> HIDE DEF asks
  <2> QED BY <1>1, <1>2, LastPlace
<1>4. j \in DOMAIN batch /\ j \in Nat /\ log[batch[j]].kind = "blocked" /\ log[batch[j]].ep = ep
  BY <1>1
<1>5. ASSUME NEW k \in (j + 1)..Len(batch), log[batch[k]].ep = ep
      PROVE  log[batch[k]].kind = "answered"
  <2>1. k \in DOMAIN batch /\ k > j /\ k \in Nat
    BY <1>1, <1>4
  <2>2. log[batch[k]].kind # "blocked"
    <3>1. ASSUME k \in asks PROVE FALSE
      BY <1>3, <1>4, <2>1, <3>1
    <3> QED BY <1>5, <2>1, <3>1
  <2>3. batch[k] \in DOMAIN log /\ log[batch[k]] \in Frames
    <3>1. log \in Seq(Frames) /\ batch[k] \in 1..Len(log)
      BY <1>1, <2>1 DEF IInv, Types
    <3> QED BY <3>1
  <2>4. log[batch[k]].kind # "unblocked"
    BY <1>5, <2>3 DEF IInv, LogIsTrue, Asking, Open
  <2> QED BY <2>2, <2>3, <2>4 DEF Frames, Kinds
<1>6. j \in StillOpen(batch)
  BY <1>4, <1>5 DEF StillOpen
<1> QED BY <1>4, <1>6

\* A runtime that has handled everything up to s follows from there.
LEMMA FollowsFrom ==
  ASSUME IInv, NEW c \in Clients, ReceiveEvent(c),
         sub[c] # None, AfterSubscription(c), sub[c].upto <= Len(log), sub[c].upto <= MaxSeq,
         NEW s \in 0..sub[c].upto,
         mem'[c].synced = TRUE, disk'[c].cursor = <<epoch, s>>,
         Waiting(c)' = Waiting(c), InTurn(wire[c], Waiting(c))',
         Coming(wire[c], Waiting(c))' = {m \in Messages : \E n \in (s + 1)..sub[c].upto : m = Event(n)},
         \A n \in 1..s : Asking(n) => log[n].ep \in disk'[c].known
  PROVE  IInv'
<1> DEFINE h == Handling(c, Head(wire[c]))
           m == [mem[c] EXCEPT !.read = h.read, !.spent = h.spent, !.batch = None]
<1>1. /\ wire[c] # << >>
      /\ mem' = [mem EXCEPT ![c] =
                   IF Head(wire[c]).type = "sync" THEN [m EXCEPT !.alert = FALSE, !.synced = TRUE] ELSE m]
      /\ disk' = [disk EXCEPT ![c] =
                    [cursor |-> h.cursor, known |-> disk[c].known \cup Known(h.fired) \cup h.opened]]
      /\ wire' = [wire EXCEPT ![c] = Tail(wire[c])]
      /\ UNCHANGED <<fleet, hub, linkButWire>>
  BY DEF ReceiveEvent
<1> HIDE DEF h
<1>2. /\ mem' = [d \in Clients |-> mem'[d]] /\ disk' = [d \in Clients |-> disk'[d]]
      /\ \A d \in Clients \ {c} : mem'[d] = mem[d] /\ disk'[d] = disk[d]
      /\ DOMAIN mem'[c] = DOMAIN mem[c] /\ mem'[c].batch = None
      /\ DOMAIN disk'[c] = {"cursor", "known"}
  <2>1. DOMAIN mem[c] = {"batch", "alert", "synced", "resent", "view", "read", "spent"}
    BY MemoryFields DEF IInv, Types
  <2>2. mem'[c] = IF Head(wire[c]).type = "sync" THEN [m EXCEPT !.alert = FALSE, !.synced = TRUE] ELSE m
    BY <1>1 DEF IInv, Types
  <2>3. disk'[c] = [cursor |-> h.cursor, known |-> disk[c].known \cup Known(h.fired) \cup h.opened]
    BY <1>1 DEF IInv, Types
  <2>4. /\ mem' = [d \in Clients |-> mem'[d]] /\ disk' = [d \in Clients |-> disk'[d]]
        /\ \A d \in Clients \ {c} : mem'[d] = mem[d] /\ disk'[d] = disk[d]
    BY <1>1 DEF IInv, Types
  <2> QED BY <2>1, <2>2, <2>3, <2>4
<1>3. s \in 0..MaxSeq /\ s \in Nat /\ sub[c].upto \in Nat /\ epoch \in 1..MaxEpochs
  BY SubType DEF IInv, Types
<1>4. <<epoch, s>> \in Cursors
  BY <1>3 DEF Cursors
<1>5. Types'
  <2>1. wire' \in [Clients -> Seq(Messages)]
    BY <1>1, TailsType
  <2>2. \A d \in Clients : /\ DOMAIN mem'[d] = DOMAIN NoMemory
                           /\ mem'[d].synced \in BOOLEAN
                           /\ mem'[d].batch \in Batches \cup {None}
                           /\ DOMAIN disk'[d] = {"cursor", "known"}
                           /\ disk'[d].cursor \in Cursors \cup {None}
    <3> TAKE d \in Clients
    <3>1. CASE d # c
      BY <1>2, <3>1 DEF IInv, Types
    <3>2. CASE d = c
      <4>1. DOMAIN mem[c] = DOMAIN NoMemory
        BY DEF IInv, Types
      <4> QED BY <1>2, <1>4, <3>2, <4>1
    <3> QED BY <3>1, <3>2
  <2>3. DOMAIN NoMemory' = DOMAIN NoMemory
    BY DEF NoMemory, Memory
  <2> QED BY <1>1, <1>2, <2>1, <2>2, <2>3 DEF IInv, Types, hub, linkButWire
<1>6. /\ \A d \in Clients \ {c} :
           /\ Unmoved(d)
           /\ wire'[d] = wire[d]
           /\ PumpWaits(d)' <=> PumpWaits(d)
           /\ PumpWaits(d) => pump'.seq = pump.seq
      /\ PumpInOrder'
  BY <1>1, <1>2, OthersHear
<1>7. log' = log /\ epoch' = epoch /\ fleet' = fleet /\ sub' = sub
  BY <1>1 DEF hub, linkButWire
<1>8. LogIsTrue'
  BY <1>7 DEF IInv, LogIsTrue
<1>9. CursorsAreOfLogs'
  <2>1. ASSUME NEW d \in Clients \ {c}, disk'[d].cursor # None
        PROVE  /\ disk'[d].cursor[1] <= epoch'
               /\ Here(d)' => disk'[d].cursor[2] <= Len(log')
    BY <1>2, <1>7, <2>1 DEF IInv, CursorsAreOfLogs, Here
  <2>2. disk'[c].cursor[1] <= epoch' /\ disk'[c].cursor[2] <= Len(log')
    <3>1. Len(log) \in Nat
      BY DEF IInv, Types
    <3> QED BY <1>3, <1>7, <3>1
  <2> QED BY <2>1, <2>2 DEF CursorsAreOfLogs
<1>10. CursorKnows'
  <2> SUFFICES ASSUME NEW d \in Clients, disk'[d].cursor # None, disk'[d].cursor[1] = epoch,
                      NEW n \in 1..disk'[d].cursor[2], Asking(n)
               PROVE  log[n].ep \in disk'[d].known
    BY <1>7 DEF CursorKnows, Asking, Open
  <2>1. CASE d = c
    BY <2>1
  <2>2. CASE d # c
    BY <1>2, <2>2 DEF IInv, CursorKnows, Asking
  <2> QED BY <2>1, <2>2
<1>11. Lane(c)'
  <2>1. Here(c)'
    BY <1>4, <1>7, NoneAssumption DEF Here
  <2>2. Following(c)'
    <3>1. disk'[c].cursor[2] = s
      OBVIOUS
    <3> QED BY <1>2, <1>3, <1>7, <2>1, <3>1 DEF Following
  <2>3. Fed(c)'
    BY <1>1, <1>7, FedKept DEF AfterSubscription
  <2>4. AfterSubscription(c)'
    BY <1>1, <2>2, <2>3 DEF AfterSubscription, linkButWire
  <2> QED BY <1>7, <2>4 DEF Lane
<1>12. \A d \in Clients \ {c} : Lane(d)'
  <2>1. Grows
    BY <1>1, HubStill DEF hub
  <2>2. \A d \in Clients \ {c} : Waiting(d)' = Waiting(d)
    BY <1>6 DEF Waiting, Unmoved
  <2> QED BY <1>1, <1>5, <1>6, <2>1, <2>2, OtherLanes
<1> QED BY <1>5, <1>6, <1>8, <1>9, <1>10, <1>11, <1>12 DEF IInv

\* A message handled now is the event after the cursor, or the event_sync of
\* the replay with its batch.
LEMMA HandledInTurn ==
  ASSUME IInv, NEW c \in Clients, wire[c] # << >>, Handles(c, Head(wire[c]))
  PROVE  LET msg == Head(wire[c])
             coming == Coming(wire[c], Waiting(c)) IN
         /\ Told(msg) /\ sub[c] # None /\ AfterSubscription(c)
         /\ sub[c].upto \in Nat /\ sub[c].upto <= Len(log) /\ sub[c].upto <= MaxSeq
         /\ \/ /\ msg.type = "event" /\ mem[c].synced /\ Here(c)
               /\ disk[c].cursor[2] \in Nat /\ msg = Event(disk[c].cursor[2] + 1)
               /\ disk[c].cursor[2] + 1 <= sub[c].upto
               /\ coming \ {msg} =
                    {m \in Messages : \E n \in (disk[c].cursor[2] + 2)..sub[c].upto : m = Event(n)}
            \/ /\ msg.type = "sync" /\ ~mem[c].synced /\ mem[c].batch # None
               /\ \E s \in 0..sub[c].upto, gap \in BOOLEAN :
                    /\ msg = Sync(s, gap) /\ ReplayingTo(c, s, gap)
                    /\ coming \ {msg} = {m \in Messages : \E n \in (s + 1)..sub[c].upto : m = Event(n)}
                    /\ Batched(c, s) = {n \in 1..s : \E i \in DOMAIN mem[c].batch : mem[c].batch[i] = n}
<1> DEFINE msg == Head(wire[c])
           coming == Coming(wire[c], Waiting(c))
           upto == sub[c].upto
<1>1. Told(msg)
  BY DEF Handles, Told
<1>2. /\ msg \in Messages /\ msg \in coming
      /\ sub[c] # None /\ AfterSubscription(c)
      /\ upto \in Nat /\ upto <= Len(log) /\ upto <= MaxSeq
  BY <1>1, ToldIsSubscribed
<1>3. \A m \in coming \ {msg} : Key(msg) < Key(m)
  <2> DEFINE w == wire[c]
             r == Waiting(c)
  <2>1. w \in Seq(Messages) /\ r \in Seq(Messages) /\ InTurn(w, r) /\ w # << >> /\ Told(Head(w))
    BY <1>1, WaitingType DEF IInv, Lane
  <2> HIDE DEF w, r
  <2>2. /\ Coming(Tail(w), r) = Coming(w, r) \ {Head(w)}
        /\ \A m \in Coming(Tail(w), r) : Key(Head(w)) < Key(m)
    BY <2>1, TakingKeeps
  <2> QED BY <2>2 DEF w, r
<1> HIDE DEF coming, msg, upto
<1>4. CASE mem[c].synced
  <2> DEFINE s == disk[c].cursor[2]
  <2>1. /\ mem[c].batch = None /\ Here(c) /\ s <= upto
        /\ coming = {m \in Messages : \E n \in (s + 1)..upto : m = Event(n)}
    BY <1>2, <1>4 DEF AfterSubscription, Following, coming, upto
  <2>2. s \in Nat
    BY <2>1 DEF IInv, Types, Cursors, Here
  <2> HIDE DEF s
  <2>3. PICK n \in (s + 1)..upto : msg = Event(n)
    BY <1>2, <2>1
  <2>4. n \in 1..MaxSeq /\ n \in Nat /\ n >= s + 1
    BY <1>2, <2>2
  <2>5. msg.type = "event" /\ Key(msg) = 2 * n
    BY <2>3, <2>4, ToldMessages
  <2>6. n = s + 1
    <3>1. s + 1 \in 1..MaxSeq /\ s + 1 \in (s + 1)..upto
      BY <1>2, <2>2, <2>4
    <3>2. Event(s + 1) \in coming /\ Key(Event(s + 1)) = 2 * (s + 1)
      BY <2>1, <3>1, ToldMessages
    <3>3. Event(s + 1) # msg => 2 * n < 2 * (s + 1)
      BY <1>3, <2>5, <3>2
    <3>4. Event(s + 1) = msg => n = s + 1
      BY <2>3 DEF Event
    <3> QED BY <2>2, <2>4, <3>3, <3>4
  <2>7. coming \ {msg} = {m \in Messages : \E k \in (s + 2)..upto : m = Event(k)}
    <3>1. \A k : k \in (s + 1)..upto <=> k = s + 1 \/ k \in (s + 2)..upto
      BY <1>2, <2>2, <2>4, <2>6
    <3>2. \A k \in (s + 2)..upto : Event(k) # msg
      BY <2>2, <2>3, <2>6 DEF Event
    <3> QED BY <2>1, <2>3, <2>6, <3>1, <3>2
  <2>8. s + 1 <= upto
    BY <1>2, <2>2, <2>4
  <2> QED BY <1>1, <1>2, <1>4, <2>1, <2>2, <2>3, <2>5, <2>6, <2>7, <2>8 DEF coming, msg, upto, s
<1>5. CASE ~mem[c].synced
  <2>1. mem[c].batch # None /\ \E s \in 0..upto, gap \in BOOLEAN : ReplayingTo(c, s, gap)
    BY <1>2, <1>5 DEF AfterSubscription, Replaying, upto
  <2>2. PICK s \in 0..upto, gap \in BOOLEAN : ReplayingTo(c, s, gap)
    BY <2>1
  <2>3. s \in Nat /\ s \in 0..MaxSeq
    BY <1>2
  <2>4. msg.type = "sync"
    BY <2>1 DEF Handles, msg
  <2>5. /\ Sync(s, gap) \in coming
        /\ \A x \in coming : x = Sync(s, gap) \/ \E n \in 1..upto : x = Event(n)
        /\ \A n \in (s + 1)..upto : Event(n) \in coming
    BY <2>2 DEF ReplayingTo, coming, upto
  <2>6. msg = Sync(s, gap)
    <3>1. \A n : Event(n).type = "event"
      BY DEF Event
    <3> QED BY <1>2, <2>4, <2>5, <3>1
  <2>7. Key(msg) = 2 * s + 1
    BY <2>3, <2>6, ToldMessages
  <2>8. \A n \in 1..s : Event(n) \notin coming
    <3> SUFFICES ASSUME NEW n \in 1..s, Event(n) \in coming PROVE FALSE
      OBVIOUS
    <3>1. n \in 1..MaxSeq /\ n <= s /\ n \in Nat
      BY <2>3
    <3>2. Key(Event(n)) = 2 * n /\ Event(n).type = "event"
      BY <3>1, ToldMessages
    <3>3. Key(msg) < Key(Event(n))
      BY <1>3, <2>4, <3>2
    <3> QED BY <2>3, <2>7, <3>1, <3>2, <3>3
  <2>9. coming \ {msg} = {m \in Messages : \E n \in (s + 1)..upto : m = Event(n)}
    <3>1. ASSUME NEW x \in coming, x # msg PROVE x \in Messages /\ \E n \in (s + 1)..upto : x = Event(n)
      <4>1. PICK n \in 1..upto : x = Event(n)
        BY <2>5, <2>6, <3>1
      <4>2. n \in (s + 1)..upto
        BY <1>2, <2>3, <2>8, <3>1, <4>1
      <4>3. x \in Messages
        BY <3>1 DEF coming, Coming
      <4> QED BY <4>1, <4>2, <4>3
    <3>2. ASSUME NEW n \in (s + 1)..upto PROVE Event(n) \in coming /\ Event(n) # msg
      BY <2>4, <2>5, <3>2 DEF Event
    <3> QED BY <3>1, <3>2
  <2>10. Batched(c, s) = {n \in 1..s : \E i \in DOMAIN mem[c].batch : mem[c].batch[i] = n}
    BY <2>8 DEF Batched, coming
  <2> QED BY <1>1, <1>2, <1>5, <2>1, <2>2, <2>4, <2>6, <2>9, <2>10 DEF coming, msg, upto
<1> QED BY <1>4, <1>5

LEMMA ReceiveEventIInv ==
  ASSUME IInv, NEW c \in Clients, ReceiveEvent(c)
  PROVE  IInv'
<1> DEFINE msg == Head(wire[c])
           h == Handling(c, msg)
           upto == sub[c].upto
<1>1. wire[c] # << >> /\ Handles(c, msg)
  BY DEF ReceiveEvent
<1> DEFINE mm == [mem[c] EXCEPT !.read = h.read, !.spent = h.spent, !.batch = None]
<1>2. /\ UNCHANGED <<hub, linkButWire>> /\ wire' = [wire EXCEPT ![c] = Tail(wire[c])]
      /\ mem'[c].synced = (mem[c].synced \/ msg.type = "sync")
      /\ disk'[c] = [cursor |-> h.cursor, known |-> disk[c].known \cup Known(h.fired) \cup h.opened]
  <2>1. DOMAIN mem[c] = {"batch", "alert", "synced", "resent", "view", "read", "spent"}
        /\ mem[c].synced \in BOOLEAN
    BY MemoryFields DEF IInv, Types
  <2>2. /\ UNCHANGED <<hub, linkButWire>> /\ wire' = [wire EXCEPT ![c] = Tail(wire[c])]
        /\ mem' = [mem EXCEPT ![c] = IF msg.type = "sync" THEN [mm EXCEPT !.alert = FALSE, !.synced = TRUE]
                                     ELSE mm]
        /\ disk' = [disk EXCEPT ![c] =
                      [cursor |-> h.cursor, known |-> disk[c].known \cup Known(h.fired) \cup h.opened]]
    BY DEF ReceiveEvent
  <2> HIDE DEF h, msg
  <2>3. mem'[c] = IF msg.type = "sync" THEN [mm EXCEPT !.alert = FALSE, !.synced = TRUE] ELSE mm
    BY <2>2 DEF IInv, Types
  <2>4. mem'[c].synced = (mem[c].synced \/ msg.type = "sync")
    BY <2>1, <2>3
  <2>5. disk'[c] = [cursor |-> h.cursor, known |-> disk[c].known \cup Known(h.fired) \cup h.opened]
    BY <2>2 DEF IInv, Types
  <2> QED BY <2>2, <2>4, <2>5
<1> HIDE DEF mm
<1>3. disk'[c].cursor = h.cursor /\ disk[c].known \cup h.opened \subseteq disk'[c].known
  BY <1>2
<1>4. /\ Told(msg) /\ sub[c] # None /\ AfterSubscription(c)
      /\ upto \in Nat /\ upto <= Len(log) /\ upto <= MaxSeq
  BY <1>1, HandledInTurn
<1>5. /\ Waiting(c)' = Waiting(c) /\ InTurn(wire[c], Waiting(c))'
      /\ Coming(wire[c], Waiting(c))' = Coming(wire[c], Waiting(c)) \ {msg}
  BY <1>1, <1>2, <1>4, Taken
<1>6. CASE msg.type = "event"
  <2> DEFINE s == disk[c].cursor[2] + 1
  <2>1. /\ mem[c].synced /\ Here(c) /\ disk[c].cursor[2] \in Nat /\ msg = Event(s) /\ s <= upto
        /\ Coming(wire[c], Waiting(c)) \ {msg} =
             {m \in Messages : \E n \in (disk[c].cursor[2] + 2)..upto : m = Event(n)}
    BY <1>1, <1>6, HandledInTurn
  <2>2. msg.seq = s
    BY <2>1 DEF Event
  <2>3. h.cursor = <<epoch, s>> /\ (log[s].kind = "blocked" => log[s].ep \in h.opened)
    BY <1>6, <2>2, HandlingSaves
  <2>4. \A n \in 1..s : Asking(n) => log[n].ep \in disk'[c].known
    <3> SUFFICES ASSUME NEW n \in 1..s, Asking(n) PROVE log[n].ep \in disk'[c].known
      OBVIOUS
    <3>1. CASE n \in 1..disk[c].cursor[2]
      BY <1>3, <2>1, <3>1 DEF IInv, CursorKnows, Here, Asking
    <3>2. CASE n = s
      BY <1>3, <2>3, <3>2 DEF Asking
    <3> QED BY <2>1, <3>1, <3>2
  <2>5. s \in 0..upto /\ s + 1 = disk[c].cursor[2] + 2
    BY <1>4, <2>1
  <2>6. mem'[c].synced = TRUE
    BY <1>2, <2>1
  <2>7. disk'[c].cursor = <<epoch, s>>
    BY <1>3, <2>3
  <2>8. Coming(wire[c], Waiting(c))' = {m \in Messages : \E n \in (s + 1)..upto : m = Event(n)}
    BY <1>5, <2>1, <2>5
  <2> HIDE DEF s, h, msg
  <2> QED BY <1>4, <1>5, <2>4, <2>5, <2>6, <2>7, <2>8, FollowsFrom
<1>7. CASE msg.type = "sync"
  <2>1. /\ mem[c].batch # None
        /\ \E s \in 0..upto, gap \in BOOLEAN :
             /\ msg = Sync(s, gap) /\ ReplayingTo(c, s, gap)
             /\ Coming(wire[c], Waiting(c)) \ {msg} =
                  {m \in Messages : \E n \in (s + 1)..upto : m = Event(n)}
             /\ Batched(c, s) = {n \in 1..s : \E i \in DOMAIN mem[c].batch : mem[c].batch[i] = n}
    BY <1>1, <1>7, HandledInTurn
  <2>2. PICK s \in 0..upto, gap \in BOOLEAN :
             /\ msg = Sync(s, gap) /\ ReplayingTo(c, s, gap)
             /\ Coming(wire[c], Waiting(c)) \ {msg} =
                  {m \in Messages : \E n \in (s + 1)..upto : m = Event(n)}
             /\ Batched(c, s) = {n \in 1..s : \E i \in DOMAIN mem[c].batch : mem[c].batch[i] = n}
    BY <2>1
  <2>3. msg.seq = s /\ s \in Nat /\ s <= Len(log) /\ Len(log) \in Nat
    <3>1. Len(log) \in Nat
      BY DEF IInv, Types
    <3> QED BY <1>4, <2>2, <3>1 DEF Sync
  <2>4. h.cursor = <<epoch, s>> /\ h.opened = {log[mem[c].batch[i]].ep : i \in StillOpen(mem[c].batch)}
    BY <1>7, <2>1, <2>3, HandlingSaves
  <2>5. mem[c].batch \in Seq(1..Len(log))
    <3>1. mem[c].batch \in Seq(1..MaxSeq)
      BY <2>1 DEF IInv, Types, Batches
    <3>2. \A i \in DOMAIN mem[c].batch : mem[c].batch[i] <= s
      BY <2>2 DEF ReplayingTo
    <3> DEFINE b == mem[c].batch
    <3> HIDE DEF b
    <3>3. \A i \in DOMAIN b : b[i] \in 1..Len(log)
      BY <2>3, <3>1, <3>2 DEF b
    <3>4. b \in Seq(1..Len(log))
      BY <3>1, <3>3 DEF b
    <3> QED BY <3>4 DEF b
  <2>6. \A n \in 1..s : Asking(n) => log[n].ep \in disk'[c].known
    <3> SUFFICES ASSUME NEW n \in 1..s, Asking(n) PROVE log[n].ep \in disk'[c].known
      OBVIOUS
    <3>1. CASE Here(c) /\ n <= disk[c].cursor[2]
      <4>1. disk[c].cursor[2] \in Nat
        BY <3>1 DEF IInv, Types, Cursors, Here
      <4>2. n \in 1..disk[c].cursor[2]
        BY <3>1, <4>1
      <4> QED BY <1>3, <3>1, <4>2 DEF IInv, CursorKnows, Here, Asking
    <3>2. CASE \E p \in Batched(c, s) : log[p].kind = "blocked" /\ log[p].ep = log[n].ep
      <4>1. PICK i \in DOMAIN mem[c].batch :
              log[mem[c].batch[i]].kind = "blocked" /\ log[mem[c].batch[i]].ep = log[n].ep
        BY <2>2, <3>2
      <4>2. Asking(mem[c].batch[i])
        BY <4>1 DEF Asking
      <4>3. PICK j \in StillOpen(mem[c].batch) : log[mem[c].batch[j]].ep = log[mem[c].batch[i]].ep
        BY <2>5, <4>2, BatchTells
      <4> QED BY <1>3, <2>4, <4>1, <4>3
    <3> QED BY <2>2, <3>1, <3>2 DEF ReplayingTo
  <2>7. mem'[c].synced = TRUE
    BY <1>2, <1>7
  <2>8. disk'[c].cursor = <<epoch, s>>
    BY <1>3, <2>4
  <2>9. Coming(wire[c], Waiting(c))' = {m \in Messages : \E n \in (s + 1)..upto : m = Event(n)}
    BY <1>5, <2>2
  <2> HIDE DEF h, msg
  <2> QED BY <1>4, <1>5, <2>6, <2>7, <2>8, <2>9, FollowsFrom
<1> QED BY <1>1, <1>6, <1>7 DEF Handles

-----------------------------------------------------------------------------
(* The theorems.                                                           *)

LEMMA InitIInv ==
  ASSUME Init
  PROVE  IInv
<1>1. /\ fleet = [ep \in Episodes |-> [state |-> "new", asks |-> 0, done |-> 0]]
      /\ epoch = 1 /\ log = << >> /\ low = 1 /\ queue = << >> /\ pump = None
      /\ sub = [c \in Clients |-> None]
      /\ conn = [c \in Clients |-> "down"]
      /\ listing = [c \in Clients |-> None]
      /\ wire = [c \in Clients |-> << >>]
      /\ uplink = [c \in Clients |-> << >>]
      /\ mem = [c \in Clients |-> NoMemory]
      /\ disk = [c \in Clients |-> [cursor |-> None, known |-> {}]]
  BY DEF Init
<1>2. NoMemory.batch = None /\ NoMemory.synced = FALSE
  BY DEF NoMemory, Memory
<1>3. Types
  <2>1. << >> \in Seq(Frames) /\ Len(<< >>) = 0 /\ << >> \in Seq(1..MaxSeq)
    OBVIOUS
  <2>2. /\ epoch \in 1..MaxEpochs /\ log \in Seq(Frames) /\ Len(log) <= MaxSeq
        /\ low \in 1..(Len(log) + 1)
        /\ queue \in Seq(1..MaxSeq)
    BY <1>1, <2>1
  <2>3. fleet \in [Episodes -> [state : {"new", "open", "over"},
                                asks : 0..MaxQuestions, done : 0..MaxQuestions]]
    BY <1>1
  <2>4. /\ sub \in [Clients -> Subs \cup {None}]
        /\ conn \in [Clients -> {"down", "joining", "up"}]
        /\ wire \in [Clients -> Seq(Messages)]
        /\ listing \in [Clients -> [ok : BOOLEAN, panes : SUBSET Episodes] \cup {None}]
        /\ uplink = [c \in Clients |-> uplink[c]]
        /\ mem = [c \in Clients |-> mem[c]]
        /\ disk = [c \in Clients |-> disk[c]]
    BY <1>1, SilentWire
  <2>5. \A c \in Clients : /\ DOMAIN mem[c] = DOMAIN NoMemory
                           /\ mem[c].synced \in BOOLEAN
                           /\ mem[c].batch \in Batches \cup {None}
                           /\ DOMAIN disk[c] = {"cursor", "known"}
                           /\ disk[c].cursor \in Cursors \cup {None}
    BY <1>1, <1>2
  <2>6. \A ep \in Episodes : fleet[ep].state # "new" => fleet[ep].asks # 0
    BY <1>1
  <2> QED BY <1>1, <2>2, <2>3, <2>4, <2>5, <2>6 DEF Types
<1>4. LogIsTrue /\ PumpInOrder /\ CursorsAreOfLogs /\ CursorKnows
  BY <1>1 DEF LogIsTrue, PumpInOrder, CursorsAreOfLogs, CursorKnows
<1>5. ASSUME NEW c \in Clients PROVE Lane(c)
  <2>1. Waiting(c) = << >>
    BY <1>1 DEF Waiting, PumpWaits
  <2>2. BeforeSubscription(c)
    BY <1>1, <1>2, <2>1, SilentWire DEF BeforeSubscription
  <2> QED BY <1>1, <2>1, <2>2, SilentWire DEF Lane
<1> QED BY <1>3, <1>4, <1>5 DEF IInv

LEMMA StandingStill ==
  ASSUME IInv, UNCHANGED vars
  PROVE  IInv'
<1>1. /\ UNCHANGED <<fleet, epoch, log, low, queue, pump, sub, conn, connects, listing, wire, uplink>>
      /\ UNCHANGED <<mem, disk, alerted>>
  BY DEF vars, hub, link, runtime
<1>2. Types' /\ LogIsTrue' /\ PumpInOrder' /\ CursorsAreOfLogs' /\ CursorKnows'
  BY <1>1 DEF IInv, Types, LogIsTrue, PumpInOrder, CursorsAreOfLogs, CursorKnows, Here, Open
<1>3. ASSUME NEW c \in Clients PROVE Lane(c)'
  <2>1. Grows
    BY <1>1, HubStill
  <2>2. Unmoved(c) /\ wire'[c] = wire[c] /\ Waiting(c)' = Waiting(c)
    BY <1>1 DEF Unmoved, Waiting, PumpWaits
  <2>3. sub[c] # None => Fed(c)'
    BY <1>1, FedAll, FedKept DEF hub
  <2> QED BY <1>2, <2>1, <2>2, <2>3, LaneUntouched DEF IInv
<1> QED BY <1>2, <1>3 DEF IInv

LEMMA StepIInv ==
  ASSUME ~Watchdog, IInv, [Next]_vars
  PROVE  IInv'
<1>1. ASSUME Fleet PROVE IInv'
  BY <1>1, BlocksIInv, AsksNextIInv, AnnounceIInv, AnsweredIInv, UnblocksIInv DEF Fleet
<1>2. ASSUME NEW c \in Clients, Connect(c) PROVE IInv'
  BY <1>2, ConnectIInv
<1>3. ASSUME NEW c \in Clients, Bridge(c) PROVE IInv'
  BY <1>3, PumpSendIInv, RegisterIInv, ListPanesIInv, SubscribeIInv, SendReplayIInv, CatchUpIInv
     DEF Bridge
<1>4. ASSUME NEW c \in Clients, Receive(c) PROVE IInv'
  BY <1>4, ReceiveSnapshotIInv, ReceiveBatchedIInv, ReceiveEventIInv DEF Receive
<1>5. ASSUME NEW c \in Clients, Fault(c) PROVE IInv'
  <2>1. ~Resubscribe(c)
    BY DEF Resubscribe
  <2> QED BY <1>5, <2>1, DropIInv, CrashIInv, CrashAlertingIInv DEF Fault
<1> QED BY <1>1, <1>2, <1>3, <1>4, <1>5, PumpTakeIInv, BridgeRestartIInv, StandingStill DEF Next

\* While the watchdog does not fire, everything on its way to a runtime follows
\* its cursor without a hole, over reconnects, crashes, bridge restarts and a
\* ring that forgets: the inductive invariant.
THEOREM LanesAreWhole ==
  ASSUME ~Watchdog
  PROVE  Spec => []IInv
<1>1. Init => IInv
  BY InitIInv
<1>2. IInv /\ [Next]_vars => IInv'
  BY StepIInv
<1> QED BY <1>1, <1>2, PTL DEF Spec

\* A runtime never moves its cursor past the blocked event of an episode that
\* is still open without knowing that episode.
THEOREM CursorsKnow ==
  ASSUME ~Watchdog
  PROVE  Spec => []CursorKnows
<1>1. IInv => CursorKnows
  BY DEF IInv
<1> QED BY <1>1, LanesAreWhole, PTL

\* Only handling a message moves a cursor.
LEMMA CursorMoves ==
  ASSUME IInv, Next, NEW c \in Clients
  PROVE  disk'[c].cursor = disk[c].cursor \/ ReceiveEvent(c)
<1>1. ASSUME Fleet PROVE UNCHANGED disk
  BY <1>1 DEF Fleet, Blocks, AsksNext, Announce, Answered, Unblocks, runtime
<1>2. ASSUME PumpTake \/ BridgeRestart PROVE UNCHANGED disk
  BY <1>2 DEF PumpTake, BridgeRestart, runtime
<1>3. ASSUME NEW d \in Clients, Connect(d) \/ Bridge(d) PROVE UNCHANGED disk
  BY <1>3 DEF Connect, Bridge, PumpSend, Register, ListPanes, Subscribe, SendReplay, CatchUp, runtime
<1>4. ASSUME NEW d \in Clients, ReceiveSnapshot(d) \/ ReceiveBatched(d) PROVE UNCHANGED disk
  BY <1>4 DEF ReceiveSnapshot, ReceiveBatched
<1>5. ASSUME NEW d \in Clients, ReceiveEvent(d), d # c PROVE disk'[c] = disk[c]
  BY <1>5 DEF ReceiveEvent, IInv, Types
<1>6. ASSUME NEW d \in Clients, Drop(d) \/ Resubscribe(d) \/ Crash(d) PROVE UNCHANGED disk
  BY <1>6 DEF Drop, Resubscribe, Crash
<1>7. ASSUME NEW d \in Clients, CrashAlerting(d) PROVE disk'[c].cursor = disk[c].cursor
  <2>1. PICK more : disk' = [disk EXCEPT ![d].known = @ \cup more]
    BY <1>7 DEF CrashAlerting
  <2> QED BY <2>1, DiskFields
<1>8. CASE \E d \in Clients : Connect(d) \/ Bridge(d) \/ Receive(d) \/ Fault(d)
  BY <1>3, <1>4, <1>5, <1>6, <1>7, <1>8 DEF Receive, Fault
<1> QED BY <1>1, <1>2, <1>8 DEF Next

\* A step of the running bridge moves a cursor by one, or by a batch.
LEMMA StepSkipsNone ==
  ASSUME IInv, Next
  PROVE  SkipsNone
<1> SUFFICES ASSUME NEW c \in Clients, disk[c].cursor # None, disk'[c].cursor # disk[c].cursor,
                    disk'[c].cursor[1] = disk[c].cursor[1]
             PROVE  \/ disk'[c].cursor[2] <= disk[c].cursor[2] + 1
                    \/ Head(wire[c]).type = "sync" /\ Head(wire[c]).gap
                    \/ /\ mem[c].batch # None
                       /\ (disk[c].cursor[2] + 1)..disk'[c].cursor[2]
                            \subseteq {mem[c].batch[i] : i \in DOMAIN mem[c].batch}
  BY DEF SkipsNone
<1> DEFINE msg == Head(wire[c])
<1>1. ReceiveEvent(c)
  BY CursorMoves
<1>2. wire[c] # << >> /\ Handles(c, msg) /\ disk'[c].cursor = Handling(c, msg).cursor
  BY <1>1 DEF ReceiveEvent, IInv, Types
<1>3. disk'[c].cursor = <<epoch, msg.seq>>
  BY <1>2, HandlingSaves
<1>4. Here(c)
  BY <1>3 DEF Here
<1>5. CASE msg.type = "event"
  <2>1. disk[c].cursor[2] \in Nat /\ msg = Event(disk[c].cursor[2] + 1)
    BY <1>2, <1>5, HandledInTurn
  <2>2. msg.seq = disk[c].cursor[2] + 1
    BY <2>1 DEF Event
  <2>3. disk'[c].cursor[2] = disk[c].cursor[2] + 1
    BY <1>3, <2>2
  <2> QED BY <2>1, <2>3
<1>6. CASE msg.type = "sync"
  <2>1. /\ mem[c].batch # None
        /\ \E s \in 0..sub[c].upto, gap \in BOOLEAN :
             /\ msg = Sync(s, gap) /\ ReplayingTo(c, s, gap)
             /\ Batched(c, s) = {n \in 1..s : \E i \in DOMAIN mem[c].batch : mem[c].batch[i] = n}
    BY <1>2, <1>6, HandledInTurn
  <2>2. PICK s \in 0..sub[c].upto, gap \in BOOLEAN :
             /\ msg = Sync(s, gap) /\ ReplayingTo(c, s, gap)
             /\ Batched(c, s) = {n \in 1..s : \E i \in DOMAIN mem[c].batch : mem[c].batch[i] = n}
    BY <2>1
  <2>3. msg.seq = s /\ msg.gap = gap
    BY <2>2 DEF Sync
  <2>4. CASE gap
    BY <1>6, <2>3, <2>4
  <2>5. CASE ~gap
    <3>1. (disk[c].cursor[2] + 1)..s \subseteq Batched(c, s)
      BY <1>4, <2>2, <2>5 DEF ReplayingTo
    <3>2. disk'[c].cursor[2] = s
      BY <1>3, <2>3
    <3> QED BY <2>1, <2>2, <3>1, <3>2
  <2> QED BY <2>4, <2>5
<1> QED BY <1>2, <1>5, <1>6 DEF Handles

\* Nothing is lost while a runtime sleeps or reconnects: its cursor moves over
\* an event only by handling it, unless the bridge said that there is a gap.
THEOREM NothingSkipped ==
  ASSUME ~Watchdog
  PROVE  Spec => NeverSkips
<1>1. IInv /\ [Next]_vars => [SkipsNone]_vars
  BY StepSkipsNone
<1> QED BY <1>1, LanesAreWhole, PTL DEF Spec, NeverSkips

-----------------------------------------------------------------------------
(* Induction over the numbers, and a replay handled event by event.        *)

\* A set of numbers that is not empty has a least one.
LEMMA LeastNumber ==
  ASSUME NEW T \in SUBSET Nat, T # {}
  PROVE  \E n \in T : \A m \in T : n <= m
<1> DEFINE R == {ss \in Nat \X Nat : ss[1] < ss[2]}
<1>1. IsWellFoundedOn(OpToRel(<, Nat), Nat)
  BY NatLessThanWellFounded
<1>2. OpToRel(<, Nat) = R
  BY DEF OpToRel
<1>3. IsWellFoundedOn(R, Nat)
  BY <1>1, <1>2
<1> HIDE DEF R
<1>4. PICK n \in T : \A m \in T : <<m, n>> \notin R
  BY <1>3, WFMin
<1>5. \A m \in T : n <= m
  <2> SUFFICES ASSUME NEW m \in T PROVE n <= m
    OBVIOUS
  <2>1. <<m, n>> \notin R
    BY <1>4
  <2>2. <<m, n>> \in Nat \X Nat /\ <<m, n>>[1] = m /\ <<m, n>>[2] = n
    OBVIOUS
  <2>3. ~(m < n)
    BY <2>1, <2>2 DEF R
  <2> QED BY <2>3
<1> QED BY <1>5

LEMMA Induction ==
  ASSUME NEW S, 0 \in S, \A n \in Nat : n \in S => n + 1 \in S
  PROVE  Nat \subseteq S
<1> SUFFICES ASSUME Nat \ S # {} PROVE FALSE
  OBVIOUS
<1>1. PICK n \in Nat \ S : \A m \in Nat \ S : n <= m
  BY LeastNumber
<1>2. n # 0 /\ n - 1 \in Nat /\ n - 1 \in S
  BY <1>1
<1>3. (n - 1) + 1 \in S
  BY <1>2
<1> QED BY <1>1, <1>2, <1>3

\* The recursion of HandledUpTo has a solution: one event after the other.
LEMMA HandledRecursion ==
  ASSUME NEW c \in Clients, NEW batch, Len(batch) \in Nat
  PROVE  /\ HandledUpTo(c, batch)[0] = State(mem[c])
         /\ \A k \in 1..Len(batch) :
              HandledUpTo(c, batch)[k] =
                Handle(HandledUpTo(c, batch)[k - 1], mem[c].view, log[batch[k]], FALSE)
<1> DEFINE next(s, k) == Handle(s, mem[c].view, log[batch[k]], FALSE)
           Solves(g, n) == g = [k \in 0..n |-> IF k = 0 THEN State(mem[c]) ELSE next(g[k - 1], k)]
           S == {n \in Nat : \E g : Solves(g, n)}
<1> HIDE DEF next
<1>1. 0 \in S
  <2> DEFINE g == [k \in 0..0 |-> State(mem[c])]
  <2>1. Solves(g, 0)
    OBVIOUS
  <2> QED BY <2>1
<1>2. ASSUME NEW n \in Nat, n \in S
      PROVE  n + 1 \in S
  <2>1. PICK g : Solves(g, n)
    BY <1>2
  <2> DEFINE h == [k \in 0..n + 1 |-> IF k = n + 1 THEN next(g[n], k) ELSE g[k]]
  <2>2. \A k \in 0..n : h[k] = g[k]
    OBVIOUS
  <2>3. ASSUME NEW k \in 0..n + 1
        PROVE  h[k] = IF k = 0 THEN State(mem[c]) ELSE next(h[k - 1], k)
    <3>1. CASE k = n + 1
      <4>1. h[k] = next(g[n], k) /\ k # 0 /\ k - 1 = n
        BY <3>1
      <4>2. h[n] = g[n]
        BY <2>2
      <4> HIDE DEF h
      <4> QED BY <4>1, <4>2
    <3>2. CASE k \in 0..n
      <4>1. h[k] = g[k]
        BY <2>2, <3>2
      <4>2. g[k] = IF k = 0 THEN State(mem[c]) ELSE next(g[k - 1], k)
        BY <2>1, <3>2
      <4>3. k # 0 => k - 1 \in 0..n
        BY <3>2
      <4>4. k # 0 => h[k - 1] = g[k - 1]
        BY <2>2, <4>3
      <4> HIDE DEF h
      <4> QED BY <4>1, <4>2, <4>4
    <3> QED BY <3>1, <3>2
  <2>4. Solves(h, n + 1)
    <3>1. h = [k \in 0..n + 1 |-> h[k]]
      OBVIOUS
    <3> HIDE DEF h
    <3> QED BY <2>3, <3>1
  <2> HIDE DEF h, Solves
  <2> QED BY <2>4
<1>3. Nat \subseteq S
  <2> HIDE DEF S
  <2> QED BY <1>1, <1>2, Induction
<1> DEFINE n == Len(batch)
           H == CHOOSE g : Solves(g, n)
<1>4. Solves(H, n)
  <2>1. \E g : Solves(g, n)
    BY <1>3
  <2> HIDE DEF Solves
  <2> QED BY <2>1
<1>5. HandledUpTo(c, batch) = H
  BY DEF HandledUpTo, next
<1> HIDE DEF H
<1>6. \A k \in 0..n : H[k] = IF k = 0 THEN State(mem[c]) ELSE next(H[k - 1], k)
  BY <1>4
<1>7. /\ 0 \in 0..n
      /\ \A k \in 1..n : k \in 0..n /\ k # 0
  OBVIOUS
<1> QED BY <1>5, <1>6, <1>7 DEF next

-----------------------------------------------------------------------------
(* Alerts.  A question is alerted once because what is still to be handled *)
(* never asks an earlier question than the ones the runtime shows or       *)
(* alerted, and because an episode is known as soon as it is alerted.      *)

\* What handling builds up: questions shown, answered episodes, and alerts.
Asks == Episodes \X Questions
Handlings == [read : [Episodes -> 0..MaxQuestions], spent : SUBSET Episodes, fired : Seq(Asks)]

\* Was question x alerted before or in `fired`?
Alerted(c, fired, x) == alerted[c][x] > 0 \/ \E i \in DOMAIN fired : fired[i] = x

\* The question shown is not older than the ones alerted, unless none is shown.
Shows(c, s) ==
  \A x \in Asks : Alerted(c, s.fired, x) => s.read[x[1]] = 0 \/ x[2] <= s.read[x[1]]

\* Frame f asks no earlier question than the ones shown or alerted.
OnTime(c, s, f) ==
  /\ s.read[f.ep] <= f.q
  /\ \A q \in Questions : Alerted(c, s.fired, <<f.ep, q>>) => q <= f.q

\* Once(s): no alert is repeated, in `fired` or from before.
AllNew(c, fired) ==
  /\ \A i, j \in DOMAIN fired : fired[i] = fired[j] => i = j
  /\ \A i \in DOMAIN fired : alerted[c][fired[i]] = 0

LEMMA FrameParts ==
  ASSUME NEW f \in Frames
  PROVE  /\ f.kind \in Kinds /\ f.ep \in Episodes /\ f.q \in Questions
         /\ <<f.ep, f.q>> \in Asks /\ <<f.ep, f.q>>[1] = f.ep /\ <<f.ep, f.q>>[2] = f.q
         /\ f.q \in 1..MaxQuestions
  BY DEF Frames, Asks, Questions

Shown(s, f) == [s.read EXCEPT ![f.ep] = f.q]

LEMMA HandleBlocked ==
  ASSUME NEW s \in Handlings, NEW view, NEW f \in Frames, NEW alert \in BOOLEAN,
         f.kind = "blocked", f.ep \in view
  PROVE  LET m == Handle(s, view, f, alert)
             reopens == s.read[f.ep] \notin {0, f.q} /\ f.ep \in s.spent IN
         /\ m = [read |-> Shown(s, f),
                 spent |-> IF reopens THEN s.spent \ {f.ep} ELSE s.spent,
                 fired |-> IF alert \/ reopens THEN Append(s.fired, <<f.ep, f.q>>) ELSE s.fired]
  BY DEF Handle, Shown

LEMMA HandleOther ==
  ASSUME NEW s \in Handlings, NEW view, NEW f \in Frames, NEW alert \in BOOLEAN,
         ~(f.kind = "blocked" /\ f.ep \in view)
  PROVE  LET m == Handle(s, view, f, alert) IN
         \/ f.kind = "answered" /\ m = [s EXCEPT !.spent = @ \cup {f.ep}]
         \/ f.kind = "unblocked" /\ m = [s EXCEPT !.read[f.ep] = 0]
         \/ f.kind = "blocked" /\ m = s
<1>1. f.kind \in {"blocked", "answered", "unblocked"}
  BY FrameParts DEF Kinds
<1> QED BY <1>1 DEF Handle

\* What one event adds: an alert at most, of the question it asks, which is
\* then shown; nothing is shown of an episode whose end it tells.
OneHandled(c, s, view, f, m) ==
  /\ m \in Handlings
  /\ Shows(c, m)
  /\ AllNew(c, m.fired)
  /\ \/ m.fired = s.fired
     \/ f.kind = "blocked" /\ m.fired = Append(s.fired, <<f.ep, f.q>>)
  /\ \A ep \in Episodes : \/ m.read[ep] = s.read[ep] \/ m.read[ep] = 0
                          \/ f.kind = "blocked" /\ ep = f.ep /\ m.read[ep] = f.q
  /\ f.kind = "blocked" /\ f.ep \in view => m.read[f.ep] = f.q
  /\ \A ep \in Episodes : m.read[ep] = s.read[ep] \/ ep = f.ep

LEMMA HandleStep ==
  ASSUME NEW c, NEW s \in Handlings, NEW view, NEW f \in Frames, NEW alert \in BOOLEAN,
         alerted[c] \in [Asks -> 0..2],
         Shows(c, s), AllNew(c, s.fired),
         f.kind = "blocked" => OnTime(c, s, f),
         alert => ~Alerted(c, s.fired, <<f.ep, f.q>>)
  PROVE  OneHandled(c, s, view, f, Handle(s, view, f, alert))
<1> DEFINE x == <<f.ep, f.q>>
<1>1. /\ f.ep \in Episodes /\ f.q \in 1..MaxQuestions /\ x \in Asks
      /\ x[1] = f.ep /\ x[2] = f.q
  BY FrameParts
<1>2. /\ s.read \in [Episodes -> 0..MaxQuestions] /\ s.spent \in SUBSET Episodes
      /\ s.fired \in Seq(Asks)
  BY DEF Handlings
<1>3. CASE f.kind = "blocked" /\ f.ep \in view
  <2> DEFINE reopens == s.read[f.ep] \notin {0, f.q} /\ f.ep \in s.spent
             rings == alert \/ reopens
             m == Handle(s, view, f, alert)
             read == Shown(s, f)
  <2>1. /\ m.read = read
        /\ m.fired = IF rings THEN Append(s.fired, x) ELSE s.fired
        /\ m = [read |-> read, spent |-> m.spent, fired |-> m.fired]
        /\ m.spent \in SUBSET Episodes
    <3> DEFINE spent == IF reopens THEN s.spent \ {f.ep} ELSE s.spent
               fired == IF rings THEN Append(s.fired, x) ELSE s.fired
    <3>1. m = [read |-> read, spent |-> spent, fired |-> fired]
      BY <1>3, HandleBlocked
    <3>2. spent \in SUBSET Episodes
      BY <1>2
    <3> HIDE DEF m, read, spent, fired
    <3>3. m.read = read /\ m.spent = spent /\ m.fired = fired
      BY <3>1
    <3> QED BY <3>1, <3>2, <3>3 DEF fired
  <2>2. rings => ~Alerted(c, s.fired, x)
    <3> SUFFICES ASSUME reopens, Alerted(c, s.fired, x) PROVE FALSE
      OBVIOUS
    <3>1. s.read[f.ep] # 0 /\ s.read[f.ep] # f.q /\ s.read[f.ep] \in 0..MaxQuestions
      BY <1>1, <1>2
    <3>2. s.read[f.ep] <= f.q
      BY <1>3 DEF OnTime
    <3>3. f.q <= s.read[f.ep]
      BY <1>1, <3>1 DEF Shows
    <3> QED BY <1>1, <3>1, <3>2, <3>3
  <2>3. /\ read \in [Episodes -> 0..MaxQuestions]
        /\ read[f.ep] = f.q
        /\ \A ep \in Episodes : ep # f.ep => read[ep] = s.read[ep]
    BY <1>1, <1>2 DEF Shown
  <2> HIDE DEF m, read, reopens, x
  <2>4. m.fired \in Seq(Asks)
    BY <1>1, <1>2, <2>1
  <2>5. m \in Handlings
    BY <2>1, <2>3, <2>4 DEF Handlings
  <2>6. /\ Len(s.fired) \in Nat /\ DOMAIN s.fired = 1..Len(s.fired)
        /\ rings => /\ DOMAIN m.fired = 1..(Len(s.fired) + 1)
                    /\ m.fired[Len(s.fired) + 1] = x
                    /\ \A i \in 1..Len(s.fired) : m.fired[i] = s.fired[i]
    BY <1>1, <1>2, <2>1
  <2>7. \A y \in Asks : Alerted(c, m.fired, y) => Alerted(c, s.fired, y) \/ y = x
    <3> SUFFICES ASSUME NEW y \in Asks, NEW i \in DOMAIN m.fired, m.fired[i] = y, y # x
                 PROVE  \E j \in DOMAIN s.fired : s.fired[j] = y
      BY DEF Alerted
    <3>1. CASE rings
      <4>1. i \in 1..Len(s.fired)
        BY <2>6, <3>1
      <4> QED BY <2>6, <3>1, <4>1
    <3>2. CASE ~rings
      BY <2>1, <3>2
    <3> QED BY <3>1, <3>2
  <2>8. Shows(c, m)
    <3> SUFFICES ASSUME NEW y \in Asks, Alerted(c, m.fired, y)
                 PROVE  m.read[y[1]] = 0 \/ y[2] <= m.read[y[1]]
      BY DEF Shows
    <3>1. y[1] \in Episodes /\ y[2] \in Questions /\ y[2] \in Nat /\ y = <<y[1], y[2]>>
      BY DEF Asks, Questions
    <3>2. CASE y[1] = f.ep
      <4>1. y[2] <= f.q
        <5>1. CASE y = x
          BY <1>1, <3>1, <5>1
        <5>2. CASE Alerted(c, s.fired, y)
          BY <1>3, <3>1, <3>2, <5>2 DEF OnTime
        <5> QED BY <2>7, <5>1, <5>2
      <4> QED BY <2>1, <2>3, <3>2, <4>1
    <3>3. CASE y[1] # f.ep
      <4>1. Alerted(c, s.fired, y)
        BY <1>1, <2>7, <3>3
      <4>2. s.read[y[1]] = 0 \/ y[2] <= s.read[y[1]]
        BY <4>1 DEF Shows
      <4> QED BY <2>1, <2>3, <3>1, <3>3, <4>2
    <3> QED BY <3>2, <3>3
  <2>9. AllNew(c, m.fired)
    <3>1. CASE ~rings
      BY <2>1, <3>1
    <3>2. CASE rings
      <4>1. /\ alerted[c][x] = 0 /\ \A i \in 1..Len(s.fired) : s.fired[i] # x
        <5>1. ~(alerted[c][x] > 0) /\ alerted[c][x] \in 0..2
          BY <1>1, <2>2, <3>2 DEF Alerted
        <5>2. \A i \in DOMAIN s.fired : s.fired[i] # x
          BY <2>2, <3>2 DEF Alerted
        <5> QED BY <2>6, <5>1, <5>2
      <4>2. /\ \A i, j \in 1..Len(s.fired) : s.fired[i] = s.fired[j] => i = j
            /\ \A i \in 1..Len(s.fired) : alerted[c][s.fired[i]] = 0
        BY <2>6 DEF AllNew
      <4>3. \A i \in 1..(Len(s.fired) + 1) : i \in 1..Len(s.fired) \/ i = Len(s.fired) + 1
        BY <2>6
      <4>4. \A i \in DOMAIN m.fired : alerted[c][m.fired[i]] = 0
        BY <2>6, <3>2, <4>1, <4>2, <4>3
      <4>5. ASSUME NEW i \in DOMAIN m.fired, NEW j \in DOMAIN m.fired, m.fired[i] = m.fired[j]
            PROVE  i = j
        <5>1. DOMAIN m.fired = 1..(Len(s.fired) + 1)
          BY <2>6, <3>2
        <5>2. CASE i \in 1..Len(s.fired) /\ j \in 1..Len(s.fired)
          BY <2>6, <3>2, <4>2, <4>5, <5>2
        <5>3. CASE i = Len(s.fired) + 1 /\ j \in 1..Len(s.fired)
          BY <2>6, <3>2, <4>1, <4>5, <5>3
        <5>4. CASE j = Len(s.fired) + 1 /\ i \in 1..Len(s.fired)
          BY <2>6, <3>2, <4>1, <4>5, <5>4
        <5> QED BY <4>3, <5>1, <5>2, <5>3, <5>4
      <4> QED BY <4>4, <4>5 DEF AllNew
    <3> QED BY <3>1, <3>2
  <2>10. m.fired = s.fired \/ m.fired = Append(s.fired, x)
    BY <2>1
  <2>11. OneHandled(c, s, view, f, m)
    BY <1>3, <2>1, <2>3, <2>5, <2>8, <2>9, <2>10 DEF x, OneHandled
  <2> QED BY <2>11 DEF m
<1>4. CASE ~(f.kind = "blocked" /\ f.ep \in view)
  <2> DEFINE m == Handle(s, view, f, alert)
  <2>1. \/ m = [s EXCEPT !.spent = @ \cup {f.ep}]
        \/ m = [s EXCEPT !.read[f.ep] = 0]
        \/ m = s
    BY <1>4, HandleOther
  <2>2. s = [read |-> s.read, spent |-> s.spent, fired |-> s.fired]
    BY DEF Handlings
  <2> HIDE DEF m
  <2>3. /\ m \in Handlings /\ m.fired = s.fired
        /\ \/ m.read = s.read
           \/ m.read = [s.read EXCEPT ![f.ep] = 0]
    <3>1. CASE m = [s EXCEPT !.spent = @ \cup {f.ep}]
      BY <1>1, <1>2, <3>1 DEF Handlings
    <3>2. CASE m = [s EXCEPT !.read[f.ep] = 0]
      <4>1. m = [s EXCEPT !.read = [s.read EXCEPT ![f.ep] = 0]]
        BY <3>2
      <4>2. [s.read EXCEPT ![f.ep] = 0] \in [Episodes -> 0..MaxQuestions]
        BY <1>1, <1>2
      <4> QED BY <4>1, <4>2 DEF Handlings
    <3>3. CASE m = s
      BY <3>3
    <3> QED BY <2>1, <3>1, <3>2, <3>3
  <2>4. \A ep \in Episodes : /\ m.read[ep] = s.read[ep] \/ m.read[ep] = 0
                             /\ m.read[ep] = s.read[ep] \/ ep = f.ep
    BY <1>1, <1>2, <2>3
  <2>5. Shows(c, m)
    <3> SUFFICES ASSUME NEW y \in Asks, Alerted(c, m.fired, y)
                 PROVE  m.read[y[1]] = 0 \/ y[2] <= m.read[y[1]]
      BY DEF Shows
    <3>1. y[1] \in Episodes /\ Alerted(c, s.fired, y)
      BY <2>3 DEF Asks
    <3>2. s.read[y[1]] = 0 \/ y[2] <= s.read[y[1]]
      BY <3>1 DEF Shows
    <3> QED BY <2>4, <3>1, <3>2
  <2>6. AllNew(c, m.fired)
    BY <2>3
  <2>7. OneHandled(c, s, view, f, m)
    BY <1>4, <2>3, <2>4, <2>5, <2>6 DEF OneHandled
  <2> QED BY <2>7 DEF m
<1> QED BY <1>3, <1>4

-----------------------------------------------------------------------------
(* The invariant.                                                          *)

Blocked(n) == log[n].kind = "blocked"

\* The places of the events on their way to a client, and of those it has in
\* its batch.
Comes(c) == {n \in 1..Len(log) : Event(n) \in Coming(wire[c], Waiting(c))}
Kept(c) ==
  {n \in 1..Len(log) : mem[c].batch # None /\ \E i \in DOMAIN mem[c].batch : mem[c].batch[i] = n}

\* The last blocked event of each episode.
LastAsked ==
  {n \in 1..Len(log) : Blocked(n) /\ \A k \in 1..Len(log) :
                                    n < k /\ Blocked(k) => log[k].ep # log[n].ep}

\* What a client may yet handle: what it has not handled of this log, what is
\* on its way, and what a first subscription repeats.
Due(c) ==
  LastAsked \cup Kept(c) \cup Comes(c)
    \cup {n \in 1..Len(log) : Here(c) => n > disk[c].cursor[2]}
    \cup {n \in 1..Len(log) : sub[c] # None /\ n > sub[c].upto}

\* Frame f asks no earlier question than the ones shown or alerted.
Early(read, alerts, f) ==
  read[f.ep] <= f.q /\ \A q \in Questions : alerts[<<f.ep, q>>] > 0 => q <= f.q

DueOnTime(c) == \A n \in Due(c) : Blocked(n) => Early(mem[c].read, alerted[c], log[n])

ShowsAlerted(c) ==
  \A x \in Asks : alerted[c][x] > 0 => mem[c].read[x[1]] = 0 \/ x[2] <= mem[c].read[x[1]]

\* The batch is in the order of the log, ahead of what is coming.
BatchInTurn(c) ==
  mem[c].batch # None =>
    /\ \A i, j \in DOMAIN mem[c].batch : i < j => mem[c].batch[i] < mem[c].batch[j]
    /\ \A i \in DOMAIN mem[c].batch, n \in Comes(c) : mem[c].batch[i] < n

KnownOnceAlerted(c) == \A x \in Asks : alerted[c][x] > 0 => x[1] \in disk[c].known

NotAhead(c) ==
  /\ \A ep \in Episodes : mem[c].read[ep] <= fleet[ep].asks
  /\ \A x \in Asks : alerted[c][x] > 0 => x[2] <= fleet[x[1]].asks

OnceEach(c) == \A x \in Asks : alerted[c][x] <= 1

NewIsSilent == \A ep \in Episodes : fleet[ep].state = "new" => fleet[ep].asks = 0

\* An episode asks its questions in turn.
LogInOrder ==
  /\ \A n \in 1..Len(log) : Blocked(n) => log[n].q <= fleet[log[n].ep].asks
  /\ \A i, j \in 1..Len(log) :
       i < j /\ Blocked(i) /\ Blocked(j) /\ log[i].ep = log[j].ep => log[i].q <= log[j].q

\* The types TypeOK adds to Types.
MoreTypes ==
  /\ Len(log) + 1 - low <= RingMax
  /\ connects \in [Clients -> 0..MaxConnects]
  /\ alerted \in [Clients -> [Asks -> 0..2]]
  /\ \A c \in Clients :
       /\ \A i \in DOMAIN uplink[c] :
            /\ uplink[c][i].after \in {None} \cup 0..MaxSeq
            /\ uplink[c][i].epoch \in {None} \cup 1..MaxEpochs
       /\ mem[c].read \in [Episodes -> 0..MaxQuestions]
       /\ mem[c].view \in SUBSET Episodes /\ mem[c].spent \in SUBSET Episodes
       /\ disk[c].known \in SUBSET Episodes
       /\ mem[c].alert \in BOOLEAN /\ mem[c].resent \in BOOLEAN

TInv == IInv /\ MoreTypes

AlertsFit(c) ==
  /\ DueOnTime(c)
  /\ ShowsAlerted(c)
  /\ KnownOnceAlerted(c)
  /\ BatchInTurn(c)
  /\ NotAhead(c)
  /\ OnceEach(c)

AInv == TInv /\ NewIsSilent /\ LogInOrder /\ \A c \in Clients : AlertsFit(c)

\* One frame more in the log, of a question that is being asked, or none.
LogMoves ==
  /\ epoch' = epoch
  /\ \/ log' = log
     \/ \E f \in Frames : log' = Append(log, f) /\ (f.kind = "blocked" => f.q = fleet[f.ep].asks)
  /\ \A ep \in Episodes : fleet[ep].asks <= fleet'[ep].asks

NewPlaces == (Len(log) + 1)..Len(log')

LEMMA LogLength ==
  ASSUME Types
  PROVE  /\ Len(log) \in Nat /\ DOMAIN log = 1..Len(log)
         /\ \A n \in 1..Len(log) : log[n] \in Frames /\ log[n].ep \in Episodes /\ log[n].q \in Questions
                                   /\ log[n].q \in Nat
         /\ \A ep \in Episodes : fleet[ep].asks \in 0..MaxQuestions /\ fleet[ep].asks \in Nat
<1>1. \A n \in 1..Len(log) : log[n] \in Frames
  BY DEF Types
<1>2. \A n \in 1..Len(log) : log[n].ep \in Episodes /\ log[n].q \in Questions /\ log[n].q \in Nat
  <2> TAKE n \in 1..Len(log)
  <2>1. log[n].ep \in Episodes /\ log[n].q \in 1..MaxQuestions
    BY <1>1, FrameParts
  <2> QED BY <2>1 DEF Questions
<1>3. Len(log) \in Nat /\ DOMAIN log = 1..Len(log)
  BY DEF Types
<1>4. \A ep \in Episodes : fleet[ep].asks \in 0..MaxQuestions /\ fleet[ep].asks \in Nat
  BY DEF Types
<1> QED BY <1>1, <1>2, <1>3, <1>4

LEMMA LogMovesOn ==
  ASSUME Types, Types', LogMoves
  PROVE  /\ Len(log) <= Len(log') /\ Len(log') \in Nat
         /\ \A n \in 1..Len(log) : n \in 1..Len(log') /\ log'[n] = log[n]
         /\ \A n \in 1..Len(log') : n \in 1..Len(log) \/ n \in NewPlaces
         /\ \A n \in NewPlaces : /\ log'[n] \in Frames
                                 /\ log'[n].ep \in Episodes
                                 /\ log'[n].kind = "blocked" => log'[n].q = fleet[log'[n].ep].asks
<1>1. Len(log) \in Nat /\ log \in Seq(Frames)
  BY LogLength DEF Types
<1>2. CASE log' = log
  BY <1>1, <1>2 DEF NewPlaces
<1>3. ASSUME NEW f \in Frames, log' = Append(log, f), f.kind = "blocked" => f.q = fleet[f.ep].asks
      PROVE  /\ Len(log) <= Len(log') /\ Len(log') \in Nat
             /\ \A n \in 1..Len(log) : n \in 1..Len(log') /\ log'[n] = log[n]
             /\ \A n \in 1..Len(log') : n \in 1..Len(log) \/ n \in NewPlaces
             /\ \A n \in NewPlaces : log'[n] = f
  BY <1>1, <1>3 DEF NewPlaces
<1>4. \A f \in Frames : f.ep \in Episodes
  BY FrameParts
<1> QED BY <1>2, <1>3, <1>4 DEF LogMoves

LEMMA LogInOrderKept ==
  ASSUME Types, Types', LogInOrder, LogMoves
  PROVE  LogInOrder'
<1>1. /\ Len(log) <= Len(log') /\ Len(log') \in Nat
      /\ \A n \in 1..Len(log) : n \in 1..Len(log') /\ log'[n] = log[n]
      /\ \A n \in 1..Len(log') : n \in 1..Len(log) \/ n \in NewPlaces
      /\ \A n \in NewPlaces : /\ log'[n] \in Frames
                              /\ log'[n].ep \in Episodes
                              /\ log'[n].kind = "blocked" => log'[n].q = fleet[log'[n].ep].asks
  BY LogMovesOn
<1>2. /\ Len(log) \in Nat
      /\ \A n \in 1..Len(log) : log[n].ep \in Episodes /\ log[n].q \in Nat
      /\ \A ep \in Episodes : fleet[ep].asks \in Nat
  BY LogLength
<1>3. \A ep \in Episodes : fleet'[ep].asks \in Nat /\ fleet[ep].asks <= fleet'[ep].asks
  BY LogLength DEF LogMoves, Types
<1>4. ASSUME NEW n \in 1..Len(log'), log'[n].kind = "blocked"
      PROVE  /\ log'[n].q <= fleet'[log'[n].ep].asks
             /\ n \in NewPlaces => log'[n].q = fleet[log'[n].ep].asks
  <2>1. CASE n \in 1..Len(log)
    <3>1. log'[n] = log[n] /\ log[n].q <= fleet[log[n].ep].asks /\ log[n].ep \in Episodes
      BY <1>1, <1>2, <1>4, <2>1 DEF LogInOrder, Blocked
    <3>2. n \notin NewPlaces
      BY <1>2, <2>1 DEF NewPlaces
    <3> QED BY <1>2, <1>3, <2>1, <3>1, <3>2
  <2>2. CASE n \in NewPlaces
    BY <1>1, <1>2, <1>3, <1>4, <2>2
  <2> QED BY <1>1, <2>1, <2>2
<1>5. ASSUME NEW i \in 1..Len(log'), NEW j \in 1..Len(log'), i < j,
             log'[i].kind = "blocked", log'[j].kind = "blocked", log'[i].ep = log'[j].ep
      PROVE  log'[i].q <= log'[j].q
  <2>1. CASE j \in 1..Len(log)
    <3>1. i \in 1..Len(log)
      BY <1>1, <1>2, <1>5, <2>1
    <3>2. log'[i] = log[i] /\ log'[j] = log[j]
      BY <1>1, <2>1, <3>1
    <3> QED BY <1>5, <2>1, <3>1, <3>2 DEF LogInOrder, Blocked
  <2>2. CASE j \in NewPlaces
    <3>1. log'[j].q = fleet[log'[j].ep].asks /\ log'[j].ep \in Episodes
      BY <1>1, <1>5, <2>2
    <3>2. CASE i \in 1..Len(log)
      <4>1. log'[i] = log[i] /\ log[i].q <= fleet[log[i].ep].asks
        BY <1>1, <1>5, <3>2 DEF LogInOrder, Blocked
      <4> QED BY <1>5, <3>1, <4>1
    <3>3. CASE i \in NewPlaces
      <4>1. log'[i].q = fleet[log'[i].ep].asks
        BY <1>1, <1>5, <3>3
      <4> QED BY <1>2, <1>5, <3>1, <4>1
    <3> QED BY <1>1, <3>2, <3>3
  <2> QED BY <1>1, <2>1, <2>2
<1> QED BY <1>4, <1>5 DEF LogInOrder, Blocked

\* A step in which client c handles nothing.
LEMMA FitKept ==
  ASSUME Types, Types', MoreTypes, LogMoves, NEW c \in Clients, AlertsFit(c),
         alerted'[c] = alerted[c], disk'[c] = disk[c],
         mem'[c].read = mem[c].read \/ mem'[c].read = [ep \in Episodes |-> 0],
         \A n \in Due(c)' : Blocked(n)' => n \in Due(c) \cup NewPlaces,
         BatchInTurn(c)'
  PROVE  AlertsFit(c)'
<1>1. /\ Len(log) <= Len(log') /\ Len(log') \in Nat
      /\ \A n \in 1..Len(log) : n \in 1..Len(log') /\ log'[n] = log[n]
      /\ \A n \in NewPlaces : /\ log'[n] \in Frames
                              /\ log'[n].ep \in Episodes
                              /\ log'[n].kind = "blocked" => log'[n].q = fleet[log'[n].ep].asks
  BY LogMovesOn
<1>2. /\ Len(log) \in Nat
      /\ \A n \in 1..Len(log) : log[n].ep \in Episodes /\ log[n].q \in Nat
      /\ \A ep \in Episodes : fleet[ep].asks \in Nat
  BY LogLength
<1>3. \A ep \in Episodes : fleet'[ep].asks \in Nat /\ fleet[ep].asks <= fleet'[ep].asks
  BY LogLength DEF LogMoves, Types
<1>4. /\ \A ep \in Episodes : mem[c].read[ep] \in Nat
      /\ \A ep \in Episodes : mem'[c].read[ep] = mem[c].read[ep] \/ mem'[c].read[ep] = 0
  BY DEF MoreTypes
<1>5. /\ alerted'[c] = alerted[c]
      /\ \A x \in Asks : x[1] \in Episodes /\ x[2] \in Nat
      /\ \A ep \in Episodes, q \in Questions : <<ep, q>> \in Asks /\ q \in Nat
  BY DEF Asks, Questions
<1>6. DueOnTime(c)'
  <2> SUFFICES ASSUME NEW n \in Due(c)', Blocked(n)'
               PROVE  /\ mem'[c].read[log'[n].ep] <= log'[n].q
                      /\ \A q \in Questions : alerted[c][<<log'[n].ep, q>>] > 0 => q <= log'[n].q
    BY <1>5 DEF DueOnTime, Early
  <2>1. CASE n \in Due(c)
    <3>1. n \in 1..Len(log)
      BY <2>1 DEF Due, LastAsked, Kept, Comes
    <3>2. log'[n] = log[n] /\ log[n].kind = "blocked"
      BY <1>1, <3>1 DEF Blocked
    <3>3. Early(mem[c].read, alerted[c], log[n])
      BY <2>1, <3>2 DEF AlertsFit, DueOnTime, Blocked
    <3> QED BY <1>2, <1>4, <3>1, <3>2, <3>3 DEF Early
  <2>2. CASE n \in NewPlaces
    <3>1. log'[n].q = fleet[log'[n].ep].asks /\ log'[n].ep \in Episodes
      BY <1>1, <2>2 DEF Blocked
    <3>2. \A q \in Questions : alerted[c][<<log'[n].ep, q>>] > 0 => q <= fleet[log'[n].ep].asks
      <4> SUFFICES ASSUME NEW q \in Questions, alerted[c][<<log'[n].ep, q>>] > 0
                   PROVE  q <= fleet[log'[n].ep].asks
        OBVIOUS
      <4> DEFINE x == <<log'[n].ep, q>>
      <4>1. x \in Asks /\ x[1] = log'[n].ep /\ x[2] = q
        BY <1>5, <3>1
      <4> HIDE DEF x
      <4>2. x[2] <= fleet[x[1]].asks
        BY <4>1 DEF AlertsFit, NotAhead, x
      <4> QED BY <4>1, <4>2
    <3>3. mem[c].read[log'[n].ep] <= fleet[log'[n].ep].asks
      BY <3>1 DEF AlertsFit, NotAhead
    <3> QED BY <1>2, <1>4, <3>1, <3>2, <3>3
  <2> QED BY <2>1, <2>2
<1>7. ShowsAlerted(c)'
  <2> SUFFICES ASSUME NEW x \in Asks, alerted[c][x] > 0
               PROVE  mem'[c].read[x[1]] = 0 \/ x[2] <= mem'[c].read[x[1]]
    BY <1>5 DEF ShowsAlerted, Asks
  <2>1. mem[c].read[x[1]] = 0 \/ x[2] <= mem[c].read[x[1]]
    BY DEF AlertsFit, ShowsAlerted
  <2> QED BY <1>4, <1>5, <2>1
<1>8. KnownOnceAlerted(c)' /\ OnceEach(c)'
  BY DEF AlertsFit, KnownOnceAlerted, OnceEach, Asks
<1>9. NotAhead(c)'
  <2>1. ASSUME NEW ep \in Episodes PROVE mem'[c].read[ep] <= fleet'[ep].asks
    <3>1. mem[c].read[ep] <= fleet[ep].asks
      BY DEF AlertsFit, NotAhead
    <3> QED BY <1>2, <1>3, <1>4, <3>1
  <2>2. ASSUME NEW x \in Asks, alerted[c][x] > 0 PROVE x[2] <= fleet'[x[1]].asks
    <3>1. x[2] <= fleet[x[1]].asks
      BY <2>2 DEF AlertsFit, NotAhead
    <3> QED BY <1>2, <1>3, <1>5, <3>1
  <2> QED BY <1>5, <2>1, <2>2 DEF NotAhead, Asks
<1> QED BY <1>6, <1>7, <1>8, <1>9 DEF AlertsFit

\* What a client may yet handle after a step in which it handles nothing.
LEMMA DueFrom ==
  ASSUME Types, Types', LogMoves, NEW c \in Clients, disk'[c] = disk[c],
         Kept(c)' \subseteq Due(c) \cup NewPlaces,
         \A n \in Comes(c)' : Blocked(n)' => n \in Due(c) \cup NewPlaces,
         sub'[c] # None => \/ sub[c] # None /\ sub'[c].upto >= sub[c].upto
                           \/ sub'[c].upto >= Len(log)
  PROVE  \A n \in Due(c)' : Blocked(n)' => n \in Due(c) \cup NewPlaces
<1>1. /\ Len(log) \in Nat /\ Len(log) <= Len(log') /\ Len(log') \in Nat
      /\ \A n \in 1..Len(log) : n \in 1..Len(log') /\ log'[n] = log[n]
      /\ \A n \in 1..Len(log') : n \in 1..Len(log) \/ n \in NewPlaces
  BY LogLength, LogMovesOn
<1> SUFFICES ASSUME NEW n \in 1..Len(log), n \in Due(c)', Blocked(n)'
             PROVE  n \in Due(c)
  <2>1. ASSUME NEW n \in Due(c)' PROVE n \in 1..Len(log')
    BY <2>1 DEF Due, LastAsked, Kept, Comes
  <2> QED BY <1>1, <2>1
<1>2. n \notin NewPlaces
  BY <1>1 DEF NewPlaces
<1>3. CASE n \in LastAsked'
  <2>1. Blocked(n)
    BY <1>1, <1>3 DEF LastAsked, Blocked
  <2>2. ASSUME NEW k \in 1..Len(log), n < k, Blocked(k) PROVE log[k].ep # log[n].ep
    BY <1>1, <1>3, <2>2 DEF LastAsked, Blocked
  <2> QED BY <2>1, <2>2 DEF Due, LastAsked
<1>4. CASE n \in Kept(c)' \/ n \in Comes(c)'
  BY <1>2, <1>4
<1>5. CASE n \in {k \in 1..Len(log') : Here(c)' => k > disk'[c].cursor[2]}
  <2>1. Here(c)' <=> Here(c)
    BY DEF Here, LogMoves
  <2>2. Here(c) => n > disk[c].cursor[2]
    BY <1>5, <2>1
  <2> QED BY <2>2 DEF Due
<1>6. CASE n \in {k \in 1..Len(log') : sub'[c] # None /\ k > sub'[c].upto}
  <2>0. sub'[c] # None /\ n > sub'[c].upto
    BY <1>6
  <2>1. sub'[c].upto \in Nat
    BY <2>0 DEF Types, Subs
  <2>2. sub[c] # None /\ sub'[c].upto >= sub[c].upto
    BY <1>1, <2>0, <2>1
  <2>3. sub[c].upto \in Nat
    BY <2>2 DEF Types, Subs
  <2>4. n > sub[c].upto
    BY <2>0, <2>1, <2>2, <2>3
  <2> QED BY <2>2, <2>4 DEF Due
<1> QED BY <1>3, <1>4, <1>5, <1>6 DEF Due

\* ... and its batch is as it was.
LEMMA KeptStill ==
  ASSUME NEW c \in Clients, mem'[c].batch = mem[c].batch \/ mem'[c].batch = None \/ mem'[c].batch = << >>,
         Types, Types', LogMoves, \A n \in Kept(c) : n \in 1..Len(log)
  PROVE  Kept(c)' \subseteq Due(c) \cup NewPlaces
<1> SUFFICES ASSUME NEW n \in Kept(c)', n \notin NewPlaces
             PROVE  n \in Due(c)
  OBVIOUS
<1>1. n \in 1..Len(log)
  BY LogMovesOn DEF Kept
<1>2. mem'[c].batch # << >>
  BY DEF Kept
<1>3. mem'[c].batch = mem[c].batch /\ mem[c].batch # None
  BY <1>2 DEF Kept
<1> QED BY <1>1, <1>3 DEF Kept, Due

LEMMA BatchStill ==
  ASSUME NEW c \in Clients, BatchInTurn(c),
         \/ mem'[c].batch = None \/ mem'[c].batch = << >>
         \/ mem'[c].batch = mem[c].batch /\ Comes(c)' \subseteq Comes(c)
  PROVE  BatchInTurn(c)'
<1>1. CASE mem'[c].batch = None
  BY <1>1 DEF BatchInTurn
<1>2. CASE mem'[c].batch = << >>
  <2>1. DOMAIN << >> = {}
    OBVIOUS
  <2> QED BY <1>2, <2>1 DEF BatchInTurn
<1>3. CASE mem'[c].batch = mem[c].batch /\ Comes(c)' \subseteq Comes(c)
  BY <1>3 DEF BatchInTurn
<1> QED BY <1>1, <1>2, <1>3

\* An event on its way is of the log.
LEMMA ComingIsLogged ==
  ASSUME IInv, NEW c \in Clients, NEW n \in Nat, Event(n) \in Coming(wire[c], Waiting(c))
  PROVE  n \in Comes(c) /\ n \in 1..Len(log)
<1>1. sub[c] # None /\ AfterSubscription(c)
  BY DEF IInv, Lane, BeforeSubscription
<1>2. /\ Event(n) \in Messages /\ Event(n).type = "event" /\ Event(n).seq = n
      /\ (Event(n).type = "event" => Event(n).seq <= sub[c].upto)
  <2>1. Event(n).type = "event" /\ Event(n).seq = n
    BY DEF Event
  <2> QED BY <1>1, <2>1, ComingUpTo DEF IInv
<1>3. n \in 1..MaxSeq
  BY <1>2, ToldMessages
<1>4. sub[c].upto \in Nat /\ sub[c].upto <= Len(log) /\ Len(log) \in Nat
  BY <1>1, SubType DEF AfterSubscription, Fed, IInv
<1> QED BY <1>2, <1>3, <1>4 DEF Comes

\* A step that neither gives nor takes client c anything.
LEMMA UntouchedFit ==
  ASSUME IInv, Types', MoreTypes, LogMoves, NEW c \in Clients, AlertsFit(c),
         alerted'[c] = alerted[c], disk'[c] = disk[c],
         mem'[c].read = mem[c].read \/ mem'[c].read = [ep \in Episodes |-> 0],
         mem'[c].batch = mem[c].batch \/ mem'[c].batch = None \/ mem'[c].batch = << >>,
         sub'[c] = sub[c] \/ sub'[c] = None,
         Coming(wire[c], Waiting(c))' = Coming(wire[c], Waiting(c))
           \/ Coming(wire[c], Waiting(c))' = {}
  PROVE  AlertsFit(c)'
<1>1. Types
  BY DEF IInv
<1>2. Comes(c)' \subseteq Comes(c)
  <2> SUFFICES ASSUME NEW n \in Comes(c)' PROVE n \in Comes(c)
    OBVIOUS
  <2>1. Event(n) \in Coming(wire[c], Waiting(c))' /\ n \in Nat
    BY DEF Comes
  <2>2. Event(n) \in Coming(wire[c], Waiting(c))
    BY <2>1
  <2> QED BY <2>1, <2>2, ComingIsLogged
<1>3. Kept(c)' \subseteq Due(c) \cup NewPlaces
  <2>1. \A n \in Kept(c) : n \in 1..Len(log)
    BY DEF Kept
  <2> QED BY <1>1, <2>1, KeptStill
<1>4. Comes(c)' \subseteq Due(c) \cup NewPlaces
  BY <1>2 DEF Due
<1>5. sub'[c] # None => sub[c] # None /\ sub'[c].upto >= sub[c].upto
  <2>1. ASSUME sub'[c] # None PROVE sub'[c] = sub[c] /\ sub[c].upto \in Nat
    BY <1>1, <2>1, SubType
  <2> QED BY <2>1
<1>6. \A n \in Due(c)' : Blocked(n)' => n \in Due(c) \cup NewPlaces
  BY <1>1, <1>3, <1>4, <1>5, DueFrom
<1>7. BatchInTurn(c)
  BY DEF AlertsFit
<1>8. BatchInTurn(c)'
  BY <1>2, <1>7, BatchStill
<1> QED BY <1>1, <1>6, <1>8, FitKept

\* ... whatever snapshots are on its way.
LEMMA ShownComing ==
  ASSUME IInv, NEW c \in Clients, Waiting(c)' = Waiting(c),
         \/ wire'[c] = wire[c]
         \/ \E panes \in SUBSET Episodes : wire'[c] = Append(wire[c], Snapshot(panes))
  PROVE  Coming(wire[c], Waiting(c))' = Coming(wire[c], Waiting(c))
<1>1. wire[c] \in Seq(Messages) /\ Waiting(c) \in Seq(Messages) /\ InTurn(wire[c], Waiting(c))
  BY WaitingType DEF IInv, Lane
<1>2. CASE wire'[c] = wire[c]
  BY <1>2
<1>3. ASSUME NEW panes \in SUBSET Episodes, wire'[c] = Append(wire[c], Snapshot(panes))
      PROVE  Coming(wire[c], Waiting(c))' = Coming(wire[c], Waiting(c))
  <2>1. Coming(wire'[c], Waiting(c)) = Coming(wire[c], Waiting(c))
    BY <1>1, <1>3, ShowingKeeps
  <2> QED BY <2>1
<1> QED BY <1>2, <1>3

-----------------------------------------------------------------------------
(* The types.                                                              *)

LEMMA MoreTypesKept ==
  ASSUME MoreTypes, UNCHANGED <<log, low, connects, uplink, mem, disk, alerted>>
  PROVE  MoreTypes'
  BY DEF MoreTypes, Asks

\* The fields of a runtime's memory as MoreTypes has them.
Remembers(m) ==
  /\ m.read \in [Episodes -> 0..MaxQuestions]
  /\ m.view \in SUBSET Episodes /\ m.spent \in SUBSET Episodes
  /\ m.alert \in BOOLEAN /\ m.resent \in BOOLEAN

LEMMA NothingRemembered ==
  Remembers(NoMemory) /\ NoMemory.read = [ep \in Episodes |-> 0] /\ NoMemory.batch = None
<1>1. NoMemory = [batch |-> None, alert |-> FALSE, synced |-> FALSE, resent |-> FALSE,
                  view |-> {}, read |-> [ep \in Episodes |-> 0], spent |-> {}]
  BY DEF NoMemory, Memory
<1>2. [ep \in Episodes |-> 0] \in [Episodes -> 0..MaxQuestions]
  OBVIOUS
<1> QED BY <1>1, <1>2 DEF Remembers

\* A step of one client leaves the others' fields as they are.
LEMMA MoreTypesOfOne ==
  ASSUME MoreTypes, NEW c \in Clients, log' = log, low' = low,
         connects' \in [Clients -> 0..MaxConnects],
         \A d \in Clients : uplink'[d] = uplink[d] \/ uplink'[d] = << >> \/ uplink'[d] = <<Request(d)>>,
         Types,
         \A d \in Clients : alerted'[d] \in [Asks -> 0..2],
         alerted' = [d \in Clients |-> alerted'[d]],
         \A d \in Clients : mem'[d] = mem[d] \/ Remembers(mem'[d]),
         \A d \in Clients : disk'[d].known \in SUBSET Episodes
  PROVE  MoreTypes'
<1>1. Len(log') + 1 - low' <= RingMax
  BY DEF MoreTypes
<1>2. alerted' \in [Clients -> [Asks -> 0..2]]
  <2> DEFINE rings == [Asks -> 0..2]
  <2>1. \A d \in Clients : alerted'[d] \in rings
    OBVIOUS
  <2> HIDE DEF rings
  <2>2. alerted' \in [Clients -> rings]
    BY <2>1
  <2> QED BY <2>2 DEF rings
<1>3. ASSUME NEW d \in Clients, NEW i \in DOMAIN uplink'[d]
      PROVE  /\ uplink'[d][i].after \in {None} \cup 0..MaxSeq
             /\ uplink'[d][i].epoch \in {None} \cup 1..MaxEpochs
  <2>1. CASE uplink'[d] = uplink[d]
    BY <1>3, <2>1 DEF MoreTypes
  <2>2. CASE uplink'[d] = << >>
    <3>1. DOMAIN << >> = {}
      OBVIOUS
    <3> QED BY <1>3, <2>2, <3>1
  <2>3. CASE uplink'[d] = <<Request(d)>>
    <3>1. i = 1 /\ uplink'[d][i] = Request(d)
      BY <1>3, <2>3
    <3>2. disk[d].cursor \in Cursors \cup {None}
      BY DEF Types
    <3>3. disk[d].cursor # None => disk[d].cursor[1] \in 1..MaxEpochs /\ disk[d].cursor[2] \in 0..MaxSeq
      BY <3>2 DEF Cursors
    <3> QED BY <3>1, <3>3 DEF Request
  <2> QED BY <2>1, <2>2, <2>3
<1>4. ASSUME NEW d \in Clients PROVE Remembers(mem'[d])
  BY DEF MoreTypes, Remembers
<1> QED BY <1>1, <1>2, <1>3, <1>4 DEF MoreTypes, Remembers, Asks

-----------------------------------------------------------------------------
(* The steps of the agents.                                                *)

\* A step of the agents, or of the bridge that observes them.
LEMMA FleetStepFits ==
  ASSUME AInv, IInv', LogMoves, NewIsSilent', UNCHANGED <<linkButWire, runtime>>,
         Len(log') + 1 - low' <= RingMax,
         \A c \in Clients :
           \/ wire'[c] = wire[c]
           \/ \E panes \in SUBSET Episodes : wire'[c] = Append(wire[c], Snapshot(panes))
  PROVE  AInv'
<1>1. IInv /\ Types /\ Types' /\ MoreTypes /\ LogInOrder
  BY DEF AInv, TInv, IInv
<1>2. MoreTypes'
  BY <1>1 DEF MoreTypes, Asks, linkButWire, runtime
<1>3. LogInOrder'
  BY <1>1, LogInOrderKept
<1>4. ASSUME NEW c \in Clients PROVE AlertsFit(c)'
  <2>1. Waiting(c)' = Waiting(c)
    BY DEF Waiting, PumpWaits, linkButWire
  <2>2. Coming(wire[c], Waiting(c))' = Coming(wire[c], Waiting(c))
    BY <1>1, <2>1, ShownComing
  <2>3. AlertsFit(c)
    BY DEF AInv
  <2>4. /\ alerted'[c] = alerted[c] /\ disk'[c] = disk[c] /\ mem'[c] = mem[c] /\ sub'[c] = sub[c]
    BY DEF linkButWire, runtime
  <2> QED BY <1>1, <2>2, <2>3, <2>4, UntouchedFit
<1> QED BY <1>2, <1>3, <1>4 DEF AInv, TInv

LEMMA BlocksFits ==
  ASSUME AInv, IInv', NEW ep \in Episodes, Blocks(ep)
  PROVE  AInv'
<1>1. Types /\ Types' /\ NewIsSilent /\ MoreTypes
  BY DEF AInv, TInv, IInv
<1>2. /\ fleet[ep].state = "new"
      /\ fleet' = [fleet EXCEPT ![ep] = [state |-> "open", asks |-> 1, done |-> 0]]
      /\ UNCHANGED <<hub, linkButWire, runtime>>
      /\ \A c \in Clients : wire'[c] = wire[c] \/ wire'[c] = Append(wire[c], Snapshot(Open \cup {ep}))
  BY DEF Blocks, Broadcast
<1>3. \A x \in Episodes : /\ x # ep => fleet'[x] = fleet[x]
                          /\ x = ep => fleet'[x].state = "open" /\ fleet'[x].asks = 1
  BY <1>1, <1>2 DEF Types
<1>4. NewIsSilent'
  BY <1>1, <1>3 DEF NewIsSilent
<1>5. LogMoves
  <2>1. ASSUME NEW x \in Episodes PROVE fleet[x].asks <= fleet'[x].asks
    <3>1. fleet[x].asks \in Nat
      BY <1>1, LogLength
    <3>2. fleet[ep].asks = 0
      BY <1>1, <1>2 DEF NewIsSilent
    <3> QED BY <1>3, <3>1, <3>2
  <2> QED BY <1>2, <2>1 DEF LogMoves, hub
<1>6. Len(log') + 1 - low' <= RingMax
  BY <1>1, <1>2 DEF hub, MoreTypes
<1>7. Open \cup {ep} \in SUBSET Episodes
  BY DEF Open
<1> QED BY <1>2, <1>4, <1>5, <1>6, <1>7, FleetStepFits

LEMMA AsksNextFits ==
  ASSUME AInv, IInv', NEW ep \in Episodes, AsksNext(ep)
  PROVE  AInv'
<1>1. Types /\ Types' /\ NewIsSilent /\ MoreTypes
  BY DEF AInv, TInv, IInv
<1>2. /\ fleet' = [fleet EXCEPT ![ep].asks = @ + 1] /\ fleet[ep].state = "open"
      /\ UNCHANGED <<hub, link, runtime>>
  BY DEF AsksNext, Open
<1>3. \A x \in Episodes : /\ fleet'[x].state = fleet[x].state
                          /\ x # ep => fleet'[x] = fleet[x]
                          /\ x = ep => fleet'[x].asks = fleet[x].asks + 1
  <2>1. fleet \in [Episodes -> [state : {"new", "open", "over"},
                                asks : 0..MaxQuestions, done : 0..MaxQuestions]]
    BY <1>1 DEF Types
  <2>2. fleet' = [fleet EXCEPT ![ep] = [fleet[ep] EXCEPT !.asks = fleet[ep].asks + 1]]
    BY <1>2
  <2> QED BY <2>1, <2>2
<1>4. NewIsSilent'
  BY <1>1, <1>2, <1>3 DEF NewIsSilent
<1>5. LogMoves
  <2>1. ASSUME NEW x \in Episodes PROVE fleet[x].asks <= fleet'[x].asks
    <3>1. fleet[x].asks \in Nat
      BY <1>1, LogLength
    <3> QED BY <1>3, <3>1
  <2> QED BY <1>2, <2>1 DEF LogMoves, hub
<1>6. Len(log') + 1 - low' <= RingMax
  BY <1>1, <1>2 DEF hub, MoreTypes
<1> QED BY <1>2, <1>4, <1>5, <1>6, FleetStepFits DEF link, linkButWire

\* Emitting a frame of the question an open episode asks.
LEMMA EmitFits ==
  ASSUME AInv, IInv', NEW ep \in Open, NEW kind \in Kinds,
         Emit(<<Frame(kind, ep, fleet[ep].asks)>>),
         UNCHANGED <<linkButWire, runtime>>,
         \A x \in Episodes : /\ fleet'[x].asks = fleet[x].asks
                             /\ fleet'[x].state = "new" => fleet[x].state = "new",
         \A c \in Clients :
           \/ wire'[c] = wire[c]
           \/ \E panes \in SUBSET Episodes : wire'[c] = Append(wire[c], Snapshot(panes))
  PROVE  AInv'
<1> DEFINE f == Frame(kind, ep, fleet[ep].asks)
<1>1. IInv /\ Types /\ Types' /\ NewIsSilent /\ PumpInOrder
  BY DEF AInv, TInv, IInv
<1>2. f \in Frames /\ f.ep = ep /\ f.q = fleet[ep].asks
  BY <1>1, FrameOf DEF Frame
<1>3. Emit(<<f>>)
  OBVIOUS
<1> HIDE DEF f
<1>4. log' = Append(log, f) /\ epoch' = epoch /\ Len(log') = Len(log) + 1
  BY <1>1, <1>2, <1>3, EmitKeeps, FedAll DEF linkButWire
<1>5. LogMoves
  <2>1. \A x \in Episodes : fleet[x].asks <= fleet'[x].asks
    BY <1>1, LogLength
  <2> QED BY <1>2, <1>4, <2>1 DEF LogMoves
<1>6. NewIsSilent'
  BY <1>1 DEF NewIsSilent
<1>7. Len(log') + 1 - low' <= RingMax
  <2>1. Len(<<f>>) = 1
    OBVIOUS
  <2>2. low' \in {l \in low..(Len(log) + 1) : (Len(log) + 1) - l < RingMax}
    BY <1>3, <2>1 DEF Emit, Pruned
  <2>3. Len(log) \in Nat /\ low \in Nat
    BY <1>1 DEF Types
  <2> QED BY <1>4, <2>2, <2>3
<1> QED BY <1>5, <1>6, <1>7, FleetStepFits

LEMMA AnnounceFits ==
  ASSUME AInv, IInv', NEW ep \in Episodes, Announce(ep)
  PROVE  AInv'
<1>1. /\ ep \in Open /\ "blocked" \in Kinds
      /\ Emit(<<Frame("blocked", ep, fleet[ep].asks)>>)
      /\ UNCHANGED <<fleet, linkButWire, runtime>> /\ wire' = wire
  BY DEF Announce, Kinds, link, linkButWire
<1> QED BY <1>1, EmitFits

LEMMA AnsweredFits ==
  ASSUME AInv, IInv', NEW ep \in Episodes, Answered(ep)
  PROVE  AInv'
<1>1. /\ ep \in Open /\ "answered" \in Kinds
      /\ fleet' = [fleet EXCEPT ![ep].done = fleet[ep].asks]
      /\ Emit(<<Frame("answered", ep, fleet[ep].asks)>>)
      /\ UNCHANGED <<linkButWire, runtime>> /\ wire' = wire
  BY DEF Answered, Kinds, link, linkButWire
<1>2. \A x \in Episodes : fleet'[x].asks = fleet[x].asks /\ fleet'[x].state = fleet[x].state
  <2>1. Types
    BY DEF AInv, TInv, IInv
  <2>2. fleet \in [Episodes -> [state : {"new", "open", "over"},
                                asks : 0..MaxQuestions, done : 0..MaxQuestions]]
    BY <2>1 DEF Types
  <2>3. fleet' = [fleet EXCEPT ![ep] = [fleet[ep] EXCEPT !.done = fleet[ep].asks]]
    BY <1>1
  <2> QED BY <2>2, <2>3
<1> QED BY <1>1, <1>2, EmitFits

LEMMA UnblocksFits ==
  ASSUME AInv, IInv', NEW ep \in Episodes, Unblocks(ep)
  PROVE  AInv'
<1>1. /\ ep \in Open /\ "unblocked" \in Kinds
      /\ fleet' = [fleet EXCEPT ![ep].state = "over"]
      /\ UNCHANGED <<linkButWire, runtime>>
      /\ \A c \in Clients : wire'[c] = wire[c] \/ wire'[c] = Append(wire[c], Snapshot(Open \ {ep}))
      /\ \/ UNCHANGED hub
         \/ Emit(<<Frame("unblocked", ep, fleet[ep].asks)>>)
  BY DEF Unblocks, Kinds, Broadcast
<1>2. \A x \in Episodes : /\ fleet'[x].asks = fleet[x].asks
                          /\ fleet'[x].state = "new" => fleet[x].state = "new"
  <2>0. Types
    BY DEF AInv, TInv, IInv
  <2>1. fleet \in [Episodes -> [state : {"new", "open", "over"},
                                asks : 0..MaxQuestions, done : 0..MaxQuestions]]
    BY <2>0 DEF Types
  <2>2. fleet' = [fleet EXCEPT ![ep] = [fleet[ep] EXCEPT !.state = "over"]]
    BY <1>1
  <2> QED BY <2>1, <2>2
<1>3. Open \ {ep} \in SUBSET Episodes
  BY DEF Open
<1>4. CASE Emit(<<Frame("unblocked", ep, fleet[ep].asks)>>)
  BY <1>1, <1>2, <1>3, <1>4, EmitFits
<1>5. CASE UNCHANGED hub
  <2>1. LogMoves
    <3>1. \A x \in Episodes : fleet[x].asks <= fleet'[x].asks
      BY <1>2, LogLength DEF AInv, TInv, IInv
    <3> QED BY <1>5, <3>1 DEF LogMoves, hub
  <2>2. NewIsSilent'
    BY <1>2 DEF AInv, NewIsSilent
  <2>3. Len(log') + 1 - low' <= RingMax
    BY <1>5 DEF hub, AInv, TInv, MoreTypes
  <2> QED BY <1>1, <1>3, <2>1, <2>2, <2>3, FleetStepFits
<1> QED BY <1>1, <1>4, <1>5

-----------------------------------------------------------------------------
(* The pump and the connections.                                           *)

\* Nothing is emitted.
LEMMA HubKept ==
  ASSUME AInv, UNCHANGED <<fleet, hub>>
  PROVE  /\ LogMoves /\ NewIsSilent' /\ LogInOrder' /\ NewPlaces = {}
         /\ log' = log /\ low' = low /\ epoch' = epoch
<1>1. log' = log /\ low' = low /\ epoch' = epoch /\ fleet' = fleet
  BY DEF hub
<1>2. \A ep \in Episodes : fleet[ep].asks \in Nat /\ Len(log) \in Nat
  BY LogLength DEF AInv, TInv, IInv
<1>3. LogMoves
  BY <1>1, <1>2 DEF LogMoves
<1>4. NewIsSilent' /\ LogInOrder'
  BY <1>1 DEF AInv, NewIsSilent, LogInOrder, Blocked
<1>5. NewPlaces = {}
  <2>1. Len(log) \in Nat
    BY LogLength DEF AInv, TInv, IInv
  <2> QED BY <1>1, <2>1 DEF NewPlaces
<1> QED BY <1>1, <1>3, <1>4, <1>5

\* A step of client c alone, which emits and handles nothing.
LEMMA ClientStepFits ==
  ASSUME AInv, IInv', UNCHANGED <<fleet, hub, disk, alerted>>, NEW c \in Clients,
         \A d \in Clients \ {c} :
           /\ Unmoved(d)
           /\ mem'[d] = mem[d]
           /\ wire'[d] = wire[d]
           /\ PumpWaits(d)' <=> PumpWaits(d)
           /\ PumpWaits(d) => pump'.seq = pump.seq,
         MoreTypes', AlertsFit(c)'
  PROVE  AInv'
<1>1. LogMoves /\ NewIsSilent' /\ LogInOrder'
  BY HubKept
<1>2. ASSUME NEW d \in Clients \ {c} PROVE AlertsFit(d)'
  <2>1. IInv /\ Types' /\ MoreTypes /\ AlertsFit(d)
    BY DEF AInv, TInv, IInv
  <2>2. Waiting(d)' = Waiting(d)
    BY DEF Waiting, Unmoved
  <2>3. Coming(wire[d], Waiting(d))' = Coming(wire[d], Waiting(d))
    BY <2>2
  <2>4. /\ alerted'[d] = alerted[d] /\ disk'[d] = disk[d] /\ mem'[d] = mem[d] /\ sub'[d] = sub[d]
    BY DEF Unmoved
  <2> QED BY <1>1, <2>1, <2>3, <2>4, UntouchedFit
<1> QED BY <1>1, <1>2 DEF AInv, TInv

\* ... and takes nothing new up.
LEMMA QuietStepFits ==
  ASSUME AInv, IInv', UNCHANGED <<fleet, hub, disk, alerted>>, NEW c \in Clients,
         \A d \in Clients \ {c} :
           /\ Unmoved(d)
           /\ mem'[d] = mem[d]
           /\ wire'[d] = wire[d]
           /\ PumpWaits(d)' <=> PumpWaits(d)
           /\ PumpWaits(d) => pump'.seq = pump.seq,
         MoreTypes',
         mem'[c].read = mem[c].read \/ mem'[c].read = [ep \in Episodes |-> 0],
         mem'[c].batch = mem[c].batch \/ mem'[c].batch = None \/ mem'[c].batch = << >>,
         sub'[c] = sub[c] \/ sub'[c] = None,
         Coming(wire[c], Waiting(c))' = Coming(wire[c], Waiting(c))
           \/ Coming(wire[c], Waiting(c))' = {}
  PROVE  AInv'
<1>1. LogMoves
  BY HubKept
<1>2. IInv /\ Types' /\ MoreTypes /\ AlertsFit(c)
  BY DEF AInv, TInv, IInv
<1>3. alerted'[c] = alerted[c] /\ disk'[c] = disk[c]
  OBVIOUS
<1>4. AlertsFit(c)'
  BY <1>1, <1>2, <1>3, UntouchedFit
<1> QED BY <1>4, ClientStepFits

\* A message of the replay, or of the pump, goes onto the wire.
LEMMA SentComing ==
  ASSUME IInv, NEW c \in Clients, Waiting(c) # << >>,
         wire'[c] = Append(wire[c], Head(Waiting(c))), Waiting(c)' = Tail(Waiting(c))
  PROVE  Coming(wire[c], Waiting(c))' = Coming(wire[c], Waiting(c))
<1> DEFINE w == wire[c]
           r == Waiting(c)
<1>1. w \in Seq(Messages) /\ r \in Seq(Messages) /\ InTurn(w, r) /\ r # << >>
  BY WaitingType DEF IInv, Lane
<1>2. wire'[c] = Append(w, Head(r)) /\ Waiting(c)' = Tail(r)
  OBVIOUS
<1> HIDE DEF w, r
<1>3. Coming(Append(w, Head(r)), Tail(r)) = Coming(w, r)
  BY <1>1, SendingKeeps
<1> QED BY <1>2, <1>3 DEF w, r

LEMMA RegisterFits ==
  ASSUME AInv, IInv', NEW c \in Clients, Register(c)
  PROVE  AInv'
<1>1. /\ conn[c] = "joining" /\ conn' = [conn EXCEPT ![c] = "up"]
      /\ UNCHANGED <<fleet, hub, pump, sub, connects, listing, wire, uplink, mem, disk, alerted>>
  BY DEF Register, runtime
<1>2. \A d \in Clients : /\ Waiting(d)' = Waiting(d) /\ (PumpWaits(d)' <=> PumpWaits(d))
                         /\ (PumpWaits(d) => pump'.seq = pump.seq)
  BY <1>1 DEF Waiting, PumpWaits
<1>3. \A d \in Clients \ {c} : Unmoved(d)
  BY <1>1 DEF Unmoved, AInv, TInv, IInv, Types
<1>4. MoreTypes'
  BY <1>1, MoreTypesKept DEF AInv, TInv, hub
<1> QED BY <1>1, <1>2, <1>3, <1>4, QuietStepFits

LEMMA ListPanesFits ==
  ASSUME AInv, IInv', NEW c \in Clients, ListPanes(c)
  PROVE  AInv'
<1>1. UNCHANGED <<fleet, hub, pump, sub, conn, connects, wire, uplink, mem, disk, alerted>>
  BY DEF ListPanes, runtime
<1>2. \A d \in Clients : /\ Waiting(d)' = Waiting(d) /\ (PumpWaits(d)' <=> PumpWaits(d))
                         /\ (PumpWaits(d) => pump'.seq = pump.seq)
  BY <1>1 DEF Waiting, PumpWaits
<1>3. PICK ok : listing' = [listing EXCEPT ![c] = [ok |-> ok, panes |-> Open]]
  BY DEF ListPanes
<1>4. \A d \in Clients \ {c} : Unmoved(d)
  BY <1>1, <1>3 DEF Unmoved, AInv, TInv, IInv, Types
<1>5. MoreTypes'
  BY <1>1, MoreTypesKept DEF AInv, TInv, hub
<1> QED BY <1>1, <1>2, <1>4, <1>5, QuietStepFits

LEMMA PumpSendFits ==
  ASSUME AInv, IInv', NEW c \in Clients, PumpSend(c)
  PROVE  AInv'
<1>0. IInv /\ Types
  BY DEF AInv, TInv, IInv
<1>1. /\ pump # None /\ c \in pump.to /\ pump \in Pumps
      /\ wire' = [wire EXCEPT ![c] = Append(@, Event(pump.seq))]
      /\ pump' = Without(pump, c)
      /\ UNCHANGED <<fleet, hub, sub, conn, connects, listing, uplink, mem, disk, alerted>>
  BY <1>0 DEF PumpSend, PumpWaits, Types, runtime
<1>2. /\ \A d \in Clients : PumpWaits(d)' <=> PumpWaits(d) /\ d # c
      /\ \A d \in Clients \ {c} : PumpWaits(d) => pump'.seq = pump.seq
  <2>1. CASE pump.to \subseteq {c}
    BY <1>1, <2>1 DEF Without, PumpWaits
  <2>2. CASE ~(pump.to \subseteq {c})
    <3>1. pump' = [pump EXCEPT !.to = pump.to \ {c}]
      BY <1>1, <2>2 DEF Without
    <3>2. pump' \in Pumps /\ pump'.seq = pump.seq /\ pump'.to = pump.to \ {c}
      BY <1>1, <2>2, <3>1 DEF Pumps
    <3>3. pump' # None
      BY <3>2, NoneAssumption
    <3> QED BY <1>1, <3>2, <3>3 DEF PumpWaits
  <2> QED BY <2>1, <2>2
<1>3. sub[c] # None /\ sub[c].active /\ sub[c].todo = << >>
  BY <1>0, <1>1 DEF IInv, PumpInOrder, Lane, AfterSubscription, Fed
<1>4. Coming(wire[c], Waiting(c))' = Coming(wire[c], Waiting(c))
  <2>1. Waiting(c) = <<Event(pump.seq)>> /\ Waiting(c)' = << >>
    BY <1>1, <1>2, <1>3 DEF Waiting, PumpWaits
  <2>2. Waiting(c) # << >> /\ Head(Waiting(c)) = Event(pump.seq) /\ Waiting(c)' = Tail(Waiting(c))
    BY <2>1
  <2>3. wire'[c] = Append(wire[c], Event(pump.seq))
    BY <1>0, <1>1 DEF Types
  <2> QED BY <1>0, <2>2, <2>3, SentComing
<1>5. \A d \in Clients \ {c} : Unmoved(d) /\ wire'[d] = wire[d]
  BY <1>0, <1>1 DEF Unmoved, Types
<1>6. MoreTypes'
  BY <1>1, MoreTypesKept DEF AInv, TInv, hub
<1> QED BY <1>1, <1>2, <1>4, <1>5, <1>6, QuietStepFits

\* An event that is coming is on the wire or waits for it.
LEMMA ComesFrom ==
  ASSUME NEW c \in Clients, NEW n \in Comes(c)'
  PROVE  /\ n \in Nat /\ n \in 1..Len(log')
         /\ \/ \E i \in DOMAIN wire'[c] : wire'[c][i] = Event(n)
            \/ \E i \in DOMAIN Waiting(c)' : Waiting(c)'[i] = Event(n)
  BY DEF Comes, Coming

LEMMA OnTheWireComes ==
  ASSUME IInv, NEW c \in Clients, NEW n \in 1..Len(log),
         \/ \E i \in DOMAIN wire[c] : wire[c][i] = Event(n)
         \/ \E i \in DOMAIN Waiting(c) : Waiting(c)[i] = Event(n)
  PROVE  n \in Comes(c)
<1>1. wire[c] \in Seq(Messages) /\ Waiting(c) \in Seq(Messages)
  BY WaitingType DEF IInv
<1>2. Event(n) \in Messages
  BY <1>1
<1>3. Told(Event(n))
  BY DEF Told, Event
<1> QED BY <1>2, <1>3 DEF Comes, Coming

\* The batch ends before what was handed out.
LEMMA BatchUpTo ==
  ASSUME IInv, NEW c \in Clients, sub[c] # None, mem[c].batch # None
  PROVE  \A i \in DOMAIN mem[c].batch : mem[c].batch[i] \in Nat /\ mem[c].batch[i] <= sub[c].upto
<1>1. AfterSubscription(c) /\ sub[c].upto \in Nat
  BY SubType DEF IInv, Lane
<1>2. Replaying(c)
  BY <1>1 DEF AfterSubscription, Following, IInv, Types
<1>3. PICK m \in 0..sub[c].upto, gap \in BOOLEAN : ReplayingTo(c, m, gap)
  BY <1>2 DEF Replaying
<1>4. mem[c].batch \in Seq(1..MaxSeq)
  BY DEF IInv, Types, Batches
<1>5. \A i \in DOMAIN mem[c].batch : mem[c].batch[i] <= m /\ mem[c].batch[i] \in 1..MaxSeq
  BY <1>3, <1>4 DEF ReplayingTo
<1> QED BY <1>1, <1>3, <1>5

\* More of the log is handed out to a client that handles nothing.
LEMMA HandedOutFits ==
  ASSUME IInv, Types', MoreTypes, LogMoves, NEW c \in Clients, AlertsFit(c),
         alerted'[c] = alerted[c], disk'[c] = disk[c], mem'[c] = mem[c],
         sub[c] # None, sub'[c] # None, sub'[c].upto >= sub[c].upto,
         \A n \in Comes(c)' : n \in Comes(c) \/ (n \in 1..Len(log) /\ n > sub[c].upto)
  PROVE  AlertsFit(c)'
<1>1. Types /\ sub[c].upto \in Nat
  BY SubType DEF IInv
<1>2. Kept(c)' \subseteq Due(c) \cup NewPlaces
  <2>1. \A n \in Kept(c) : n \in 1..Len(log)
    BY DEF Kept
  <2> QED BY <1>1, <2>1, KeptStill
<1>3. \A n \in Comes(c)' : n \in Due(c)
  BY DEF Due
<1>4. \A n \in Due(c)' : Blocked(n)' => n \in Due(c) \cup NewPlaces
  BY <1>1, <1>2, <1>3, DueFrom
<1>5. BatchInTurn(c)'
  <2> SUFFICES ASSUME mem[c].batch # None, NEW i \in DOMAIN mem[c].batch, NEW n \in Comes(c)'
               PROVE  mem[c].batch[i] < n
    BY DEF BatchInTurn, AlertsFit
  <2>1. CASE n \in Comes(c)
    BY <2>1 DEF AlertsFit, BatchInTurn
  <2>2. CASE n \in 1..Len(log) /\ n > sub[c].upto
    BY <1>1, <2>2, BatchUpTo
  <2> QED BY <2>1, <2>2
<1> QED BY <1>1, <1>4, <1>5, FitKept

LEMMA PumpTakeFits ==
  ASSUME AInv, IInv', PumpTake
  PROVE  AInv'
<1>0. IInv /\ Types /\ Types' /\ MoreTypes
  BY DEF AInv, TInv, IInv
<1> DEFINE n == Head(queue)
           targets == PumpTargets(n)
<1>1. /\ pump = None /\ UNCHANGED <<fleet, epoch, log, low, conn, connects, listing, wire, uplink, mem, disk, alerted>>
      /\ sub' = [c \in Clients |-> IF c \in targets THEN [sub[c] EXCEPT !.upto = n] ELSE sub[c]]
      /\ pump' = IF targets = {} THEN None ELSE [seq |-> n, to |-> targets]
      /\ queue # << >>
  BY DEF PumpTake, runtime
<1>2. n \in 1..MaxSeq /\ n \in Nat /\ n <= Len(log) /\ Len(log) \in Nat
  <2>1. queue \in Seq(1..MaxSeq) /\ queue # << >>
    BY <1>0, <1>1 DEF Types
  <2>2. n = queue[1] /\ 1 \in DOMAIN queue /\ n \in 1..MaxSeq
    BY <2>1
  <2> QED BY <1>0, <2>2, LogLength DEF IInv, PumpInOrder
<1>3. \A c \in Clients :
        c \in targets <=> sub[c] # None /\ sub[c].active /\ n > sub[c].upto
  BY DEF PumpTargets, Subscribed
<1> HIDE DEF n, targets
<1>4. LogMoves /\ LogInOrder' /\ NewIsSilent' /\ MoreTypes'
  <2>1. LogMoves
    BY <1>0, <1>1, LogLength DEF LogMoves
  <2>2. LogInOrder' /\ NewIsSilent'
    BY <1>1 DEF AInv, LogInOrder, Blocked, NewIsSilent
  <2> QED BY <1>0, <1>1, <2>1, <2>2, MoreTypesKept
<1>5. ASSUME NEW c \in Clients, c \notin targets PROVE AlertsFit(c)'
  <2>1. sub'[c] = sub[c] /\ wire'[c] = wire[c] /\ mem'[c] = mem[c] /\ disk'[c] = disk[c]
        /\ alerted'[c] = alerted[c]
    BY <1>1, <1>5
  <2>2. ~PumpWaits(c) /\ ~PumpWaits(c)'
    BY <1>1, <1>5 DEF PumpWaits
  <2>3. Waiting(c)' = Waiting(c)
    BY <2>1, <2>2 DEF Waiting
  <2>4. Coming(wire[c], Waiting(c))' = Coming(wire[c], Waiting(c))
    BY <2>1, <2>3
  <2>5. AlertsFit(c)
    BY DEF AInv
  <2> QED BY <1>0, <1>4, <2>1, <2>4, <2>5, UntouchedFit
<1>6. ASSUME NEW c \in Clients, c \in targets PROVE AlertsFit(c)'
  <2>1. /\ sub[c] # None /\ sub[c].active /\ n > sub[c].upto /\ sub[c] \in Subs /\ sub[c].upto \in Nat
        /\ Fed(c)
    BY <1>0, <1>3, <1>6, SubType, FedAll
  <2>2. sub'[c] = [sub[c] EXCEPT !.upto = n]
    BY <1>1, <1>6
  <2>3. n \in 0..MaxSeq
    BY <1>2
  <2>4. sub'[c] \in Subs /\ sub'[c].upto = n /\ sub'[c].todo = sub[c].todo
    BY <2>1, <2>2, <2>3 DEF Subs
  <2>5. sub'[c] # None
    BY <2>4, NoneAssumption
  <2>6. Waiting(c)' = <<Event(n)>> \/ Waiting(c)' = << >>
    <3>1. sub'[c].todo = << >>
      BY <2>1, <2>4 DEF Fed
    <3>2. pump' = [seq |-> n, to |-> targets]
      BY <1>1, <1>6
    <3> QED BY <2>5, <3>1, <3>2 DEF Waiting
  <2>7. ASSUME NEW k \in Comes(c)' PROVE k \in Comes(c) \/ (k \in 1..Len(log) /\ k > sub[c].upto)
    <3>1. k \in 1..Len(log)
      BY <1>1, <2>7, ComesFrom
    <3>2. CASE \E i \in DOMAIN wire'[c] : wire'[c][i] = Event(k)
      BY <1>0, <1>1, <3>1, <3>2, OnTheWireComes
    <3>3. CASE \E i \in DOMAIN Waiting(c)' : Waiting(c)'[i] = Event(k)
      <4>1. Waiting(c)' = <<Event(n)>>
        <5>1. DOMAIN << >> = {}
          OBVIOUS
        <5> QED BY <2>6, <3>3, <5>1
      <4>2. Event(k) = Event(n)
        BY <3>3, <4>1
      <4>3. k = n
        BY <4>2 DEF Event
      <4> QED BY <2>1, <3>1, <4>3
    <3> QED BY <2>7, <3>2, <3>3, ComesFrom
  <2>8. AlertsFit(c) /\ mem'[c] = mem[c] /\ disk'[c] = disk[c] /\ alerted'[c] = alerted[c]
    BY <1>1 DEF AInv
  <2>9. sub'[c].upto >= sub[c].upto
    BY <1>2, <2>1, <2>4
  <2> QED BY <1>0, <1>4, <2>1, <2>5, <2>7, <2>8, <2>9, HandedOutFits
<1> QED BY <1>4, <1>5, <1>6 DEF AInv, TInv

LEMMA SendReplayFits ==
  ASSUME AInv, IInv', NEW c \in Clients, SendReplay(c)
  PROVE  AInv'
<1>0. IInv /\ Types /\ Types' /\ MoreTypes /\ AlertsFit(c)
  BY DEF AInv, TInv, IInv
<1>1. /\ sub[c] # None /\ ~sub[c].active /\ ~PumpWaits(c) /\ sub[c].todo # << >>
      /\ wire' = [wire EXCEPT ![c] = Append(wire[c], Head(sub[c].todo))]
      /\ sub' = [sub EXCEPT ![c] = [sub[c] EXCEPT !.todo = Tail(sub[c].todo)]]
      /\ UNCHANGED <<fleet, hub, pump, conn, connects, listing, uplink, mem, disk, alerted>>
  BY DEF SendReplay, CatchingUp, Subscribed, runtime
<1>2. sub[c] \in Subs /\ sub[c].upto \in Nat /\ sub[c].todo \in Seq(Messages)
  BY <1>0, <1>1, SubType
<1>3. sub'[c] = [sub[c] EXCEPT !.todo = Tail(sub[c].todo)]
  BY <1>0, <1>1 DEF Types
<1>4. sub'[c] \in Subs /\ sub'[c].upto = sub[c].upto /\ sub'[c].todo = Tail(sub[c].todo)
  <2>1. Tail(sub[c].todo) \in Seq(Messages)
    BY <1>1, <1>2
  <2> QED BY <1>2, <1>3, <2>1 DEF Subs
<1>5. sub'[c] # None
  BY <1>4, NoneAssumption
<1>6. \A d \in Clients \ {c} :
           /\ Unmoved(d)
           /\ mem'[d] = mem[d]
           /\ wire'[d] = wire[d]
           /\ PumpWaits(d)' <=> PumpWaits(d)
           /\ PumpWaits(d) => pump'.seq = pump.seq
  BY <1>0, <1>1 DEF Unmoved, PumpWaits, Types
<1>7. Coming(wire[c], Waiting(c))' = Coming(wire[c], Waiting(c))
  <2>1. Waiting(c) = sub[c].todo /\ Waiting(c)' = Tail(sub[c].todo)
    BY <1>1, <1>4, <1>5 DEF Waiting, PumpWaits
  <2>2. wire'[c] = Append(wire[c], Head(sub[c].todo))
    BY <1>0, <1>1 DEF Types
  <2> QED BY <1>0, <1>1, <2>1, <2>2, SentComing
<1>8. Comes(c)' = Comes(c)
  BY <1>1, <1>7 DEF Comes, hub
<1>9. LogMoves
  BY <1>1, HubKept
<1>10. AlertsFit(c)'
  BY <1>0, <1>1, <1>2, <1>4, <1>5, <1>8, <1>9, HandedOutFits
<1>11. MoreTypes'
  BY <1>0, <1>1, MoreTypesKept DEF hub
<1> QED BY <1>1, <1>6, <1>10, <1>11, ClientStepFits

LEMMA CatchUpFits ==
  ASSUME AInv, IInv', NEW c \in Clients, CatchUp(c)
  PROVE  AInv'
<1>0. IInv /\ Types /\ Types' /\ MoreTypes /\ AlertsFit(c)
  BY DEF AInv, TInv, IInv
<1> DEFINE pending == Pending(c)
           old == sub[c].upto
<1>1. /\ sub[c] # None /\ ~sub[c].active /\ sub[c].todo = << >>
      /\ sub' = [sub EXCEPT ![c] =
                   IF pending = {} THEN [sub[c] EXCEPT !.active = TRUE]
                   ELSE [sub[c] EXCEPT !.todo = Events(pending), !.upto = Len(log)]]
      /\ UNCHANGED <<fleet, hub, pump, conn, connects, listing, wire, uplink, mem, disk, alerted>>
  BY DEF CatchUp, CatchingUp, Subscribed, runtime
<1>2. /\ sub[c] \in Subs /\ old \in Nat /\ old <= Len(log) /\ Len(log) \in 0..MaxSeq /\ low \in 1..(Len(log) + 1)
  <2>1. Fed(c)
    BY <1>0, <1>1, FedAll
  <2> QED BY <1>0, <1>1, <2>1, SubType DEF Fed, Types
<1>3. /\ pending \in SUBSET (1..MaxSeq)
      /\ \A n \in pending : n \in 1..Len(log) /\ n > old
  BY <1>2 DEF Pending, Ring
<1> HIDE DEF pending
<1>4. /\ sub'[c] \in Subs /\ sub'[c].upto >= old
      /\ (sub'[c].todo = << >> \/ sub'[c].todo = Events(pending))
  <2>1. CASE pending = {}
    <3>1. sub'[c] = [sub[c] EXCEPT !.active = TRUE]
      BY <1>0, <1>1, <2>1 DEF Types
    <3>2. sub'[c] \in Subs /\ sub'[c].upto = old /\ sub'[c].todo = sub[c].todo
      BY <1>2, <3>1 DEF Subs
    <3> QED BY <1>1, <1>2, <3>2
  <2>2. CASE pending # {}
    <3>1. sub'[c] = [sub[c] EXCEPT !.todo = Events(pending), !.upto = Len(log)]
      BY <1>0, <1>1, <2>2 DEF Types
    <3>2. Events(pending) \in Seq(Messages)
      BY <1>3, EventsInOrder
    <3>3. Len(log) \in 0..MaxSeq /\ sub[c] \in Subs /\ Len(log) >= old
      BY <1>2
    <3> HIDE DEF old
    <3>4. sub'[c] \in Subs /\ sub'[c].upto = Len(log) /\ sub'[c].todo = Events(pending)
      BY <3>1, <3>2, <3>3 DEF Subs
    <3> QED BY <3>3, <3>4
  <2> QED BY <2>1, <2>2
<1>5. sub'[c] # None
  BY <1>4, NoneAssumption
<1>6. ~PumpWaits(c) /\ ~PumpWaits(c)'
  BY <1>0, <1>1 DEF IInv, PumpInOrder, PumpWaits
<1>7. \A d \in Clients \ {c} :
           /\ Unmoved(d)
           /\ mem'[d] = mem[d]
           /\ wire'[d] = wire[d]
           /\ PumpWaits(d)' <=> PumpWaits(d)
           /\ PumpWaits(d) => pump'.seq = pump.seq
  BY <1>0, <1>1 DEF Unmoved, PumpWaits, Types
<1>8. ASSUME NEW k \in Comes(c)' PROVE k \in Comes(c) \/ (k \in 1..Len(log) /\ k > old)
  <2>1. k \in 1..Len(log)
    BY <1>1, <1>8, ComesFrom DEF hub
  <2>2. CASE \E i \in DOMAIN wire'[c] : wire'[c][i] = Event(k)
    BY <1>0, <1>1, <2>1, <2>2, OnTheWireComes
  <2>3. CASE \E i \in DOMAIN Waiting(c)' : Waiting(c)'[i] = Event(k)
    <3>1. Waiting(c)' = sub'[c].todo
      BY <1>5, <1>6 DEF Waiting
    <3>2. Waiting(c)' = Events(pending)
      <4>1. DOMAIN << >> = {}
        OBVIOUS
      <4> QED BY <1>4, <2>3, <3>1, <4>1
    <3>3. PICK n \in pending : Event(k) = Event(n)
      BY <1>3, <2>3, <3>2, EventsInOrder
    <3>4. k = n
      BY <3>3 DEF Event
    <3> QED BY <1>3, <3>4
  <2> QED BY <1>8, <2>2, <2>3, ComesFrom
<1>9. LogMoves
  BY <1>1, HubKept
<1>10. AlertsFit(c)'
  BY <1>0, <1>1, <1>4, <1>5, <1>8, <1>9, HandedOutFits
<1>11. MoreTypes'
  BY <1>0, <1>1, MoreTypesKept DEF hub
<1> QED BY <1>1, <1>7, <1>10, <1>11, ClientStepFits

-----------------------------------------------------------------------------
(* Connections that open and close.                                        *)

\* A runtime forgets what the connection was about, and shows what it showed.
LEMMA ForgetsKeeps ==
  ASSUME Types, MoreTypes, NEW c \in Clients
  PROVE  /\ Remembers(Forgets(mem[c])) /\ Forgets(mem[c]).batch = None
         /\ Forgets(mem[c]).read = mem[c].read
<1>1. DOMAIN mem[c] = {"batch", "alert", "synced", "resent", "view", "read", "spent"}
  BY MemoryFields DEF Types
<1>2. /\ Forgets(mem[c]).batch = None /\ Forgets(mem[c]).alert = FALSE
      /\ Forgets(mem[c]).read = mem[c].read /\ Forgets(mem[c]).view = mem[c].view
      /\ Forgets(mem[c]).spent = mem[c].spent /\ Forgets(mem[c]).resent = mem[c].resent
  BY <1>1 DEF Forgets
<1> QED BY <1>2 DEF Remembers, MoreTypes

\* A client that is not subscribed hears nothing of the log.
LEMMA UnsubscribedHears ==
  ASSUME IInv, NEW c \in Clients, sub[c] = None
  PROVE  Coming(wire[c], Waiting(c)) = {} /\ Comes(c) = {}
<1>1. Coming(wire[c], Waiting(c)) = {}
  BY DEF IInv, Lane, BeforeSubscription
<1> QED BY <1>1 DEF Comes

LEMMA ConnectFits ==
  ASSUME AInv, IInv', NEW c \in Clients, Connect(c)
  PROVE  AInv'
<1>0. IInv /\ Types /\ Types' /\ MoreTypes
  BY DEF AInv, TInv, IInv
<1>1. /\ conn[c] = "down" /\ connects[c] < MaxConnects
      /\ conn' = [conn EXCEPT ![c] = "joining"]
      /\ connects' = [connects EXCEPT ![c] = connects[c] + 1]
      /\ wire' = [wire EXCEPT ![c] = <<Snapshot(Open)>>]
      /\ uplink' = [uplink EXCEPT ![c] = <<Request(c)>>]
      /\ mem' = [mem EXCEPT ![c] = [NewBatch(c) EXCEPT !.synced = FALSE, !.resent = FALSE]]
      /\ UNCHANGED <<fleet, hub, pump, sub, listing, disk, alerted>>
  BY DEF Connect
<1>2. sub[c] = None /\ sub' = sub
  BY <1>0, <1>1 DEF IInv, Lane, AfterSubscription
<1>3. Coming(wire[c], Waiting(c))' = {}
  <2>1. sub'[c] = None
    BY <1>2
  <2> QED BY <2>1 DEF IInv, Lane, BeforeSubscription
<1>4. /\ Remembers(mem'[c]) /\ mem'[c].batch = << >> /\ mem'[c].read = mem[c].read
      /\ \A d \in Clients \ {c} : mem'[d] = mem[d]
  <2>1. DOMAIN mem[c] = {"batch", "alert", "synced", "resent", "view", "read", "spent"}
    BY <1>0, MemoryFields DEF Types
  <2>2. /\ mem'[c] = [NewBatch(c) EXCEPT !.synced = FALSE, !.resent = FALSE]
        /\ \A d \in Clients \ {c} : mem'[d] = mem[d]
    BY <1>0, <1>1 DEF Types
  <2>3. /\ mem'[c].batch = << >> /\ mem'[c].alert = (disk[c].cursor # None)
        /\ mem'[c].read = mem[c].read /\ mem'[c].view = mem[c].view
        /\ mem'[c].spent = mem[c].spent /\ mem'[c].resent = FALSE
    BY <2>1, <2>2 DEF NewBatch
  <2>4. mem'[c].alert \in BOOLEAN
    BY <2>3
  <2> QED BY <1>0, <2>2, <2>3, <2>4 DEF Remembers, MoreTypes
<1>5. \A d \in Clients \ {c} :
        /\ Unmoved(d)
        /\ mem'[d] = mem[d]
        /\ wire'[d] = wire[d]
        /\ PumpWaits(d)' <=> PumpWaits(d)
        /\ PumpWaits(d) => pump'.seq = pump.seq
  BY <1>0, <1>1, <1>4 DEF Unmoved, PumpWaits, Types
<1>6. MoreTypes'
  <2>1. connects' \in [Clients -> 0..MaxConnects]
    <3>1. connects \in [Clients -> 0..MaxConnects] /\ connects[c] \in 0..MaxConnects
      BY <1>0 DEF MoreTypes
    <3>2. connects[c] + 1 \in 0..MaxConnects
      <4>1. MaxConnects \in Nat
        BY FanoutAssumption
      <4> QED BY <1>1, <3>1, <4>1
    <3> QED BY <1>1, <3>1, <3>2
  <2>2. \A d \in Clients : uplink'[d] = uplink[d] \/ uplink'[d] = <<Request(d)>>
    BY <1>0, <1>1 DEF Types
  <2>3. log' = log /\ low' = low /\ alerted' = alerted /\ disk' = disk
    BY <1>1 DEF hub
  <2>4. /\ \A d \in Clients : alerted'[d] \in [Asks -> 0..2] /\ disk'[d].known \in SUBSET Episodes
        /\ alerted' = [d \in Clients |-> alerted'[d]]
    BY <1>0, <2>3 DEF MoreTypes
  <2>5. \A d \in Clients : mem'[d] = mem[d] \/ Remembers(mem'[d])
    BY <1>4
  <2> QED BY <1>0, <2>1, <2>2, <2>3, <2>4, <2>5, MoreTypesOfOne
<1> QED BY <1>1, <1>2, <1>3, <1>4, <1>5, <1>6, QuietStepFits

\* A connection that closes takes all that was on its way with it.
LEMMA ClosedLeaves ==
  ASSUME Types, Types', NEW c \in Clients, Closed(c), UNCHANGED hub,
         NEW m, mem' = [mem EXCEPT ![c] = m],
         \A d \in Clients : disk'[d].cursor = disk[d].cursor
  PROVE  /\ mem'[c] = m /\ sub'[c] = None
         /\ \A d \in Clients : uplink'[d] = uplink[d] \/ uplink'[d] = << >>
         /\ \A d \in Clients \ {c} :
              /\ Unmoved(d)
              /\ mem'[d] = mem[d]
              /\ wire'[d] = wire[d]
              /\ PumpWaits(d)' <=> PumpWaits(d)
              /\ PumpWaits(d) => pump'.seq = pump.seq
<1>1. /\ conn' = [conn EXCEPT ![c] = "down"]
      /\ wire' = [wire EXCEPT ![c] = << >>]
      /\ uplink' = [uplink EXCEPT ![c] = << >>]
      /\ listing' = [listing EXCEPT ![c] = None]
      /\ sub' = [sub EXCEPT ![c] = None]
      /\ pump' = Without(pump, c)
  BY DEF Closed
<1>2. \A d \in Clients \ {c} : /\ PumpWaits(d)' <=> PumpWaits(d)
                               /\ PumpWaits(d) => pump'.seq = pump.seq
  <2>1. CASE pump = None \/ pump.to \subseteq {c}
    <3>1. pump' = None
      BY <1>1, <2>1 DEF Without
    <3> QED BY <2>1, <3>1 DEF PumpWaits
  <2>2. CASE ~(pump = None \/ pump.to \subseteq {c})
    <3>1. pump' = [pump EXCEPT !.to = pump.to \ {c}]
      BY <1>1, <2>2 DEF Without
    <3>2. pump' \in Pumps /\ pump'.seq = pump.seq /\ pump'.to = pump.to \ {c}
      BY <2>2, <3>1 DEF Types, Pumps
    <3>3. pump' # None
      BY <3>2, NoneAssumption
    <3> QED BY <2>2, <3>2, <3>3 DEF PumpWaits
  <2> QED BY <2>1, <2>2
<1>3. mem'[c] = m /\ \A d \in Clients \ {c} : mem'[d] = mem[d]
  BY DEF Types
<1>4. \A d \in Clients \ {c} :
        /\ conn'[d] = conn[d] /\ wire'[d] = wire[d] /\ uplink'[d] = uplink[d]
        /\ listing'[d] = listing[d] /\ sub'[d] = sub[d]
  BY <1>1 DEF Types
<1>5. sub'[c] = None /\ uplink'[c] = << >>
  BY <1>1 DEF Types
<1>6. \A d \in Clients \ {c} : Unmoved(d)
  BY <1>3, <1>4 DEF Unmoved
<1> QED BY <1>2, <1>3, <1>4, <1>5, <1>6

LEMMA ClosingFits ==
  ASSUME AInv, IInv', NEW c \in Clients, Closed(c), UNCHANGED <<fleet, hub, connects, disk, alerted>>,
         NEW m, mem' = [mem EXCEPT ![c] = m], Remembers(m), m.batch = None,
         m.read = mem[c].read \/ m.read = [ep \in Episodes |-> 0]
  PROVE  AInv'
<1>0. IInv /\ Types /\ Types' /\ MoreTypes
  BY DEF AInv, TInv, IInv
<1>1. /\ mem'[c] = m /\ sub'[c] = None
      /\ \A d \in Clients : uplink'[d] = uplink[d] \/ uplink'[d] = << >>
      /\ \A d \in Clients \ {c} :
           /\ Unmoved(d)
           /\ mem'[d] = mem[d]
           /\ wire'[d] = wire[d]
           /\ PumpWaits(d)' <=> PumpWaits(d)
           /\ PumpWaits(d) => pump'.seq = pump.seq
  BY <1>0, ClosedLeaves
<1>2. Coming(wire[c], Waiting(c))' = {}
  BY <1>1 DEF IInv, Lane, BeforeSubscription
<1>3. MoreTypes'
  <2>1. log' = log /\ low' = low /\ alerted' = alerted /\ disk' = disk /\ connects' = connects
    BY DEF hub
  <2>2. /\ \A d \in Clients : alerted'[d] \in [Asks -> 0..2] /\ disk'[d].known \in SUBSET Episodes
        /\ alerted' = [d \in Clients |-> alerted'[d]]
        /\ connects' \in [Clients -> 0..MaxConnects]
    BY <1>0, <2>1 DEF MoreTypes
  <2>3. \A d \in Clients : mem'[d] = mem[d] \/ Remembers(mem'[d])
    BY <1>1
  <2> QED BY <1>0, <1>1, <2>1, <2>2, <2>3, MoreTypesOfOne
<1> QED BY <1>1, <1>2, <1>3, QuietStepFits

LEMMA DropFits ==
  ASSUME AInv, IInv', NEW c \in Clients, Drop(c)
  PROVE  AInv'
<1>0. Types /\ MoreTypes
  BY DEF AInv, TInv, IInv
<1>1. /\ Closed(c) /\ mem' = [mem EXCEPT ![c] = Forgets(mem[c])]
      /\ UNCHANGED <<fleet, hub, connects, disk, alerted>>
  BY <1>0 DEF Drop, Types
<1> QED BY <1>0, <1>1, ForgetsKeeps, ClosingFits

LEMMA CrashFits ==
  ASSUME AInv, IInv', NEW c \in Clients, Crash(c)
  PROVE  AInv'
<1>1. /\ Closed(c) /\ mem' = [mem EXCEPT ![c] = NoMemory]
      /\ UNCHANGED <<fleet, hub, connects, disk, alerted>>
  BY DEF Crash
<1> QED BY <1>1, NothingRemembered, ClosingFits

LEMMA BridgeRestartFits ==
  ASSUME AInv, IInv', BridgeRestart
  PROVE  AInv'
<1>0. IInv /\ Types /\ Types' /\ MoreTypes /\ NewIsSilent
  BY DEF AInv, TInv, IInv
<1>1. /\ log' = << >> /\ low' = 1
      /\ uplink' = [c \in Clients |-> << >>]
      /\ mem' = [c \in Clients |-> Forgets(mem[c])]
      /\ connects' = connects /\ disk' = disk /\ alerted' = alerted
  BY DEF BridgeRestart
<1>2. PICK ended \in SUBSET Open :
        fleet' = [ep \in Episodes |->
                    IF ep \in ended THEN [fleet[ep] EXCEPT !.state = "over"] ELSE fleet[ep]]
  BY DEF BridgeRestart
<1>3. \A ep \in Episodes : /\ fleet'[ep].asks = fleet[ep].asks
                           /\ fleet'[ep].state = "new" => fleet[ep].state = "new"
  <2> TAKE ep \in Episodes
  <2>1. fleet[ep] \in [state : {"new", "open", "over"}, asks : 0..MaxQuestions, done : 0..MaxQuestions]
    BY <1>0 DEF Types
  <2>2. CASE ep \in ended
    <3>1. fleet'[ep] = [fleet[ep] EXCEPT !.state = "over"]
      BY <1>2, <2>2
    <3> QED BY <2>1, <3>1
  <2>3. CASE ep \notin ended
    BY <1>2, <2>3
  <2> QED BY <2>2, <2>3
<1>4. Len(log') = 0 /\ 1..Len(log') = {}
  BY <1>1
<1>5. NewIsSilent' /\ LogInOrder'
  BY <1>0, <1>3, <1>4 DEF NewIsSilent, LogInOrder, Blocked
<1>6. \A c \in Clients : /\ Remembers(mem'[c]) /\ mem'[c].batch = None
                         /\ mem'[c].read = mem[c].read
  BY <1>0, <1>1, ForgetsKeeps
<1>7. MoreTypes'
  <2>1. Len(log') + 1 - low' <= RingMax
    BY <1>1, <1>4
  <2>2. \A c \in Clients : DOMAIN uplink'[c] = {} /\ disk'[c].known \in SUBSET Episodes
    BY <1>0, <1>1 DEF MoreTypes
  <2>3. connects' \in [Clients -> 0..MaxConnects] /\ alerted' \in [Clients -> [Asks -> 0..2]]
    BY <1>0, <1>1 DEF MoreTypes
  <2> QED BY <1>6, <2>1, <2>2, <2>3 DEF MoreTypes, Remembers, Asks
<1>8. ASSUME NEW c \in Clients PROVE AlertsFit(c)'
  <2>0. AlertsFit(c) /\ mem'[c].read = mem[c].read
    BY <1>6 DEF AInv
  <2>1. DueOnTime(c)'
    BY <1>4 DEF DueOnTime, Due, LastAsked, Kept, Comes
  <2>2. ShowsAlerted(c)' /\ KnownOnceAlerted(c)' /\ OnceEach(c)'
    BY <1>1, <2>0 DEF AlertsFit, ShowsAlerted, KnownOnceAlerted, OnceEach, Asks
  <2>3. BatchInTurn(c)'
    BY <1>6 DEF BatchInTurn
  <2>4. NotAhead(c)'
    <3>1. \A ep \in Episodes : mem'[c].read[ep] <= fleet'[ep].asks
      BY <1>3, <2>0 DEF AlertsFit, NotAhead
    <3>2. \A x \in Asks : x[1] \in Episodes
      BY DEF Asks
    <3>3. \A x \in Asks : alerted'[c][x] > 0 => x[2] <= fleet'[x[1]].asks
      BY <1>1, <1>3, <2>0, <3>2 DEF AlertsFit, NotAhead
    <3> QED BY <3>1, <3>3 DEF NotAhead, Asks
  <2> QED BY <2>1, <2>2, <2>3, <2>4 DEF AlertsFit
<1> QED BY <1>5, <1>7, <1>8 DEF AInv, TInv

-----------------------------------------------------------------------------
(* A subscription repeats nothing a client handled but the last questions. *)

LEMMA ReplayIsDue ==
  ASSUME IInv, NEW c \in Clients, NEW n \in Replay(Request(c)).places, Blocked(n)
  PROVE  n \in Due(c)
<1> DEFINE r == Request(c)
           cursor == disk[c].cursor
<1>1. Len(log) \in Nat /\ low \in Nat /\ low >= 1 /\ low <= Len(log) + 1
  BY DEF IInv, Types
<1>2. Replay(r).places \in SUBSET (1..Len(log)) /\ n \in 1..Len(log)
  BY ReplayTells
<1>3. CASE ~Here(c)
  BY <1>2, <1>3 DEF Due
<1>4. CASE Here(c)
  <2>1. cursor # None /\ r.after = cursor[2] /\ r.epoch = epoch /\ cursor[2] <= Len(log)
    BY <1>4 DEF Here, Request, IInv, CursorsAreOfLogs
  <2>2. cursor[2] \in Nat /\ r.after # None
    BY <2>1, NoneAssumption DEF IInv, Types, Cursors
  <2> HIDE DEF r, cursor
  <2>3. CASE Reaches(r)
    <3>1. Replay(r) = [places |-> {k \in Ring : k > r.after}, gap |-> FALSE]
      BY <2>2, <2>3 DEF Replay
    <3>2. n > cursor[2]
      BY <2>1, <3>1 DEF r
    <3> QED BY <1>2, <3>2 DEF Due, cursor
  <2>4. CASE ~Reaches(r)
    <3>1. Replay(r) = [places |-> Ring \cup HeldOpen, gap |-> TRUE]
      BY <2>2, <2>4 DEF Replay
    <3>2. n \in Ring \/ n \in HeldOpen
      BY <3>1 DEF r
    <3>3. CASE n \in Ring
      <4>1. n > cursor[2]
        BY <1>1, <2>1, <2>2, <2>4, <3>3 DEF Reaches, Ring
      <4> QED BY <1>2, <4>1 DEF Due, cursor
    <3>4. CASE n \in HeldOpen
      <4>1. PICK ep : n \in Held(ep)
        BY <3>4 DEF HeldOpen
      <4>2. \A k \in 1..Len(log) : n < k => k \in (n + 1)..Len(log)
        BY <1>1, <1>2
      <4>3. n \in LastAsked
        BY <1>2, <4>1, <4>2 DEF Held, LastAsked, Blocked
      <4> QED BY <4>3 DEF Due
    <3> QED BY <3>2, <3>3, <3>4
  <2> QED BY <2>3, <2>4
<1> QED BY <1>3, <1>4

LEMMA SubscribeFits ==
  ASSUME AInv, IInv', NEW c \in Clients, Subscribe(c)
  PROVE  AInv'
<1> DEFINE replay == Replay(Request(c))
           P == replay.places
           gap == replay.gap
           sync == Sync(Len(log), gap)
           todo == Append(Events(P), sync)
<1>0. IInv /\ Types /\ Types' /\ MoreTypes /\ AlertsFit(c) /\ LogMoves
  <2>1. UNCHANGED <<fleet, hub>>
    BY DEF Subscribe
  <2> QED BY <2>1, HubKept DEF AInv, TInv, IInv
<1>1. /\ sub[c] = None /\ conn[c] # "down" /\ BeforeSubscription(c)
      /\ uplink[c] = <<Request(c)>> /\ listing[c] # None
  <2>1. listing[c] # None
    BY DEF Subscribe
  <2> QED BY <1>0, <2>1, ServedIsFirst
<1>2. /\ sub' = [sub EXCEPT ![c] = [todo |-> todo, upto |-> Len(log), active |-> FALSE]]
      /\ wire' = [wire EXCEPT ![c] = wire[c] \o Listed(c)]
      /\ uplink' = [uplink EXCEPT ![c] = Tail(uplink[c])]
      /\ listing' = [listing EXCEPT ![c] = None]
      /\ UNCHANGED <<fleet, hub, pump, conn, connects, mem, disk, alerted>>
  <2>1. Head(uplink[c]) = Request(c)
    BY <1>1
  <2> QED BY <1>0, <2>1 DEF Subscribe, Types, runtime
<1>3. P \in SUBSET (1..Len(log)) /\ Len(log) \in 0..MaxSeq /\ Len(log) \in Nat
  BY <1>0, ReplayTells DEF Types
<1>4. \A n \in P : Blocked(n) => n \in Due(c)
  BY <1>0, ReplayIsDue
<1> HIDE DEF replay, P, gap
<1>5. sync.type = "sync"
  BY DEF Sync
<1> HIDE DEF sync
<1>6. /\ Events(P) \in Seq(Messages)
      /\ \A i \in DOMAIN Events(P) : \E n \in P : Events(P)[i] = Event(n)
  BY <1>3, EventsInOrder
<1>7. \A i \in DOMAIN todo : todo[i] = sync \/ \E n \in P : todo[i] = Event(n)
  <2>1. DOMAIN todo = 1..(Len(Events(P)) + 1) /\ todo[Len(Events(P)) + 1] = sync
        /\ Len(Events(P)) \in Nat /\ DOMAIN Events(P) = 1..Len(Events(P))
        /\ \A i \in DOMAIN Events(P) : todo[i] = Events(P)[i]
    BY <1>6
  <2> HIDE DEF todo
  <2> QED BY <1>6, <2>1
<1> HIDE DEF todo
<1>8. /\ sub'[c] = [todo |-> todo, upto |-> Len(log), active |-> FALSE]
      /\ wire'[c] = wire[c] \o Listed(c)
      /\ uplink'[c] = << >>
      /\ \A d \in Clients \ {c} : sub'[d] = sub[d] /\ wire'[d] = wire[d] /\ uplink'[d] = uplink[d]
                                  /\ listing'[d] = listing[d]
  <2>0. Types
    BY <1>0
  <2>1. /\ sub \in [Clients -> Subs \cup {None}] /\ wire \in [Clients -> Seq(Messages)]
        /\ uplink = [d \in Clients |-> uplink[d]]
        /\ listing \in [Clients -> [ok : BOOLEAN, panes : SUBSET Episodes] \cup {None}]
    BY <2>0 DEF Types
  <2>2. Tail(uplink[c]) = << >>
    BY <1>1
  <2> QED BY <1>2, <2>1, <2>2
<1>9. sub'[c].upto = Len(log) /\ sub'[c].todo = todo
  BY <1>8
<1>10. ~PumpWaits(c) /\ ~PumpWaits(c)'
  <2>1. ~PumpWaits(c)
    BY <1>0, <1>1, NotPumped
  <2> QED BY <1>2, <2>1 DEF PumpWaits
<1>11. \A n \in Comes(c)' : Blocked(n)' => n \in Due(c) \cup NewPlaces
  <2> SUFFICES ASSUME NEW n \in Comes(c)', Blocked(n)' PROVE n \in Due(c)
    OBVIOUS
  <2>1. n \in 1..Len(log) /\ n \in Nat /\ Blocked(n) /\ Event(n).type = "event" /\ Event(n).seq = n
    BY <1>2, ComesFrom DEF hub, Blocked, Event
  <2>2. CASE \E i \in DOMAIN wire'[c] : wire'[c][i] = Event(n)
    <3>1. PICK i \in DOMAIN wire'[c] : wire'[c][i] = Event(n)
      BY <2>2
    <3>2. wire[c] \in Seq(Messages) /\ (Listed(c) = << >> \/ \E panes : Listed(c) = <<Snapshot(panes)>>)
      BY <1>0 DEF Types, Listed
    <3>3. CASE i \in DOMAIN wire[c]
      <4>1. wire[c][i] = Event(n)
        BY <1>8, <3>1, <3>2, <3>3
      <4>2. n \in Comes(c)
        BY <1>0, <2>1, <3>3, <4>1, OnTheWireComes
      <4> QED BY <1>0, <1>1, <4>2, UnsubscribedHears
    <3>4. CASE i \notin DOMAIN wire[c]
      <4>1. \E panes : wire'[c][i] = Snapshot(panes)
        BY <1>8, <3>1, <3>2, <3>4
      <4> QED BY <2>1, <3>1, <4>1 DEF Snapshot
    <3> QED BY <3>3, <3>4
  <2>3. CASE \E i \in DOMAIN Waiting(c)' : Waiting(c)'[i] = Event(n)
    <3>1. PICK i \in DOMAIN Waiting(c)' : Waiting(c)'[i] = Event(n)
      BY <2>3
    <3>2. Waiting(c)' = todo
      <4>1. sub'[c] # None
        <5>1. sub'[c] \in Subs
          <6>1. todo \in Seq(Messages) /\ Len(log) \in 0..MaxSeq
            <7>1. sub'[c] \in Subs \cup {None}
              BY <1>0 DEF Types
            <7>2. sync \in Messages
              <8>1. gap \in BOOLEAN
                BY <1>0, ReplayTells DEF gap, replay
              <8> QED BY <1>3, <8>1, ToldMessages DEF sync
            <7> QED BY <1>3, <1>6, <7>2 DEF todo
          <6> QED BY <1>8, <6>1 DEF Subs
        <5> QED BY <5>1, NoneAssumption
      <4> QED BY <1>9, <1>10, <4>1 DEF Waiting
    <3>3. PICK k \in P : Event(n) = Event(k)
      BY <1>5, <1>7, <2>1, <3>1, <3>2
    <3>4. k = n
      BY <3>3 DEF Event
    <3> QED BY <1>4, <2>1, <3>4
  <2> QED BY <2>2, <2>3, ComesFrom
<1>12. mem'[c] = mem[c] /\ disk'[c] = disk[c] /\ alerted'[c] = alerted[c] /\ mem[c].batch = << >>
  BY <1>1, <1>2 DEF BeforeSubscription
<1>13. \A n \in Due(c)' : Blocked(n)' => n \in Due(c) \cup NewPlaces
  <2>1. Kept(c)' \subseteq Due(c) \cup NewPlaces
    <3>1. \A n \in Kept(c) : n \in 1..Len(log)
      BY DEF Kept
    <3> QED BY <1>0, <1>12, <3>1, KeptStill
  <2>2. sub'[c].upto >= Len(log)
    BY <1>3, <1>9
  <2> QED BY <1>0, <1>11, <1>12, <2>1, <2>2, DueFrom
<1>14. AlertsFit(c)'
  <2>1. BatchInTurn(c)'
    BY <1>0, <1>12, BatchStill DEF AlertsFit
  <2> QED BY <1>0, <1>12, <1>13, <2>1, FitKept
<1>15. \A d \in Clients \ {c} :
           /\ Unmoved(d)
           /\ mem'[d] = mem[d]
           /\ wire'[d] = wire[d]
           /\ PumpWaits(d)' <=> PumpWaits(d)
           /\ PumpWaits(d) => pump'.seq = pump.seq
  BY <1>2, <1>8 DEF Unmoved, PumpWaits
<1>16. MoreTypes'
  <2>1. log' = log /\ low' = low /\ alerted' = alerted /\ disk' = disk /\ connects' = connects /\ mem' = mem
    BY <1>2 DEF hub
  <2>2. /\ \A d \in Clients : alerted'[d] \in [Asks -> 0..2] /\ disk'[d].known \in SUBSET Episodes
        /\ alerted' = [d \in Clients |-> alerted'[d]]
        /\ connects' \in [Clients -> 0..MaxConnects]
    BY <1>0, <2>1 DEF MoreTypes
  <2>3. \A d \in Clients : uplink'[d] = uplink[d] \/ uplink'[d] = << >>
    BY <1>8
  <2> QED BY <1>0, <2>1, <2>2, <2>3, MoreTypesOfOne
<1> QED BY <1>2, <1>14, <1>15, <1>16, ClientStepFits

-----------------------------------------------------------------------------
(* What a runtime receives without handling it.                            *)

LEMMA OneRemembers ==
  ASSUME MoreTypes, Types, NEW c \in Clients,
         \A d \in Clients \ {c} : mem'[d] = mem[d], Remembers(mem'[c]),
         UNCHANGED <<hub, linkButWire>>,
         alerted'[c] \in [Asks -> 0..2], disk'[c].known \in SUBSET Episodes,
         \A d \in Clients \ {c} : alerted'[d] = alerted[d] /\ disk'[d] = disk[d],
         alerted' = [d \in Clients |-> alerted'[d]]
  PROVE  MoreTypes'
<1>1. log' = log /\ low' = low /\ connects' = connects /\ uplink' = uplink
  BY DEF hub, linkButWire
<1>2. \A d \in Clients : /\ alerted'[d] \in [Asks -> 0..2] /\ disk'[d].known \in SUBSET Episodes
                         /\ mem'[d] = mem[d] \/ Remembers(mem'[d])
  BY DEF MoreTypes
<1>3. connects' \in [Clients -> 0..MaxConnects]
  BY <1>1 DEF MoreTypes
<1> QED BY <1>1, <1>2, <1>3, MoreTypesOfOne

LEMMA ReceiveSnapshotFits ==
  ASSUME AInv, IInv', NEW c \in Clients, ReceiveSnapshot(c)
  PROVE  AInv'
<1>0. IInv /\ Types /\ Types' /\ MoreTypes
  BY DEF AInv, TInv, IInv
<1>1. /\ wire[c] # << >> /\ Head(wire[c]).type = "snapshot"
      /\ mem' = [mem EXCEPT ![c] = [mem[c] EXCEPT !.view = Head(wire[c]).panes]]
      /\ wire' = [wire EXCEPT ![c] = Tail(wire[c])]
      /\ UNCHANGED <<fleet, hub, linkButWire, disk, alerted>>
  BY <1>0 DEF ReceiveSnapshot, Types
<1>2. Head(wire[c]).panes \in SUBSET Episodes
  <2>1. wire[c] \in Seq(Messages)
    BY <1>0 DEF Types
  <2>2. Head(wire[c]) \in Messages
    BY <1>1, <2>1
  <2> QED BY <1>1, <2>2 DEF Messages
<1>3. /\ Remembers(mem'[c]) /\ mem'[c].batch = mem[c].batch /\ mem'[c].read = mem[c].read
      /\ \A d \in Clients \ {c} : mem'[d] = mem[d]
  <2>1. DOMAIN mem[c] = {"batch", "alert", "synced", "resent", "view", "read", "spent"}
    BY <1>0, MemoryFields DEF Types
  <2>2. /\ mem'[c] = [mem[c] EXCEPT !.view = Head(wire[c]).panes]
        /\ \A d \in Clients \ {c} : mem'[d] = mem[d]
    BY <1>0, <1>1 DEF Types
  <2>3. /\ mem'[c].batch = mem[c].batch /\ mem'[c].alert = mem[c].alert
        /\ mem'[c].read = mem[c].read /\ mem'[c].view = Head(wire[c]).panes
        /\ mem'[c].spent = mem[c].spent /\ mem'[c].resent = mem[c].resent
    BY <2>1, <2>2
  <2> QED BY <1>0, <1>2, <2>2, <2>3 DEF Remembers, MoreTypes
<1>4. /\ \A d \in Clients \ {c} :
           /\ Unmoved(d)
           /\ wire'[d] = wire[d]
           /\ PumpWaits(d)' <=> PumpWaits(d)
           /\ PumpWaits(d) => pump'.seq = pump.seq
  BY <1>0, <1>1, <1>3, OthersHear
<1>5. sub'[c] = sub[c]
  BY <1>1 DEF linkButWire
<1>6. Coming(wire[c], Waiting(c))' = Coming(wire[c], Waiting(c))
  <2> DEFINE w == wire[c]
             r == Waiting(c)
  <2>1. w \in Seq(Messages) /\ r \in Seq(Messages) /\ InTurn(w, r) /\ w # << >> /\ ~Told(Head(w))
    BY <1>0, <1>1, WaitingType DEF IInv, Lane, Told
  <2>2. Waiting(c)' = r /\ wire'[c] = Tail(w)
    BY <1>0, <1>1 DEF Waiting, PumpWaits, linkButWire, Types
  <2> HIDE DEF w, r
  <2>3. Coming(Tail(w), r) = Coming(w, r)
    BY <2>1, TakingKeeps
  <2> QED BY <2>2, <2>3 DEF w, r
<1>7. MoreTypes'
  <2>1. alerted'[c] \in [Asks -> 0..2] /\ disk'[c].known \in SUBSET Episodes
        /\ alerted' = [d \in Clients |-> alerted'[d]]
    BY <1>0, <1>1 DEF MoreTypes
  <2> QED BY <1>0, <1>1, <1>3, <2>1, OneRemembers
<1> QED BY <1>1, <1>3, <1>4, <1>5, <1>6, <1>7, QuietStepFits

LEMMA ReceiveBatchedFits ==
  ASSUME AInv, IInv', NEW c \in Clients, ReceiveBatched(c)
  PROVE  AInv'
<1> DEFINE k == Head(wire[c]).seq
           old == mem[c].batch
<1>0. IInv /\ Types /\ Types' /\ MoreTypes /\ AlertsFit(c)
  BY DEF AInv, TInv, IInv
<1>1. /\ wire[c] # << >> /\ Head(wire[c]).type = "event" /\ old # None
      /\ mem' = [mem EXCEPT ![c] = [mem[c] EXCEPT !.batch = Append(old, k)]]
      /\ wire' = [wire EXCEPT ![c] = Tail(wire[c])]
      /\ UNCHANGED <<fleet, hub, linkButWire, disk, alerted>>
  BY <1>0 DEF ReceiveBatched, Types
<1>2. Told(Head(wire[c]))
  BY <1>1 DEF Told
<1>3. /\ Head(wire[c]) \in Messages
      /\ Head(wire[c]) \in Coming(wire[c], Waiting(c))
  BY <1>0, <1>1, <1>2, ToldIsSubscribed
<1>4. k \in 1..MaxSeq /\ k \in Nat /\ Head(wire[c]) = Event(k) /\ Key(Head(wire[c])) = 2 * k
  <2>1. k \in 1..MaxSeq /\ Head(wire[c]) = Event(k)
    BY <1>1, <1>3, ToldMessages
  <2> HIDE DEF k
  <2>2. k \in 1..MaxSeq /\ k \in Nat
    BY <2>1
  <2> QED BY <2>1, <2>2, ToldMessages
<1> HIDE DEF k
<1>5. k \in Comes(c) /\ k \in 1..Len(log)
  BY <1>0, <1>3, <1>4, ComingIsLogged
<1>6. /\ Remembers(mem'[c]) /\ mem'[c].batch = Append(old, k) /\ mem'[c].read = mem[c].read
      /\ \A d \in Clients \ {c} : mem'[d] = mem[d]
  <2>1. DOMAIN mem[c] = {"batch", "alert", "synced", "resent", "view", "read", "spent"}
    BY <1>0, MemoryFields DEF Types
  <2>2. /\ mem'[c] = [mem[c] EXCEPT !.batch = Append(old, k)]
        /\ \A d \in Clients \ {c} : mem'[d] = mem[d]
    BY <1>0, <1>1 DEF Types
  <2> HIDE DEF old
  <2>3. /\ mem'[c].batch = Append(old, k) /\ mem'[c].alert = mem[c].alert
        /\ mem'[c].read = mem[c].read /\ mem'[c].view = mem[c].view
        /\ mem'[c].spent = mem[c].spent /\ mem'[c].resent = mem[c].resent
    BY <2>1, <2>2
  <2> QED BY <1>0, <2>2, <2>3 DEF Remembers, MoreTypes
<1>7. /\ \A d \in Clients \ {c} :
           /\ Unmoved(d)
           /\ wire'[d] = wire[d]
           /\ PumpWaits(d)' <=> PumpWaits(d)
           /\ PumpWaits(d) => pump'.seq = pump.seq
  BY <1>0, <1>1, <1>6, OthersHear
<1>8. /\ DOMAIN mem'[c].batch = 1..(Len(old) + 1) /\ mem'[c].batch[Len(old) + 1] = k
      /\ Len(old) \in Nat /\ DOMAIN old = 1..Len(old)
      /\ \A i \in 1..Len(old) : mem'[c].batch[i] = old[i]
      /\ \A i \in 1..Len(old) : old[i] \in Nat
  <2>1. old \in Seq(1..MaxSeq)
    BY <1>0, <1>1 DEF Types, Batches
  <2> HIDE DEF old
  <2> QED BY <1>6, <2>1
<1> HIDE DEF old
<1>9. /\ Coming(wire[c], Waiting(c))' = Coming(wire[c], Waiting(c)) \ {Event(k)}
      /\ \A m \in Coming(wire[c], Waiting(c))' : 2 * k < Key(m)
  BY <1>0, <1>1, <1>2, <1>4, Taken
<1>10. \A n \in Comes(c)' : n \in Comes(c) /\ k < n /\ n \in Nat
  <2> TAKE n \in Comes(c)'
  <2>1. n \in 1..Len(log) /\ n \in Nat /\ Event(n) \in Coming(wire[c], Waiting(c))'
    BY <1>1 DEF Comes, hub
  <2>2. n \in Comes(c)
    BY <1>9, <2>1 DEF Comes
  <2>3. n \in 1..MaxSeq
    <3>1. Len(log) \in Nat /\ Len(log) <= MaxSeq
      BY <1>0 DEF Types
    <3> QED BY <2>1, <3>1
  <2>4. Key(Event(n)) = 2 * n
    BY <2>3, ToldMessages
  <2> QED BY <1>4, <1>9, <2>1, <2>2, <2>4
<1>11. LogMoves
  BY <1>1, HubKept
<1>12. BatchInTurn(c)'
  <2>1. /\ \A i, j \in 1..Len(old) : i < j => old[i] < old[j]
        /\ \A i \in 1..Len(old), n \in Comes(c) : old[i] < n
    BY <1>0, <1>1, <1>8 DEF AlertsFit, BatchInTurn, old
  <2>2. ASSUME NEW i \in DOMAIN mem'[c].batch, NEW j \in DOMAIN mem'[c].batch, i < j
        PROVE  mem'[c].batch[i] < mem'[c].batch[j]
    <3>1. i \in 1..Len(old)
      BY <1>8, <2>2
    <3>2. CASE j \in 1..Len(old)
      BY <1>8, <2>1, <2>2, <3>1, <3>2
    <3>3. CASE j = Len(old) + 1
      BY <1>5, <1>8, <2>1, <3>1, <3>3
    <3> QED BY <1>8, <3>2, <3>3
  <2>3. ASSUME NEW i \in DOMAIN mem'[c].batch, NEW n \in Comes(c)'
        PROVE  mem'[c].batch[i] < n
    <3>1. n \in Comes(c) /\ k < n
      BY <1>10
    <3>2. CASE i \in 1..Len(old)
      BY <1>8, <2>1, <3>1, <3>2
    <3>3. CASE i = Len(old) + 1
      BY <1>8, <3>1, <3>3
    <3> QED BY <1>8, <3>2, <3>3
  <2> QED BY <2>2, <2>3 DEF BatchInTurn
<1>13. \A n \in Due(c)' : Blocked(n)' => n \in Due(c) \cup NewPlaces
  <2>1. Kept(c)' \subseteq Due(c) \cup NewPlaces
    <3> SUFFICES ASSUME NEW n \in Kept(c)' PROVE n \in Due(c)
      OBVIOUS
    <3>1. PICK i \in DOMAIN mem'[c].batch : mem'[c].batch[i] = n
      BY DEF Kept
    <3>2. n \in 1..Len(log)
      BY <1>1 DEF Kept, hub
    <3>3. CASE i \in 1..Len(old)
      <4>1. old[i] = n /\ i \in DOMAIN old
        BY <1>8, <3>1, <3>3
      <4> QED BY <1>1, <3>2, <4>1 DEF Due, Kept, old
    <3>4. CASE i = Len(old) + 1
      BY <1>5, <1>8, <3>1, <3>4 DEF Due
    <3> QED BY <1>8, <3>3, <3>4
  <2>2. \A n \in Comes(c)' : n \in Due(c)
    BY <1>10 DEF Due
  <2>3. sub'[c] # None => sub[c] # None /\ sub'[c].upto >= sub[c].upto
    <3>1. sub' = sub /\ (sub[c] # None => sub[c].upto \in Nat)
      BY <1>0, <1>1, SubType DEF linkButWire
    <3> QED BY <3>1
  <2>4. disk'[c] = disk[c]
    BY <1>1
  <2> QED BY <1>0, <1>11, <2>1, <2>2, <2>3, <2>4, DueFrom
<1>14. AlertsFit(c)'
  <2>1. disk'[c] = disk[c] /\ alerted'[c] = alerted[c]
    BY <1>1
  <2> QED BY <1>0, <1>6, <1>11, <1>12, <1>13, <2>1, FitKept
<1>15. MoreTypes'
  <2>1. alerted'[c] \in [Asks -> 0..2] /\ disk'[c].known \in SUBSET Episodes
        /\ alerted' = [d \in Clients |-> alerted'[d]]
    BY <1>0, <1>1 DEF MoreTypes
  <2> QED BY <1>0, <1>1, <1>6, <2>1, OneRemembers
<1> QED BY <1>1, <1>6, <1>7, <1>14, <1>15, ClientStepFits

-----------------------------------------------------------------------------
(* What handling a message alerts and shows.                               *)

\* Is x the question of a blocked event at one of the places J?
AskedAt(J, x) == \E j \in J : Blocked(j) /\ x = <<log[j].ep, log[j].q>>

\* Handling the events at places J left h: it alerts nothing twice, and alerts
\* and shows what they ask.
Handled(c, h, J) ==
  /\ Shows(c, h)
  /\ AllNew(c, h.fired)
  /\ \A i \in DOMAIN h.fired : AskedAt(J, h.fired[i])
  /\ \A ep \in Episodes : \/ h.read[ep] = 0
                          \/ h.read[ep] = mem[c].read[ep]
                          \/ AskedAt(J, <<ep, h.read[ep]>>)

\* h is what handling the events at places J leaves.
Leaves(c, h, J) ==
  /\ h.read \in [Episodes -> 0..MaxQuestions] /\ h.spent \in SUBSET Episodes
  /\ h.fired \in Seq(Asks) /\ h.opened \in SUBSET Episodes
  /\ Handled(c, h, J)

LEMMA StateHandled ==
  ASSUME MoreTypes, NEW c \in Clients, ShowsAlerted(c)
  PROVE  State(mem[c]) \in Handlings /\ Handled(c, State(mem[c]), {}) /\ State(mem[c]).fired = << >>
         /\ State(mem[c]).read = mem[c].read
<1>1. State(mem[c]) = [read |-> mem[c].read, spent |-> mem[c].spent, fired |-> << >>]
  BY DEF State
<1>2. << >> \in Seq(Asks) /\ DOMAIN << >> = {}
  OBVIOUS
<1>3. mem[c].read \in [Episodes -> 0..MaxQuestions] /\ mem[c].spent \in SUBSET Episodes
  BY DEF MoreTypes
<1>4. State(mem[c]) \in Handlings
  BY <1>1, <1>2, <1>3 DEF Handlings
<1>5. State(mem[c]).fired = << >> /\ State(mem[c]).read = mem[c].read
  BY <1>1
<1>6. Shows(c, State(mem[c]))
  BY <1>2, <1>5 DEF Shows, ShowsAlerted, Alerted
<1>7. AllNew(c, State(mem[c]).fired)
  BY <1>2, <1>5 DEF AllNew
<1> QED BY <1>2, <1>4, <1>5, <1>6, <1>7 DEF Handled

\* m is what handling the event at place n after s, which handled those at
\* places J, leaves.
Adds(c, s, view, J, n, m) ==
  /\ m \in Handlings
  /\ Handled(c, m, J \cup {n})
  /\ Blocked(n) /\ log[n].ep \in view => m.read[log[n].ep] = log[n].q
  /\ \A ep \in Episodes : m.read[ep] = s.read[ep] \/ ep = log[n].ep
  /\ log[n].kind = "answered" => m.read = s.read

\* One event more, later than those handled and asking no earlier question
\* than what was shown or alerted before.
LEMMA HandleAdds ==
  ASSUME Types, MoreTypes, LogInOrder, NEW c \in Clients, NEW view,
         NEW J \in SUBSET (1..Len(log)), NEW s \in Handlings, Handled(c, s, J),
         NEW n \in 1..Len(log), \A j \in J : j < n,
         Blocked(n) => Early(mem[c].read, alerted[c], log[n]),
         NEW alert \in BOOLEAN, alert => ~Alerted(c, s.fired, <<log[n].ep, log[n].q>>)
  PROVE  Adds(c, s, view, J, n, Handle(s, view, log[n], alert))
<1> DEFINE f == log[n]
           m == Handle(s, view, f, alert)
           x == <<f.ep, f.q>>
<1>1. /\ f \in Frames /\ f.ep \in Episodes /\ f.q \in Questions /\ f.q \in Nat /\ Len(log) \in Nat
      /\ \A j \in J : log[j].ep \in Episodes /\ log[j].q \in Nat /\ log[j].q \in Questions /\ j \in 1..Len(log)
  BY LogLength
<1>2. s.read \in [Episodes -> 0..MaxQuestions] /\ s.fired \in Seq(Asks)
      /\ mem[c].read \in [Episodes -> 0..MaxQuestions]
      /\ alerted[c] \in [Asks -> 0..2]
  BY DEF Handlings, MoreTypes
<1>3. ASSUME Blocked(n), NEW q, AskedAt(J, <<f.ep, q>>)
      PROVE  q <= f.q
  <2>1. PICK j \in J : Blocked(j) /\ <<f.ep, q>> = <<log[j].ep, log[j].q>>
    BY <1>3 DEF AskedAt
  <2>2. q = log[j].q /\ f.ep = log[j].ep /\ j < n /\ j \in 1..Len(log)
    BY <2>1
  <2> QED BY <1>3, <2>1, <2>2 DEF LogInOrder
<1>4. Blocked(n) => OnTime(c, s, f)
  <2> SUFFICES ASSUME Blocked(n) PROVE OnTime(c, s, f)
    OBVIOUS
  <2>0. /\ mem[c].read[f.ep] <= f.q
        /\ \A q \in Questions : alerted[c][<<f.ep, q>>] > 0 => q <= f.q
    BY DEF Early
  <2>1. s.read[f.ep] <= f.q
    <3>1. \/ s.read[f.ep] = 0 \/ s.read[f.ep] = mem[c].read[f.ep]
          \/ AskedAt(J, <<f.ep, s.read[f.ep]>>)
      BY <1>1 DEF Handled
    <3>2. CASE AskedAt(J, <<f.ep, s.read[f.ep]>>)
      BY <1>3, <3>2
    <3> QED BY <1>1, <2>0, <3>1, <3>2
  <2>2. ASSUME NEW q \in Questions, Alerted(c, s.fired, <<f.ep, q>>) PROVE q <= f.q
    <3>1. CASE alerted[c][<<f.ep, q>>] > 0
      BY <2>0, <3>1
    <3>2. CASE \E i \in DOMAIN s.fired : s.fired[i] = <<f.ep, q>>
      <4>1. PICK i \in DOMAIN s.fired : s.fired[i] = <<f.ep, q>>
        BY <3>2
      <4>2. AskedAt(J, <<f.ep, q>>)
        BY <4>1 DEF Handled
      <4> QED BY <1>3, <4>2
    <3> QED BY <2>2, <3>1, <3>2 DEF Alerted
  <2> QED BY <2>1, <2>2 DEF OnTime
<1>5. Shows(c, s) /\ AllNew(c, s.fired)
  BY DEF Handled
<1>6. f.kind = "blocked" => OnTime(c, s, f)
  BY <1>4 DEF Blocked
<1> HIDE DEF f
<1>7. /\ m \in Handlings
      /\ Shows(c, m)
      /\ AllNew(c, m.fired)
      /\ \/ m.fired = s.fired
         \/ f.kind = "blocked" /\ m.fired = Append(s.fired, x)
      /\ \A ep \in Episodes : \/ m.read[ep] = s.read[ep] \/ m.read[ep] = 0
                              \/ f.kind = "blocked" /\ ep = f.ep /\ m.read[ep] = f.q
      /\ f.kind = "blocked" /\ f.ep \in view => m.read[f.ep] = f.q
      /\ \A ep \in Episodes : m.read[ep] = s.read[ep] \/ ep = f.ep
  <2>1. alert => ~Alerted(c, s.fired, x)
    BY DEF f
  <2>2. f \in Frames /\ alerted[c] \in [Asks -> 0..2]
    BY <1>1, <1>2
  <2>3. Shows(c, s) /\ AllNew(c, s.fired)
    BY <1>5
  <2>4. OneHandled(c, s, view, f, m)
    BY <1>6, <2>1, <2>2, <2>3, HandleStep
  <2> HIDE DEF m
  <2> QED BY <2>4 DEF OneHandled
<1>8. f.kind = "answered" => m.read = s.read
  <2> SUFFICES ASSUME f.kind = "answered" PROVE m.read = s.read
    OBVIOUS
  <2>1. m = [s EXCEPT !.spent = s.spent \cup {f.ep}]
    BY DEF Handle
  <2>2. s = [read |-> s.read, spent |-> s.spent, fired |-> s.fired]
    BY DEF Handlings
  <2> HIDE DEF m
  <2> QED BY <2>1, <2>2
<1> HIDE DEF m, x
<1>9. ASSUME NEW y, AskedAt(J, y) PROVE AskedAt(J \cup {n}, y)
  BY <1>9 DEF AskedAt
<1>10. f.kind = "blocked" => AskedAt(J \cup {n}, x)
  BY DEF AskedAt, Blocked, f, x
<1>11. ASSUME NEW i \in DOMAIN m.fired PROVE AskedAt(J \cup {n}, m.fired[i])
  <2>1. CASE m.fired = s.fired
    BY <1>9, <1>11, <2>1 DEF Handled
  <2>2. CASE f.kind = "blocked" /\ m.fired = Append(s.fired, x)
    <3>1. m.fired[i] = x \/ (i \in DOMAIN s.fired /\ m.fired[i] = s.fired[i])
      BY <1>2, <1>11, <2>2
    <3> QED BY <1>9, <1>10, <2>2, <3>1 DEF Handled
  <2> QED BY <1>7, <2>1, <2>2
<1>12. ASSUME NEW ep \in Episodes
       PROVE  \/ m.read[ep] = 0 \/ m.read[ep] = mem[c].read[ep]
              \/ AskedAt(J \cup {n}, <<ep, m.read[ep]>>)
  <2>1. CASE m.read[ep] = s.read[ep]
    BY <1>9, <2>1 DEF Handled
  <2>2. CASE f.kind = "blocked" /\ ep = f.ep /\ m.read[ep] = f.q
    BY <1>10, <2>2 DEF x
  <2> QED BY <1>7, <2>1, <2>2
<1>13. Handled(c, m, J \cup {n})
  BY <1>7, <1>11, <1>12 DEF Handled
<1>14. Adds(c, s, view, J, n, m)
  BY <1>7, <1>8, <1>13 DEF Adds, f, Blocked
<1> QED BY <1>14 DEF m, f

\* An event after event_sync.
LEMMA LiveHandled ==
  ASSUME AInv, NEW c \in Clients, NEW n \in 1..Len(log), n \in Due(c)
  PROVE  Leaves(c, HandleLive(c, n), {n})
<1> DEFINE f == log[n]
           s == State(mem[c])
           m == Handle(s, mem[c].view, f, Fresh(c, f))
           h == HandleLive(c, n)
<1>1. Types /\ MoreTypes /\ LogInOrder /\ AlertsFit(c)
  BY DEF AInv, TInv, IInv
<1>2. s \in Handlings /\ Handled(c, s, {}) /\ s.fired = << >>
  BY <1>1, StateHandled DEF AlertsFit
<1>3. Blocked(n) => Early(mem[c].read, alerted[c], f)
  BY <1>1 DEF AlertsFit, DueOnTime
<1>4. f.ep \in Episodes /\ f.q \in Questions /\ <<f.ep, f.q>> \in Asks
  BY <1>1, LogLength DEF Asks
<1>5. Fresh(c, f) => ~Alerted(c, s.fired, <<f.ep, f.q>>)
  <2> SUFFICES ASSUME Fresh(c, f), alerted[c][<<f.ep, f.q>>] > 0 PROVE FALSE
    <3>1. DOMAIN << >> = {}
      OBVIOUS
    <3> QED BY <1>2, <3>1 DEF Alerted
  <2>1. <<f.ep, f.q>>[1] \in disk[c].known
    BY <1>1, <1>4 DEF AlertsFit, KnownOnceAlerted
  <2>2. <<f.ep, f.q>>[1] = f.ep
    OBVIOUS
  <2> QED BY <2>1, <2>2 DEF Fresh
<1>6. Fresh(c, f) \in BOOLEAN
  BY DEF Fresh
<1>7. m \in Handlings /\ Handled(c, m, {n})
  <2>1. {} \in SUBSET (1..Len(log)) /\ \A j \in {} : j < n
    OBVIOUS
  <2>2. {} \cup {n} = {n}
    OBVIOUS
  <2>3. s \in Handlings /\ Handled(c, s, {})
    BY <1>2
  <2>4. Fresh(c, log[n]) \in BOOLEAN
        /\ (Fresh(c, log[n]) => ~Alerted(c, s.fired, <<log[n].ep, log[n].q>>))
    BY <1>5, <1>6
  <2>5. Blocked(n) => Early(mem[c].read, alerted[c], log[n])
    BY <1>3
  <2> HIDE DEF s
  <2>6. Adds(c, s, mem[c].view, {}, n, Handle(s, mem[c].view, log[n], Fresh(c, log[n])))
    BY <1>1, <2>1, <2>3, <2>4, <2>5, HandleAdds
  <2> QED BY <2>2, <2>6 DEF Adds
<1>8. h.read = m.read /\ h.spent = m.spent /\ h.fired = m.fired
      /\ h.opened \in SUBSET Episodes
  <2>1. h = [fired |-> m.fired, read |-> m.read, spent |-> m.spent,
             opened |-> IF f.kind = "blocked" THEN {f.ep} ELSE {},
             cursor |-> <<epoch, n>>]
    BY DEF HandleLive
  <2> HIDE DEF h, m, f
  <2>2. h.opened = IF f.kind = "blocked" THEN {f.ep} ELSE {}
    BY <2>1
  <2> QED BY <1>4, <2>1, <2>2
<1> HIDE DEF h, m
<1>9. Handled(c, h, {n})
  BY <1>7, <1>8 DEF Handled, Shows
<1>10. h.read \in [Episodes -> 0..MaxQuestions] /\ h.spent \in SUBSET Episodes /\ h.fired \in Seq(Asks)
  BY <1>7, <1>8 DEF Handlings
<1>11. Leaves(c, h, {n})
  BY <1>8, <1>9, <1>10 DEF Leaves
<1> QED BY <1>11 DEF h

-----------------------------------------------------------------------------
(* A replay.                                                               *)

FirstOf(batch, k) == {batch[i] : i \in 1..k}

\* Is the blocked event at i the last of its episode up to k, but for answers?
OpenUpTo(batch, k, i) ==
  /\ log[batch[i]].kind = "blocked"
  /\ \A j \in (i + 1)..k : log[batch[j]].ep = log[batch[i]].ep => log[batch[j]].kind = "answered"

\* What the first k events of the batch left: it shows what is open.
Replayed(c, batch, s, k) ==
  /\ s \in Handlings
  /\ Handled(c, s, FirstOf(batch, k))
  /\ \A i \in 1..k : OpenUpTo(batch, k, i) /\ log[batch[i]].ep \in mem[c].view =>
                       s.read[log[batch[i]].ep] = log[batch[i]].q

LEMMA ReplayOfNone ==
  ASSUME AInv, NEW c \in Clients, NEW batch
  PROVE  Replayed(c, batch, State(mem[c]), 0)
<1>1. FirstOf(batch, 0) = {} /\ 1..0 = {}
  BY DEF FirstOf
<1>2. MoreTypes /\ ShowsAlerted(c)
  BY DEF AInv, TInv, AlertsFit
<1>3. State(mem[c]) \in Handlings /\ Handled(c, State(mem[c]), {})
  BY <1>2, StateHandled
<1> QED BY <1>1, <1>3 DEF Replayed

LEMMA ReplayOfOneMore ==
  ASSUME AInv, NEW c \in Clients, NEW batch \in Seq(1..Len(log)),
         \A i, j \in DOMAIN batch : i < j => batch[i] < batch[j],
         \A i \in DOMAIN batch : batch[i] \in Due(c),
         NEW k \in Nat, k + 1 <= Len(batch), NEW s, Replayed(c, batch, s, k)
  PROVE  Replayed(c, batch, Handle(s, mem[c].view, log[batch[k + 1]], FALSE), k + 1)
<1> DEFINE n == batch[k + 1]
           f == log[n]
           view == mem[c].view
           m == Handle(s, view, log[n], FALSE)
           J == FirstOf(batch, k)
<1>1. Types /\ MoreTypes /\ LogInOrder /\ AlertsFit(c)
  BY DEF AInv, TInv, IInv
<1>2. /\ DOMAIN batch = 1..Len(batch) /\ Len(batch) \in Nat /\ k + 1 \in DOMAIN batch
      /\ \A i \in 1..k : i \in DOMAIN batch
      /\ \A i \in DOMAIN batch : batch[i] \in 1..Len(log)
      /\ 1..(k + 1) = 1..k \cup {k + 1}
  OBVIOUS
<1>3. /\ J \in SUBSET (1..Len(log)) /\ \A j \in J : j < n
      /\ J \cup {n} = FirstOf(batch, k + 1)
  <2>1. \A i \in 1..k : i < k + 1
    OBVIOUS
  <2>2. J \in SUBSET (1..Len(log))
    BY <1>2 DEF FirstOf
  <2>3. \A j \in J : j < n
    BY <1>2, <2>1 DEF FirstOf
  <2> HIDE DEF n
  <2>4. J \cup {n} = FirstOf(batch, k + 1)
    BY <1>2, Zenon DEF FirstOf, n
  <2> QED BY <2>2, <2>3, <2>4
<1>4. n \in 1..Len(log)
  BY <1>2
<1>5. Blocked(n) => Early(mem[c].read, alerted[c], log[n])
  BY <1>1, <1>2 DEF AlertsFit, DueOnTime
<1>6. s \in Handlings /\ Handled(c, s, J)
  BY DEF Replayed
<1>7. /\ \A i \in 1..k : log[batch[i]].ep \in Episodes
      /\ f.ep \in Episodes
  BY <1>1, <1>2, LogLength
<1> HIDE DEF n, J, view
<1>8. Adds(c, s, view, J, n, m)
  <2>1. FALSE \in BOOLEAN /\ (FALSE => ~Alerted(c, s.fired, <<log[n].ep, log[n].q>>))
    OBVIOUS
  <2> QED BY <1>1, <1>3, <1>4, <1>5, <1>6, <2>1, HandleAdds
<1> HIDE DEF m
<1>9. ASSUME NEW i \in 1..(k + 1), OpenUpTo(batch, k + 1, i), log[batch[i]].ep \in view
      PROVE  m.read[log[batch[i]].ep] = log[batch[i]].q
  <2>1. CASE i = k + 1
    BY <1>8, <1>9, <2>1 DEF Adds, OpenUpTo, Blocked, n
  <2>2. CASE i \in 1..k
    <3>1. /\ \A j \in (i + 1)..k : j \in (i + 1)..(k + 1)
          /\ k + 1 \in (i + 1)..(k + 1)
      BY <2>2
    <3>2. OpenUpTo(batch, k, i)
      BY <1>9, <3>1 DEF OpenUpTo
    <3>3. s.read[log[batch[i]].ep] = log[batch[i]].q
      BY <1>9, <2>2, <3>2 DEF Replayed, view
    <3>4. f.ep = log[batch[i]].ep => f.kind = "answered"
      BY <1>9, <3>1 DEF OpenUpTo, n
    <3>5. m.read[log[batch[i]].ep] = s.read[log[batch[i]].ep]
      BY <1>7, <1>8, <2>2, <3>4 DEF Adds
    <3> QED BY <3>3, <3>5
  <2> QED BY <1>2, <2>1, <2>2
<1>10. Replayed(c, batch, m, k + 1)
  BY <1>3, <1>8, <1>9 DEF Adds, Replayed, view
<1> QED BY <1>10 DEF m, n, view

\* What the batch of a client that is replaying holds.
LEMMA BatchOf ==
  ASSUME AInv, NEW c \in Clients, mem[c].batch # None, mem[c].batch \in Seq(1..Len(log))
  PROVE  /\ \A i, j \in DOMAIN mem[c].batch : i < j => mem[c].batch[i] < mem[c].batch[j]
         /\ \A i \in DOMAIN mem[c].batch : mem[c].batch[i] \in Due(c)
<1>1. AlertsFit(c)
  BY DEF AInv
<1>2. \A i, j \in DOMAIN mem[c].batch : i < j => mem[c].batch[i] < mem[c].batch[j]
  BY <1>1 DEF AlertsFit, BatchInTurn
<1>3. \A i \in DOMAIN mem[c].batch : mem[c].batch[i] \in 1..Len(log)
  OBVIOUS
<1>4. \A i \in DOMAIN mem[c].batch : mem[c].batch[i] \in Kept(c)
  BY <1>3 DEF Kept
<1> QED BY <1>2, <1>4 DEF Due

LEMMA ReplayHandled ==
  ASSUME AInv, NEW c \in Clients, NEW batch, batch = mem[c].batch, batch # None,
         batch \in Seq(1..Len(log))
  PROVE  Replayed(c, batch, HandledUpTo(c, batch)[Len(batch)], Len(batch))
<1> DEFINE after(k) == HandledUpTo(c, batch)[k]
           S == {k \in Nat : k <= Len(batch) => Replayed(c, batch, after(k), k)}
<1>1. /\ Len(batch) \in Nat
      /\ \A i, j \in DOMAIN batch : i < j => batch[i] < batch[j]
      /\ \A i \in DOMAIN batch : batch[i] \in Due(c)
  BY BatchOf
<1>2. /\ after(0) = State(mem[c])
      /\ \A k \in 1..Len(batch) : after(k) = Handle(after(k - 1), mem[c].view, log[batch[k]], FALSE)
  BY <1>1, HandledRecursion
<1> HIDE DEF after
<1>3. 0 \in S
  BY <1>2, ReplayOfNone
<1>4. ASSUME NEW k \in Nat, k \in S PROVE k + 1 \in S
  <2> SUFFICES ASSUME k + 1 <= Len(batch) PROVE Replayed(c, batch, after(k + 1), k + 1)
    OBVIOUS
  <2>1. Replayed(c, batch, after(k), k)
    BY <1>1, <1>4
  <2>2. Replayed(c, batch, Handle(after(k), mem[c].view, log[batch[k + 1]], FALSE), k + 1)
    BY <1>1, <2>1, ReplayOfOneMore
  <2>3. k + 1 \in 1..Len(batch)
    <3>1. Len(batch) \in Nat
      BY <1>1
    <3> QED BY <3>1
  <2>5. (k + 1) - 1 = k
    OBVIOUS
  <2>4. after(k + 1) = Handle(after(k), mem[c].view, log[batch[k + 1]], FALSE)
    BY <1>2, <2>3, <2>5
  <2> QED BY <2>2, <2>4
<1>5. Len(batch) \in S
  <2> HIDE DEF S
  <2>1. Nat \subseteq S
    BY <1>3, <1>4, Induction
  <2> QED BY <1>1, <2>1
<1>6. Len(batch) <= Len(batch)
  BY <1>1
<1> QED BY <1>5, <1>6 DEF after

\* One sequence after another.
LEMMA Joined ==
  ASSUME NEW S, NEW s \in Seq(S), NEW t \in Seq(S)
  PROVE  /\ Len(s) \in Nat /\ Len(t) \in Nat /\ DOMAIN s = 1..Len(s)
         /\ s \o t \in Seq(S) /\ DOMAIN (s \o t) = 1..(Len(s) + Len(t))
         /\ \A i \in 1..Len(s) : (s \o t)[i] = s[i]
         /\ \A i \in (Len(s) + 1)..(Len(s) + Len(t)) :
              i - Len(s) \in 1..Len(t) /\ (s \o t)[i] = t[i - Len(s)]
<1>1. Len(s) \in Nat /\ Len(t) \in Nat /\ DOMAIN s = 1..Len(s)
  OBVIOUS
<1>2. s \o t \in Seq(S) /\ Len(s \o t) = Len(s) + Len(t)
  OBVIOUS
<1>3. DOMAIN (s \o t) = 1..(Len(s) + Len(t))
  BY <1>2
<1>4. \A i \in 1..Len(s) : (s \o t)[i] = s[i]
  BY <1>1
<1>5. \A i \in (Len(s) + 1)..(Len(s) + Len(t)) : i - Len(s) \in 1..Len(t)
  BY <1>1
<1>6. \A i \in (Len(s) + 1)..(Len(s) + Len(t)) : (s \o t)[i] = t[i - Len(s)]
  BY <1>1
<1> QED BY <1>1, <1>2, <1>3, <1>4, <1>5, <1>6

\* event_sync: the batch in turn, then the alerts of what is still open in it.
LEMMA SyncHandled ==
  ASSUME AInv, NEW c \in Clients, NEW msg, NEW batch, batch = mem[c].batch, batch # None,
         batch \in Seq(1..Len(log))
  PROVE  Leaves(c, HandleSync(c, msg), FirstOf(batch, Len(batch)))
<1> DEFINE k == Len(batch)
           m == HandledUpTo(c, batch)[k]
           ep(i) == log[batch[i]].ep
           ask(i) == <<log[batch[i]].ep, log[batch[i]].q>>
           A == {i \in StillOpen(batch) : Alerts(c, log[batch[i]], m) /\ log[batch[i]].ep \in mem[c].view}
           alerts == InOrder(A)
           adds == [i \in DOMAIN alerts |-> ask(alerts[i])]
           h == HandleSync(c, msg)
           J == FirstOf(batch, k)
<1>1. Types /\ MoreTypes /\ LogInOrder /\ AlertsFit(c)
  BY DEF AInv, TInv, IInv
<1>2. /\ Len(batch) \in Nat /\ DOMAIN batch = 1..Len(batch)
      /\ \A i \in 1..Len(batch) : batch[i] \in 1..Len(log)
  OBVIOUS
<1>3. /\ \A i \in 1..k : ep(i) \in Episodes /\ ask(i) \in Asks /\ ask(i)[1] = ep(i) /\ ask(i)[2] = log[batch[i]].q
                         /\ log[batch[i]].q \in Nat
  <2>1. \A i \in 1..k : log[batch[i]].ep \in Episodes /\ log[batch[i]].q \in Questions /\ log[batch[i]].q \in Nat
    BY <1>1, <1>2, LogLength
  <2> QED BY <2>1 DEF Asks
<1>4. Replayed(c, batch, m, k)
  BY ReplayHandled
<1>5. /\ h.fired = m.fired \o adds /\ h.read = m.read /\ h.spent = m.spent
      /\ h.opened = {ep(i) : i \in StillOpen(batch)}
  <2> DEFINE b == IF mem[c].batch = None THEN << >> ELSE mem[c].batch
  <2>1. b = batch
    OBVIOUS
  <2>2. h = LET batch_ == b
                m_ == HandledUpTo(c, batch_)[Len(batch_)]
                opened_ == StillOpen(batch_)
                alert_(i) == LET f == log[batch_[i]] IN Alerts(c, f, m_) /\ f.ep \in mem[c].view
                alerts_ == InOrder({i \in opened_ : alert_(i)})
            IN [fired  |-> m_.fired \o [i \in DOMAIN alerts_ |->
                              <<log[batch_[alerts_[i]]].ep, log[batch_[alerts_[i]]].q>>],
                read |-> m_.read, spent |-> m_.spent,
                opened |-> {log[batch_[i]].ep : i \in opened_},
                cursor |-> <<epoch, msg.seq>>]
    BY DEF HandleSync
  <2> HIDE DEF b
  <2>3. h = [fired |-> m.fired \o adds, read |-> m.read, spent |-> m.spent,
             opened |-> {ep(i) : i \in StillOpen(batch)}, cursor |-> <<epoch, msg.seq>>]
    BY <2>1, <2>2
  <2> HIDE DEF h, m, adds
  <2> QED BY <2>3
<1> HIDE DEF h, m, J
<1>6. m \in Handlings /\ Handled(c, m, J)
  BY <1>4 DEF Replayed, J
<1>7. m.fired \in Seq(Asks) /\ m.read \in [Episodes -> 0..MaxQuestions] /\ m.spent \in SUBSET Episodes
  BY <1>6 DEF Handlings
<1>8. \A i \in StillOpen(batch) : i \in 1..k /\ log[batch[i]].kind = "blocked" /\ OpenUpTo(batch, k, i)
  BY <1>2 DEF StillOpen, OpenUpTo
<1>9. ASSUME NEW i \in A
      PROVE  /\ i \in 1..k /\ OpenUpTo(batch, k, i) /\ log[batch[i]].kind = "blocked"
             /\ m.read[ep(i)] = log[batch[i]].q
             /\ ~Alerted(c, m.fired, ask(i))
             /\ AskedAt(J, ask(i))
  <2>1. i \in 1..k /\ OpenUpTo(batch, k, i) /\ log[batch[i]].kind = "blocked"
        /\ ep(i) \in mem[c].view /\ ep(i) \notin disk[c].known /\ ep(i) \notin Known(m.fired)
    BY <1>8, <1>9 DEF Alerts
  <2>2. m.read[ep(i)] = log[batch[i]].q
    BY <1>4, <2>1 DEF Replayed
  <2>3. ~(alerted[c][ask(i)] > 0)
    <3> SUFFICES ASSUME alerted[c][ask(i)] > 0 PROVE FALSE
      OBVIOUS
    <3>1. ask(i)[1] \in disk[c].known
      BY <1>1, <1>3, <2>1 DEF AlertsFit, KnownOnceAlerted
    <3> QED BY <1>3, <2>1, <3>1
  <2>4. ASSUME NEW j \in DOMAIN m.fired, m.fired[j] = ask(i) PROVE FALSE
    <3>1. m.fired[j][1] = ep(i)
      BY <1>3, <2>1, <2>4
    <3> QED BY <2>1, <3>1 DEF Known
  <2>5. AskedAt(J, ask(i))
    <3>1. batch[i] \in J
      BY <2>1 DEF FirstOf, J
    <3> QED BY <2>1, <3>1 DEF AskedAt, Blocked
  <2> QED BY <2>1, <2>2, <2>3, <2>4, <2>5 DEF Alerted
<1>10. ASSUME NEW i \in A, NEW j \in A, ep(i) = ep(j) PROVE i = j
  <2>1. i \in 1..k /\ j \in 1..k /\ log[batch[i]].kind = "blocked" /\ log[batch[j]].kind = "blocked"
        /\ OpenUpTo(batch, k, i) /\ OpenUpTo(batch, k, j)
    BY <1>9
  <2>2. ~(i < j)
    <3>1. i < j => j \in (i + 1)..k
      BY <2>1
    <3> QED BY <1>10, <2>1, <3>1 DEF OpenUpTo
  <2>3. ~(j < i)
    <3>1. j < i => i \in (j + 1)..k
      BY <2>1
    <3> QED BY <1>10, <2>1, <3>1 DEF OpenUpTo
  <2> QED BY <2>1, <2>2, <2>3
<1>11. /\ Len(alerts) \in Nat /\ DOMAIN alerts = 1..Len(alerts)
       /\ \A i \in 1..Len(alerts) : alerts[i] \in A
       /\ \A i, j \in 1..Len(alerts) : i < j => alerts[i] < alerts[j]
  <2>1. A \in SUBSET (1..k)
    BY <1>8
  <2>2. k \in Nat
    BY <1>2
  <2> HIDE DEF A, k
  <2>3. /\ alerts \in Seq(A) /\ Len(alerts) = Cardinality(A)
        /\ \A i, j \in 1..Cardinality(A) : i < j => alerts[i] < alerts[j]
    BY <2>1, <2>2, InOrderLists
  <2> HIDE DEF alerts
  <2> QED BY <2>3
<1> HIDE DEF alerts, A
<1>12. ASSUME NEW i \in 1..Len(alerts), NEW j \in 1..Len(alerts), ask(alerts[i]) = ask(alerts[j])
       PROVE  i = j
  <2>1. alerts[i] \in A /\ alerts[j] \in A
    BY <1>11
  <2>2. ep(alerts[i]) = ep(alerts[j])
    BY <1>3, <1>9, <1>12, <2>1
  <2>3. alerts[i] = alerts[j] /\ alerts[i] \in Nat
    <3>1. alerts[i] = alerts[j]
      BY <1>10, <2>1, <2>2
    <3>2. alerts[i] \in 1..k
      BY <1>9, <2>1
    <3> QED BY <1>2, <3>1, <3>2
  <2>4. ~(i < j) /\ ~(j < i)
    BY <1>11, <2>3
  <2> QED BY <1>11, <2>4
<1>13. /\ adds \in Seq(Asks) /\ Len(adds) = Len(alerts)
       /\ \A i \in 1..Len(alerts) : adds[i] = ask(alerts[i])
  <2>1. \A i \in 1..Len(alerts) : ask(alerts[i]) \in Asks
    BY <1>3, <1>9, <1>11
  <2> HIDE DEF ask
  <2> QED BY <1>11, <2>1
<1> HIDE DEF adds, ask, ep
<1> DEFINE n1 == Len(m.fired)
           n2 == Len(alerts)
<1>14. /\ n1 \in Nat /\ n2 \in Nat /\ DOMAIN m.fired = 1..n1
       /\ h.fired \in Seq(Asks) /\ DOMAIN h.fired = 1..(n1 + n2)
       /\ \A i \in 1..n1 : h.fired[i] = m.fired[i]
       /\ \A i \in (n1 + 1)..(n1 + n2) : i - n1 \in 1..n2 /\ h.fired[i] = adds[i - n1]
  <2> DEFINE s == m.fired
  <2>1. s \in Seq(Asks) /\ adds \in Seq(Asks)
    BY <1>7, <1>13
  <2>2. h.fired = s \o adds
    BY <1>5
  <2> HIDE DEF s
  <2> DEFINE n == Len(s)
             o == Len(adds)
  <2>3. /\ n \in Nat /\ o \in Nat /\ DOMAIN s = 1..n
        /\ h.fired \in Seq(Asks) /\ DOMAIN h.fired = 1..(n + o)
        /\ \A i \in 1..n : h.fired[i] = s[i]
        /\ \A i \in (n + 1)..(n + o) : i - n \in 1..o /\ h.fired[i] = adds[i - n]
    BY <2>1, <2>2, Joined
  <2>4. n = n1 /\ o = n2
    BY <1>13 DEF s
  <2> HIDE DEF n, o, n1, n2
  <2> QED BY <2>3, <2>4 DEF s
<1>15. \A i \in (n1 + 1)..(n1 + n2) :
         /\ i - n1 \in 1..n2 /\ h.fired[i] = ask(alerts[i - n1]) /\ alerts[i - n1] \in A
  BY <1>11, <1>13, <1>14
<1>16. \A i \in 1..(n1 + n2) : i \in 1..n1 \/ i \in (n1 + 1)..(n1 + n2)
  BY <1>14
<1>17. AllNew(c, m.fired) /\ Shows(c, m)
  BY <1>6 DEF Handled
<1> HIDE DEF n1, n2
<1>18. AllNew(c, h.fired)
  <2>1. ASSUME NEW i \in 1..n1, NEW j \in (n1 + 1)..(n1 + n2) PROVE h.fired[i] # h.fired[j]
    <3>1. h.fired[j] = ask(alerts[j - n1]) /\ ~Alerted(c, m.fired, ask(alerts[j - n1]))
      BY <1>9, <1>15
    <3> QED BY <1>14, <3>1 DEF Alerted
  <2>2. ASSUME NEW i \in DOMAIN h.fired, NEW j \in DOMAIN h.fired, h.fired[i] = h.fired[j]
        PROVE  i = j
    <3>1. CASE i \in 1..n1 /\ j \in 1..n1
      BY <1>14, <1>17, <2>2, <3>1 DEF AllNew
    <3>2. CASE i \in (n1 + 1)..(n1 + n2) /\ j \in (n1 + 1)..(n1 + n2)
      <4>1. i - n1 \in 1..n2 /\ j - n1 \in 1..n2 /\ ask(alerts[i - n1]) = ask(alerts[j - n1])
        BY <1>15, <2>2, <3>2
      <4>2. i - n1 = j - n1
        BY <1>12, <4>1 DEF n2
      <4>3. i \in Nat /\ j \in Nat
        BY <1>14, <3>2
      <4> QED BY <1>14, <4>2, <4>3
    <3> QED BY <1>14, <1>16, <2>1, <2>2, <3>1, <3>2
  <2>3. ASSUME NEW i \in DOMAIN h.fired PROVE alerted[c][h.fired[i]] = 0
    <3>1. CASE i \in 1..n1
      BY <1>14, <1>17, <3>1 DEF AllNew
    <3>2. CASE i \in (n1 + 1)..(n1 + n2)
      <4>1. alerts[i - n1] \in A /\ h.fired[i] = ask(alerts[i - n1])
        BY <1>15, <3>2
      <4>2. ~(alerted[c][h.fired[i]] > 0)
        BY <1>9, <4>1 DEF Alerted
      <4>3. h.fired[i] \in Asks
        BY <1>14, <2>3
      <4>4. alerted[c][h.fired[i]] \in 0..2
        BY <1>1, <4>3 DEF MoreTypes
      <4> QED BY <4>2, <4>4
    <3> QED BY <1>14, <1>16, <2>3, <3>1, <3>2
  <2> QED BY <2>2, <2>3 DEF AllNew
<1>19. Shows(c, h)
  <2> SUFFICES ASSUME NEW x \in Asks, Alerted(c, h.fired, x)
               PROVE  h.read[x[1]] = 0 \/ x[2] <= h.read[x[1]]
    BY DEF Shows
  <2>1. CASE Alerted(c, m.fired, x)
    BY <1>5, <1>17, <2>1 DEF Shows
  <2>2. ASSUME NEW i \in (n1 + 1)..(n1 + n2), h.fired[i] = x
        PROVE  x[2] <= h.read[x[1]]
    <3> DEFINE a == alerts[i - n1]
    <3>1. a \in A /\ x = ask(a)
      BY <1>15, <2>2
    <3> HIDE DEF a
    <3>2. a \in 1..k /\ m.read[ep(a)] = log[batch[a]].q
      BY <1>9, <3>1
    <3>3. x[1] = ep(a) /\ x[2] = log[batch[a]].q /\ log[batch[a]].q \in Nat
      BY <1>3, <3>1, <3>2
    <3> QED BY <1>5, <3>2, <3>3
  <2>3. Alerted(c, m.fired, x) \/ \E i \in (n1 + 1)..(n1 + n2) : h.fired[i] = x
    BY <1>14, <1>16 DEF Alerted
  <2> QED BY <2>1, <2>2, <2>3
<1>20. ASSUME NEW i \in DOMAIN h.fired PROVE AskedAt(J, h.fired[i])
  <2>1. CASE i \in 1..n1
    BY <1>6, <1>14, <2>1 DEF Handled
  <2>2. CASE i \in (n1 + 1)..(n1 + n2)
    BY <1>9, <1>15, <2>2
  <2> QED BY <1>14, <1>16, <1>20, <2>1, <2>2
<1>21. Handled(c, h, J)
  <2>1. \A e \in Episodes : \/ h.read[e] = 0 \/ h.read[e] = mem[c].read[e] \/ AskedAt(J, <<e, h.read[e]>>)
    BY <1>5, <1>6 DEF Handled
  <2> QED BY <1>18, <1>19, <1>20, <2>1 DEF Handled
<1>22. h.opened \in SUBSET Episodes
  BY <1>3, <1>5, <1>8
<1>23. Leaves(c, h, J)
  BY <1>5, <1>7, <1>14, <1>21, <1>22 DEF Leaves
<1> QED BY <1>23 DEF h, J

-----------------------------------------------------------------------------
(* What a runtime handles.                                                 *)

\* Alerts that are all new are counted once each.
LEMMA RangOnce ==
  ASSUME NEW c \in Clients, alerted[c] \in [Asks -> 0..2],
         NEW fired \in Seq(Asks), AllNew(c, fired)
  PROVE  /\ Rang(alerted[c], fired) \in [Asks -> 0..2]
         /\ \A x \in Asks : Rang(alerted[c], fired)[x] > 0 => Alerted(c, fired, x)
         /\ \A x \in Asks : alerted[c][x] <= 1 => Rang(alerted[c], fired)[x] <= 1
<1> DEFINE count == alerted[c]
           at(x) == {i \in DOMAIN fired : fired[i] = x}
           n(x) == count[x] + Cardinality(at(x))
           r == Rang(count, fired)
<1>1. r = [x \in Asks |-> IF n(x) > 2 THEN 2 ELSE n(x)]
  <2>1. DOMAIN count = Asks
    OBVIOUS
  <2> QED BY <2>1 DEF Rang
<1>2. ASSUME NEW x \in Asks
      PROVE  /\ count[x] \in 0..2
             /\ \/ at(x) = {} /\ n(x) = count[x]
                \/ Alerted(c, fired, x) /\ count[x] = 0 /\ n(x) = 1
  <2>1. count[x] \in 0..2
    OBVIOUS
  <2>2. CASE at(x) = {}
    <3>1. Cardinality(at(x)) = 0
      BY <2>2, FS_EmptySet
    <3> QED BY <2>1, <2>2, <3>1
  <2>3. CASE at(x) # {}
    <3>1. PICK i \in DOMAIN fired : fired[i] = x
      BY <2>3
    <3>2. at(x) = {i}
      BY <3>1 DEF AllNew
    <3>3. Cardinality(at(x)) = 1
      BY <3>2, FS_Singleton
    <3>4. count[x] = 0
      BY <3>1 DEF AllNew
    <3>5. Alerted(c, fired, x)
      BY <3>1 DEF Alerted
    <3>6. n(x) = 1
      BY <3>3, <3>4
    <3> QED BY <2>1, <3>4, <3>5, <3>6
  <2> QED BY <2>2, <2>3
<1> HIDE DEF n, at, r
<1>3. ASSUME NEW x \in Asks
      PROVE  /\ r[x] \in 0..2 /\ (r[x] > 0 => Alerted(c, fired, x))
             /\ (count[x] <= 1 => r[x] <= 1)
  <2>1. r[x] = IF n(x) > 2 THEN 2 ELSE n(x)
    BY <1>1
  <2>2. CASE n(x) = count[x]
    BY <1>2, <2>1, <2>2 DEF Alerted
  <2>3. CASE Alerted(c, fired, x) /\ count[x] = 0 /\ n(x) = 1
    BY <1>2, <2>1, <2>3
  <2> QED BY <1>2, <2>2, <2>3
<1>4. r \in [Asks -> 0..2]
  <2>1. r = [x \in Asks |-> r[x]]
    BY <1>1
  <2> QED BY <1>3, <2>1
<1> QED BY <1>3, <1>4 DEF r

\* What is handled reaches up to s, and what is still on its way comes after.
HandlesUpTo(c, s, J) ==
  /\ Leaves(c, Handling(c, Head(wire[c])), J)
  /\ Handling(c, Head(wire[c])).cursor = <<epoch, s>>
  /\ \A j \in J : j <= s
  /\ Coming(wire[c], Waiting(c)) \ {Head(wire[c])} =
       {m \in Messages : \E n \in (s + 1)..sub[c].upto : m = Event(n)}

LEMMA HandlingLeaves ==
  ASSUME AInv, NEW c \in Clients, wire[c] # << >>, Handles(c, Head(wire[c]))
  PROVE  \E s \in 0..sub[c].upto, J \in SUBSET (1..Len(log)) : HandlesUpTo(c, s, J)
<1> DEFINE msg == Head(wire[c])
           h == Handling(c, msg)
           upto == sub[c].upto
           coming == Coming(wire[c], Waiting(c))
<1>1. IInv /\ Types /\ Len(log) \in Nat
  BY LogLength DEF AInv, TInv, IInv
<1>2. upto \in Nat /\ upto <= Len(log) /\ upto <= MaxSeq
  BY <1>1, HandledInTurn
<1>3. CASE msg.type = "event"
  <2> DEFINE s == disk[c].cursor[2] + 1
  <2>1. /\ disk[c].cursor[2] \in Nat /\ msg = Event(s) /\ s <= upto /\ Here(c)
        /\ coming \ {msg} = {m \in Messages : \E n \in (disk[c].cursor[2] + 2)..upto : m = Event(n)}
    BY <1>1, <1>3, HandledInTurn
  <2>2. s \in 1..Len(log) /\ s \in 0..upto /\ s + 1 = disk[c].cursor[2] + 2 /\ disk[c].cursor[2] < s
    BY <1>1, <1>2, <2>1
  <2>3. msg.seq = s
    BY <2>1 DEF Event
  <2>4. s \in Due(c)
    BY <2>2 DEF Due
  <2> HIDE DEF s
  <2>5. Leaves(c, HandleLive(c, s), {s})
    BY <2>2, <2>4, LiveHandled
  <2>6. h = HandleLive(c, s)
    BY <1>3, <2>3 DEF Handling
  <2>7. h.cursor = <<epoch, s>>
    BY <2>3, HandlingSaves
  <2>8. HandlesUpTo(c, s, {s})
    <3>1. \A j \in {s} : j <= s
      BY <2>2
    <3>2. coming \ {msg} = {m \in Messages : \E n \in (s + 1)..upto : m = Event(n)}
      BY <2>1, <2>2
    <3> QED BY <2>5, <2>6, <2>7, <3>1, <3>2 DEF HandlesUpTo
  <2>9. {s} \in SUBSET (1..Len(log))
    BY <2>2
  <2> QED BY <2>2, <2>8, <2>9
<1>4. CASE msg.type = "sync"
  <2> DEFINE b == mem[c].batch
  <2>1. /\ b # None
        /\ \E s \in 0..upto, gap \in BOOLEAN :
             /\ msg = Sync(s, gap) /\ ReplayingTo(c, s, gap)
             /\ coming \ {msg} = {m \in Messages : \E n \in (s + 1)..upto : m = Event(n)}
    BY <1>1, <1>4, HandledInTurn
  <2>2. PICK s \in 0..upto, gap \in BOOLEAN :
             /\ msg = Sync(s, gap) /\ ReplayingTo(c, s, gap)
             /\ coming \ {msg} = {m \in Messages : \E n \in (s + 1)..upto : m = Event(n)}
    BY <2>1
  <2>3. msg.seq = s /\ s \in Nat /\ s <= Len(log)
    BY <1>1, <1>2, <2>2 DEF Sync
  <2>4. \A i \in DOMAIN b : b[i] <= s
    BY <2>2 DEF ReplayingTo
  <2>5. b \in Seq(1..Len(log))
    <3>1. b \in Seq(1..MaxSeq)
      BY <1>1, <2>1 DEF Types, Batches
    <3> HIDE DEF b
    <3>2. \A i \in DOMAIN b : b[i] \in 1..Len(log)
      BY <1>1, <2>3, <2>4, <3>1
    <3> QED BY <3>1, <3>2
  <2> DEFINE J == FirstOf(b, Len(b))
  <2>6. Leaves(c, HandleSync(c, msg), J)
    BY <2>1, <2>5, SyncHandled
  <2>7. h = HandleSync(c, msg)
    BY <1>4 DEF Handling
  <2>8. h.cursor = <<epoch, s>>
    BY <2>3, HandlingSaves
  <2>9. /\ \A j \in J : j <= s
        /\ J \in SUBSET (1..Len(log))
    <3> HIDE DEF b
    <3>1. \A i \in 1..Len(b) : i \in DOMAIN b /\ b[i] \in 1..Len(log)
      BY <2>5
    <3> QED BY <2>4, <3>1 DEF FirstOf
  <2> HIDE DEF J, h, b
  <2>10. HandlesUpTo(c, s, J)
    BY <2>2, <2>6, <2>7, <2>8, <2>9 DEF HandlesUpTo, h
  <2> QED BY <2>9, <2>10
<1> QED BY <1>3, <1>4 DEF Handles

\* What receiving an event changes when handling it leaves h.
Receives(c, h) ==
  /\ wire[c] # << >> /\ Handles(c, Head(wire[c]))
  /\ UNCHANGED <<fleet, hub, linkButWire>> /\ wire' = [wire EXCEPT ![c] = Tail(wire[c])]
  /\ mem'[c].read = h.read /\ mem'[c].spent = h.spent /\ mem'[c].batch = None
  /\ mem'[c].view = mem[c].view /\ mem'[c].resent = mem[c].resent
  /\ mem'[c].alert \in {mem[c].alert, FALSE}
  /\ disk'[c] = [cursor |-> h.cursor, known |-> disk[c].known \cup Known(h.fired) \cup h.opened]
  /\ \A d \in Clients \ {c} : mem'[d] = mem[d] /\ disk'[d] = disk[d]
  /\ alerted' = [alerted EXCEPT ![c] = Rang(alerted[c], h.fired)]

LEMMA ReceiveEventLeaves ==
  ASSUME Types, NEW c \in Clients, ReceiveEvent(c)
  PROVE  Receives(c, Handling(c, Head(wire[c])))
<1> DEFINE h == Handling(c, Head(wire[c]))
           msg == Head(wire[c])
           mm == [mem[c] EXCEPT !.read = h.read, !.spent = h.spent, !.batch = None]
<1>1. DOMAIN mem[c] = {"batch", "alert", "synced", "resent", "view", "read", "spent"}
  BY MemoryFields DEF Types
<1>2. /\ wire[c] # << >> /\ Handles(c, Head(wire[c]))
      /\ UNCHANGED <<fleet, hub, linkButWire>> /\ wire' = [wire EXCEPT ![c] = Tail(wire[c])]
      /\ mem' = [mem EXCEPT ![c] = IF msg.type = "sync" THEN [mm EXCEPT !.alert = FALSE, !.synced = TRUE]
                                   ELSE mm]
      /\ disk' = [disk EXCEPT ![c] =
                    [cursor |-> h.cursor, known |-> disk[c].known \cup Known(h.fired) \cup h.opened]]
      /\ alerted' = [alerted EXCEPT ![c] = Rang(alerted[c], h.fired)]
  BY DEF ReceiveEvent
<1> HIDE DEF h
<1>3. /\ mem'[c] = IF msg.type = "sync" THEN [mm EXCEPT !.alert = FALSE, !.synced = TRUE] ELSE mm
      /\ \A d \in Clients \ {c} : mem'[d] = mem[d]
  BY <1>2 DEF Types
<1>4. /\ disk'[c] = [cursor |-> h.cursor, known |-> disk[c].known \cup Known(h.fired) \cup h.opened]
      /\ \A d \in Clients \ {c} : disk'[d] = disk[d]
  BY <1>2 DEF Types
<1> HIDE DEF msg
<1>5. /\ mem'[c].read = h.read /\ mem'[c].spent = h.spent /\ mem'[c].batch = None
      /\ mem'[c].view = mem[c].view /\ mem'[c].resent = mem[c].resent
      /\ mem'[c].alert \in {mem[c].alert, FALSE}
  BY <1>1, <1>3
<1>6. Receives(c, h)
  BY <1>2, <1>3, <1>4, <1>5 DEF Receives
<1> QED BY <1>6 DEF h

LEMMA ReceiveEventFits ==
  ASSUME AInv, IInv', NEW c \in Clients, ReceiveEvent(c)
  PROVE  AInv'
<1> DEFINE msg == Head(wire[c])
           h == Handling(c, msg)
           upto == sub[c].upto
<1>1. /\ IInv /\ Types /\ Types' /\ MoreTypes /\ LogInOrder /\ AlertsFit(c)
      /\ Len(log) \in Nat
  BY LogLength DEF AInv, TInv, IInv
<1>2. /\ wire[c] # << >> /\ Handles(c, msg)
      /\ UNCHANGED <<fleet, hub, linkButWire>> /\ wire' = [wire EXCEPT ![c] = Tail(wire[c])]
      /\ mem'[c].read = h.read /\ mem'[c].spent = h.spent /\ mem'[c].batch = None
      /\ mem'[c].view = mem[c].view /\ mem'[c].resent = mem[c].resent
      /\ mem'[c].alert \in {mem[c].alert, FALSE}
      /\ disk'[c] = [cursor |-> h.cursor, known |-> disk[c].known \cup Known(h.fired) \cup h.opened]
      /\ \A d \in Clients \ {c} : mem'[d] = mem[d] /\ disk'[d] = disk[d]
      /\ alerted' = [alerted EXCEPT ![c] = Rang(alerted[c], h.fired)]
  <2>1. Receives(c, h)
    BY <1>1, ReceiveEventLeaves
  <2> HIDE DEF h
  <2> QED BY <2>1 DEF Receives
<1>3. PICK s \in 0..upto, J \in SUBSET (1..Len(log)) : HandlesUpTo(c, s, J)
  BY <1>2, HandlingLeaves
<1>4. /\ Told(msg) /\ sub[c] # None
      /\ upto \in Nat /\ upto <= Len(log) /\ upto <= MaxSeq /\ s \in Nat
  BY <1>1, <1>2, HandledInTurn
<1>5. /\ Leaves(c, h, J) /\ h.cursor = <<epoch, s>> /\ \A j \in J : j <= s
      /\ Coming(wire[c], Waiting(c)) \ {msg} =
           {m \in Messages : \E n \in (s + 1)..upto : m = Event(n)}
  BY <1>3 DEF HandlesUpTo
<1>6. Coming(wire[c], Waiting(c))' = {m \in Messages : \E n \in (s + 1)..upto : m = Event(n)}
  BY <1>1, <1>2, <1>4, <1>5, Taken
<1>7. LogMoves /\ NewIsSilent' /\ LogInOrder'
  BY <1>2, HubKept
<1> HIDE DEF h
<1>8. /\ h.read \in [Episodes -> 0..MaxQuestions] /\ h.spent \in SUBSET Episodes
      /\ h.fired \in Seq(Asks) /\ h.opened \in SUBSET Episodes
      /\ Shows(c, h) /\ AllNew(c, h.fired)
      /\ \A i \in DOMAIN h.fired : AskedAt(J, h.fired[i])
      /\ \A ep \in Episodes : \/ h.read[ep] = 0 \/ h.read[ep] = mem[c].read[ep]
                              \/ AskedAt(J, <<ep, h.read[ep]>>)
  BY <1>5 DEF Leaves, Handled
<1>9. /\ alerted[c] \in [Asks -> 0..2] /\ alerted'[c] = Rang(alerted[c], h.fired)
      /\ \A d \in Clients \ {c} : alerted'[d] = alerted[d]
      /\ alerted' = [d \in Clients |-> alerted'[d]]
  BY <1>1, <1>2 DEF MoreTypes
<1>10. /\ alerted'[c] \in [Asks -> 0..2]
       /\ \A x \in Asks : alerted'[c][x] > 0 => Alerted(c, h.fired, x)
       /\ \A x \in Asks : alerted[c][x] <= 1 => alerted'[c][x] <= 1
  <2>1. /\ Rang(alerted[c], h.fired) \in [Asks -> 0..2]
        /\ \A x \in Asks : Rang(alerted[c], h.fired)[x] > 0 => Alerted(c, h.fired, x)
        /\ \A x \in Asks : alerted[c][x] <= 1 => Rang(alerted[c], h.fired)[x] <= 1
    BY <1>8, <1>9, RangOnce
  <2> QED BY <1>9, <2>1
<1>11. /\ disk'[c].cursor = <<epoch, s>>
       /\ disk'[c].known = disk[c].known \cup Known(h.fired) \cup h.opened
       /\ disk'[c].known \in SUBSET Episodes
  <2>1. disk'[c].cursor = <<epoch, s>>
        /\ disk'[c].known = disk[c].known \cup Known(h.fired) \cup h.opened
    BY <1>2, <1>5
  <2>2. Known(h.fired) \in SUBSET Episodes
    <3>1. \A i \in DOMAIN h.fired : h.fired[i] \in Asks
      BY <1>8
    <3> QED BY <3>1 DEF Known, Asks
  <2> QED BY <1>1, <1>8, <2>1, <2>2 DEF MoreTypes
<1>12. Remembers(mem'[c])
  BY <1>1, <1>2, <1>8 DEF Remembers, MoreTypes
<1>13. MoreTypes'
  BY <1>1, <1>2, <1>9, <1>10, <1>11, <1>12, OneRemembers
<1>14. \A x \in Asks : /\ x[1] \in Episodes /\ x[2] \in Questions /\ x[2] \in Nat /\ x = <<x[1], x[2]>>
                       /\ Alerted(c, h.fired, x) => alerted[c][x] > 0 \/ AskedAt(J, x)
  <2>1. \A x \in Asks : x[1] \in Episodes /\ x[2] \in Questions /\ x[2] \in Nat /\ x = <<x[1], x[2]>>
    BY DEF Asks, Questions
  <2>2. \A x \in Asks : Alerted(c, h.fired, x) => alerted[c][x] > 0 \/ AskedAt(J, x)
    BY <1>8 DEF Alerted
  <2> QED BY <2>1, <2>2
<1>15. DueOnTime(c)'
  <2> SUFFICES ASSUME NEW n \in Due(c)', Blocked(n) PROVE Early(mem'[c].read, alerted'[c], log[n])
    BY <1>2 DEF DueOnTime, Blocked, hub
  <2>1. n \in 1..Len(log) /\ n \in Nat
    BY <1>2 DEF Due, LastAsked, Kept, Comes, hub
  <2>2. n \in Due(c) /\ (n > s \/ n \in LastAsked)
    <3>1. ASSUME n > s PROVE n \in Due(c)
      <4>1. CASE n > upto
        BY <1>4, <2>1, <4>1 DEF Due
      <4>2. CASE n <= upto
        <5>1. n \in (s + 1)..upto /\ n \in 1..MaxSeq
          BY <1>4, <2>1, <3>1, <4>2
        <5>2. Event(n) \in Messages
          BY <5>1, ToldMessages
        <5>3. Event(n) \in Coming(wire[c], Waiting(c))
          BY <1>5, <5>1, <5>2
        <5> QED BY <2>1, <5>3 DEF Due, Comes
      <4> QED BY <1>4, <2>1, <4>1, <4>2
    <3>2. CASE n \in LastAsked'
      <4>1. n \in LastAsked
        BY <1>2, <3>2 DEF LastAsked, Blocked, hub
      <4> QED BY <4>1 DEF Due
    <3>3. CASE n \in Kept(c)'
      BY <1>2, <3>3 DEF Kept
    <3>4. CASE n \in Comes(c)'
      <4>1. Event(n) \in Coming(wire[c], Waiting(c))'
        BY <3>4 DEF Comes
      <4>2. PICK k \in (s + 1)..upto : Event(n) = Event(k)
        BY <1>6, <4>1
      <4>3. n = k /\ k \in Nat /\ k > s
        BY <1>4, <4>2 DEF Event
      <4> QED BY <3>1, <4>3
    <3>5. CASE Here(c)' => n > disk'[c].cursor[2]
      <4>1. disk'[c].cursor # None /\ disk'[c].cursor[1] = epoch /\ disk'[c].cursor[2] = s
        <5>1. epoch \in 1..MaxEpochs /\ s \in 0..MaxSeq
          <6>1. epoch \in 1..MaxEpochs
            BY <1>1 DEF Types
          <6>2. s \in Nat /\ upto \in Nat /\ s <= upto /\ upto <= MaxSeq
            BY <1>4
          <6>3. MaxSeq \in Nat
            BY FanoutAssumption
          <6> HIDE DEF upto
          <6>4. s \in 0..MaxSeq
            BY <6>2, <6>3
          <6> QED BY <6>1, <6>4
        <5>2. <<epoch, s>> \in Cursors
          BY <5>1 DEF Cursors
        <5> QED BY <1>11, <5>2, NoneAssumption
      <4>2. Here(c)'
        BY <1>2, <4>1 DEF Here, hub
      <4> QED BY <3>1, <3>5, <4>1, <4>2
    <3>6. CASE n > sub'[c].upto
      <4>1. n > upto
        BY <1>2, <3>6 DEF linkButWire
      <4>2. n > s
        BY <1>4, <2>1, <4>1
      <4> QED BY <3>1, <4>2
    <3> QED BY <3>1, <3>2, <3>3, <3>4, <3>5, <3>6 DEF Due
  <2>3. Early(mem[c].read, alerted[c], log[n])
    BY <1>1, <2>2 DEF AlertsFit, DueOnTime
  <2>4. log[n].ep \in Episodes /\ log[n].q \in Nat
    BY <1>1, <2>1, LogLength
  <2>5. ASSUME NEW q, AskedAt(J, <<log[n].ep, q>>) PROVE q <= log[n].q
    <3>1. PICK j \in J : Blocked(j) /\ <<log[n].ep, q>> = <<log[j].ep, log[j].q>>
      BY <2>5 DEF AskedAt
    <3>2. q = log[j].q /\ log[n].ep = log[j].ep /\ j \in 1..Len(log) /\ j <= s
      BY <1>5, <3>1
    <3>3. CASE j = n
      BY <2>4, <3>2, <3>3
    <3>4. CASE j < n
      BY <1>1, <2>1, <3>1, <3>2, <3>4 DEF LogInOrder
    <3>5. CASE n < j
      <4>1. n \in LastAsked
        BY <1>4, <2>1, <2>2, <3>2, <3>5
      <4> QED BY <3>1, <3>2, <3>5, <4>1 DEF LastAsked
    <3> QED BY <2>1, <3>2, <3>3, <3>4, <3>5
  <2>6. h.read[log[n].ep] <= log[n].q
    <3>1. h.read[log[n].ep] = 0 => h.read[log[n].ep] <= log[n].q
      BY <2>4
    <3> QED BY <1>8, <2>3, <2>4, <2>5, <3>1 DEF Early
  <2>7. ASSUME NEW q \in Questions, alerted'[c][<<log[n].ep, q>>] > 0 PROVE q <= log[n].q
    <3>1. <<log[n].ep, q>> \in Asks
      BY <2>4 DEF Asks
    <3> QED BY <1>10, <1>14, <2>3, <2>5, <2>7, <3>1 DEF Early
  <2> QED BY <1>2, <2>6, <2>7 DEF Early
<1>16. ShowsAlerted(c)'
  BY <1>2, <1>8, <1>10 DEF ShowsAlerted, Shows
<1>17. KnownOnceAlerted(c)'
  <2> SUFFICES ASSUME NEW x \in Asks, alerted'[c][x] > 0 PROVE x[1] \in disk'[c].known
    BY DEF KnownOnceAlerted, Asks
  <2>1. Alerted(c, h.fired, x)
    BY <1>10
  <2>2. CASE alerted[c][x] > 0
    BY <1>1, <1>11, <2>2 DEF AlertsFit, KnownOnceAlerted
  <2>3. CASE \E i \in DOMAIN h.fired : h.fired[i] = x
    BY <1>11, <2>3 DEF Known
  <2> QED BY <2>1, <2>2, <2>3 DEF Alerted
<1>18. BatchInTurn(c)'
  BY <1>2 DEF BatchInTurn
<1>19. ASSUME NEW x, AskedAt(J, x) PROVE x[2] <= fleet[x[1]].asks
  <2>1. PICK j \in J : Blocked(j) /\ x = <<log[j].ep, log[j].q>>
    BY <1>19 DEF AskedAt
  <2>2. x[1] = log[j].ep /\ x[2] = log[j].q /\ j \in 1..Len(log)
    BY <2>1
  <2> QED BY <1>1, <2>1, <2>2 DEF LogInOrder
<1>20. NotAhead(c)'
  <2>1. ASSUME NEW ep \in Episodes PROVE mem'[c].read[ep] <= fleet'[ep].asks
    <3>1. mem[c].read[ep] <= fleet[ep].asks /\ fleet[ep].asks \in Nat
      BY <1>1, LogLength DEF AlertsFit, NotAhead
    <3>2. CASE AskedAt(J, <<ep, h.read[ep]>>)
      <4>1. <<ep, h.read[ep]>>[2] <= fleet[<<ep, h.read[ep]>>[1]].asks
        BY <1>19, <3>2
      <4> QED BY <1>2, <4>1
    <3>3. CASE h.read[ep] = 0
      BY <1>2, <3>1, <3>3
    <3>4. CASE h.read[ep] = mem[c].read[ep]
      BY <1>2, <3>1, <3>4
    <3> QED BY <1>8, <3>2, <3>3, <3>4
  <2>2. ASSUME NEW x \in Asks, alerted'[c][x] > 0 PROVE x[2] <= fleet'[x[1]].asks
    <3>1. alerted[c][x] > 0 \/ AskedAt(J, x)
      BY <1>10, <1>14, <2>2
    <3> QED BY <1>1, <1>2, <1>19, <3>1 DEF AlertsFit, NotAhead
  <2> QED BY <2>1, <2>2 DEF NotAhead, Asks
<1>21. OnceEach(c)'
  BY <1>1, <1>10 DEF AlertsFit, OnceEach, Asks
<1>22. AlertsFit(c)'
  BY <1>15, <1>16, <1>17, <1>18, <1>20, <1>21 DEF AlertsFit
<1>23. ASSUME NEW d \in Clients \ {c} PROVE AlertsFit(d)'
  <2>1. /\ Unmoved(d) /\ wire'[d] = wire[d]
        /\ PumpWaits(d)' <=> PumpWaits(d)
        /\ PumpWaits(d) => pump'.seq = pump.seq
    BY <1>1, <1>2, OthersHear
  <2>2. Waiting(d)' = Waiting(d)
    BY <2>1 DEF Waiting, Unmoved
  <2>3. Coming(wire[d], Waiting(d))' = Coming(wire[d], Waiting(d))
    BY <2>1, <2>2
  <2>4. AlertsFit(d)
    BY DEF AInv
  <2>5. /\ alerted'[d] = alerted[d] /\ disk'[d] = disk[d] /\ mem'[d] = mem[d] /\ sub'[d] = sub[d]
    BY <1>2, <1>9 DEF linkButWire
  <2> QED BY <1>1, <1>7, <2>3, <2>4, <2>5, UntouchedFit
<1> QED BY <1>7, <1>13, <1>22, <1>23 DEF AInv, TInv

LEMMA FirstAlerts ==
  ASSUME NEW S, NEW s \in Seq(S), NEW n \in 0..Len(s)
  PROVE  /\ SubSeq(s, 1, n) \in Seq(S) /\ DOMAIN SubSeq(s, 1, n) = 1..n
         /\ \A i \in 1..n : i \in DOMAIN s /\ SubSeq(s, 1, n)[i] = s[i]
<1>1. Len(s) \in Nat /\ DOMAIN s = 1..Len(s) /\ n \in Nat
  OBVIOUS
<1>2. SubSeq(s, 1, n) = [i \in 1..n |-> s[i]]
  BY <1>1
<1>3. \A i \in 1..n : i \in DOMAIN s /\ s[i] \in S
  BY <1>1
<1> QED BY <1>1, <1>2, <1>3

\* The runtime is killed at an alert: episodes are known up to that alert, and
\* alerted before it.  An episode asks one question, so none is asked again.
LEMMA CrashAlertingFits ==
  ASSUME AInv, IInv', NEW c \in Clients, CrashAlerting(c), MaxQuestions = 1
  PROVE  AInv'
<1> DEFINE fired == Handling(c, Head(wire[c])).fired
<1>1. /\ IInv /\ Types /\ Types' /\ MoreTypes /\ LogInOrder /\ AlertsFit(c)
      /\ Len(log) \in Nat
  BY LogLength DEF AInv, TInv, IInv
<1>2. /\ wire[c] # << >> /\ Handles(c, Head(wire[c]))
      /\ Closed(c) /\ mem' = [mem EXCEPT ![c] = NoMemory]
      /\ UNCHANGED <<fleet, hub, connects>>
  BY DEF CrashAlerting
<1>3. PICK i \in DOMAIN fired :
        /\ disk' = [disk EXCEPT ![c].known = @ \cup Known(SubSeq(fired, 1, i))]
        /\ alerted' = [alerted EXCEPT ![c] = Rang(@, SubSeq(fired, 1, i - 1))]
  BY DEF CrashAlerting
<1>4. PICK s \in 0..sub[c].upto, J \in SUBSET (1..Len(log)) : HandlesUpTo(c, s, J)
  BY <1>2, HandlingLeaves
<1>5. /\ fired \in Seq(Asks) /\ AllNew(c, fired)
      /\ \A k \in DOMAIN fired : AskedAt(J, fired[k])
  BY <1>4 DEF HandlesUpTo, Leaves, Handled
<1> HIDE DEF fired
<1> DEFINE told == SubSeq(fired, 1, i)
           rung == SubSeq(fired, 1, i - 1)
<1>6. /\ told \in Seq(Asks) /\ rung \in Seq(Asks) /\ DOMAIN told = 1..i /\ DOMAIN rung = 1..(i - 1)
      /\ \A k \in 1..i : k \in DOMAIN fired /\ told[k] = fired[k]
      /\ \A k \in 1..(i - 1) : k \in 1..i /\ k \in DOMAIN fired /\ rung[k] = fired[k]
  <2>1. i \in 0..Len(fired) /\ i - 1 \in 0..Len(fired) /\ \A k \in 1..(i - 1) : k \in 1..i
    BY <1>5
  <2> DEFINE n == i - 1
  <2> HIDE DEF n
  <2>2. n \in 0..Len(fired)
    BY <2>1 DEF n
  <2>3. /\ SubSeq(fired, 1, n) \in Seq(Asks) /\ DOMAIN SubSeq(fired, 1, n) = 1..n
        /\ \A k \in 1..n : k \in DOMAIN fired /\ SubSeq(fired, 1, n)[k] = fired[k]
    BY <1>5, <2>2, FirstAlerts
  <2>4. /\ SubSeq(fired, 1, i) \in Seq(Asks) /\ DOMAIN SubSeq(fired, 1, i) = 1..i
        /\ \A k \in 1..i : k \in DOMAIN fired /\ SubSeq(fired, 1, i)[k] = fired[k]
    BY <1>5, <2>1, FirstAlerts
  <2> QED BY <2>1, <2>3, <2>4 DEF n
<1> HIDE DEF told, rung
<1>7. AllNew(c, rung)
  BY <1>5, <1>6 DEF AllNew
<1>8. /\ alerted[c] \in [Asks -> 0..2] /\ alerted'[c] = Rang(alerted[c], rung)
      /\ \A d \in Clients \ {c} : alerted'[d] = alerted[d]
      /\ alerted' = [d \in Clients |-> alerted'[d]]
  <2>1. alerted' = [alerted EXCEPT ![c] = Rang(alerted[c], rung)]
    BY <1>3 DEF rung
  <2> QED BY <1>1, <2>1 DEF MoreTypes
<1>9. /\ alerted'[c] \in [Asks -> 0..2]
      /\ \A x \in Asks : alerted'[c][x] > 0 => Alerted(c, rung, x)
      /\ \A x \in Asks : alerted[c][x] <= 1 => alerted'[c][x] <= 1
  <2>1. /\ Rang(alerted[c], rung) \in [Asks -> 0..2]
        /\ \A x \in Asks : Rang(alerted[c], rung)[x] > 0 => Alerted(c, rung, x)
        /\ \A x \in Asks : alerted[c][x] <= 1 => Rang(alerted[c], rung)[x] <= 1
    BY <1>6, <1>7, <1>8, RangOnce
  <2> QED BY <1>8, <2>1
<1>10. /\ disk'[c].known = disk[c].known \cup Known(told)
       /\ \A d \in Clients : disk'[d].cursor = disk[d].cursor
       /\ \A d \in Clients \ {c} : disk'[d] = disk[d]
  <2>1. disk' = [disk EXCEPT ![c] = [disk[c] EXCEPT !.known = disk[c].known \cup Known(told)]]
    BY <1>3 DEF told
  <2>2. \A d \in Clients : DOMAIN disk[d] = {"cursor", "known"}
    BY <1>1 DEF Types
  <2>3. /\ disk'[c] = [disk[c] EXCEPT !.known = disk[c].known \cup Known(told)]
        /\ \A d \in Clients \ {c} : disk'[d] = disk[d]
    BY <1>1, <2>1 DEF Types
  <2>4. disk'[c].known = disk[c].known \cup Known(told) /\ disk'[c].cursor = disk[c].cursor
    BY <2>2, <2>3
  <2> QED BY <2>3, <2>4
<1>11. disk'[c].known \in SUBSET Episodes
  <2>1. Known(told) \in SUBSET Episodes
    <3>1. \A k \in DOMAIN told : told[k] \in Asks
      BY <1>5, <1>6
    <3> QED BY <3>1 DEF Known, Asks
  <2> QED BY <1>1, <1>10, <2>1 DEF MoreTypes
<1>12. /\ mem'[c] = NoMemory /\ sub'[c] = None
       /\ \A d \in Clients : uplink'[d] = uplink[d] \/ uplink'[d] = << >>
       /\ \A d \in Clients \ {c} :
            /\ Unmoved(d)
            /\ mem'[d] = mem[d]
            /\ wire'[d] = wire[d]
            /\ PumpWaits(d)' <=> PumpWaits(d)
            /\ PumpWaits(d) => pump'.seq = pump.seq
  <2>1. UNCHANGED hub
    BY <1>2
  <2> QED BY <1>1, <1>2, <1>10, <2>1, ClosedLeaves
<1>13. NoMemory.batch = None /\ NoMemory.read = [ep \in Episodes |-> 0] /\ Remembers(NoMemory)
  BY NothingRemembered
<1>14. MoreTypes'
  <2>1. log' = log /\ low' = low /\ connects' \in [Clients -> 0..MaxConnects]
    BY <1>1, <1>2 DEF hub, MoreTypes
  <2>2. \A d \in Clients : alerted'[d] \in [Asks -> 0..2] /\ disk'[d].known \in SUBSET Episodes
    BY <1>1, <1>8, <1>9, <1>10, <1>11 DEF MoreTypes
  <2>3. \A d \in Clients : mem'[d] = mem[d] \/ Remembers(mem'[d])
    BY <1>12, <1>13
  <2> QED BY <1>1, <1>8, <1>12, <2>1, <2>2, <2>3, MoreTypesOfOne
<1>15. LogMoves /\ NewIsSilent' /\ LogInOrder'
  BY <1>2, HubKept
<1>16. \A x \in Asks : /\ x[1] \in Episodes /\ x[2] = 1
                       /\ alerted'[c][x] > 0 => alerted[c][x] > 0 \/ \E k \in DOMAIN rung : rung[k] = x
  BY <1>9 DEF Asks, Questions, Alerted
<1>17. DueOnTime(c)'
  <2> SUFFICES ASSUME NEW n \in Due(c)' PROVE Early(mem'[c].read, alerted'[c], log'[n])
    BY DEF DueOnTime
  <2>1. n \in 1..Len(log') /\ log' = log
    BY <1>2 DEF Due, LastAsked, Kept, Comes, hub
  <2>2. log[n].ep \in Episodes /\ log[n].q \in 1..1
    <3>1. log[n].ep \in Episodes /\ log[n].q \in Questions
      BY <1>1, <2>1, LogLength
    <3> QED BY <3>1 DEF Questions
  <2>3. mem'[c].read[log[n].ep] = 0
    BY <1>12, <1>13, <2>2
  <2>4. \A q \in Questions : q \in 1..1
    BY DEF Questions
  <2> QED BY <2>1, <2>2, <2>3, <2>4 DEF Early
<1>18. ShowsAlerted(c)'
  BY <1>12, <1>13, <1>16 DEF ShowsAlerted
<1>19. KnownOnceAlerted(c)'
  <2> SUFFICES ASSUME NEW x \in Asks, alerted'[c][x] > 0 PROVE x[1] \in disk'[c].known
    BY DEF KnownOnceAlerted, Asks
  <2>1. CASE alerted[c][x] > 0
    BY <1>1, <1>10, <2>1 DEF AlertsFit, KnownOnceAlerted
  <2>2. CASE \E k \in DOMAIN rung : rung[k] = x
    <3>1. PICK k \in 1..(i - 1) : rung[k] = x
      BY <1>6, <2>2
    <3>2. k \in DOMAIN told /\ told[k] = x
      BY <1>6, <3>1
    <3> QED BY <1>10, <3>2 DEF Known
  <2> QED BY <1>16, <2>1, <2>2
<1>20. BatchInTurn(c)'
  BY <1>12, <1>13 DEF BatchInTurn
<1>21. NotAhead(c)'
  <2>1. ASSUME NEW ep \in Episodes PROVE mem'[c].read[ep] <= fleet'[ep].asks
    <3>1. fleet[ep].asks \in Nat
      BY <1>1, LogLength
    <3>2. mem'[c].read[ep] = 0
      BY <1>12, <1>13
    <3> QED BY <1>2, <3>1, <3>2
  <2>2. ASSUME NEW x \in Asks, alerted'[c][x] > 0 PROVE x[2] <= fleet'[x[1]].asks
    <3>1. CASE alerted[c][x] > 0
      BY <1>1, <1>2, <3>1 DEF AlertsFit, NotAhead
    <3>2. CASE \E k \in DOMAIN rung : rung[k] = x
      <4>1. AskedAt(J, x)
        BY <1>5, <1>6, <3>2
      <4>2. PICK j \in J : Blocked(j) /\ x = <<log[j].ep, log[j].q>>
        BY <4>1 DEF AskedAt
      <4>3. x[1] = log[j].ep /\ x[2] = log[j].q /\ j \in 1..Len(log)
        BY <4>2
      <4> QED BY <1>1, <1>2, <4>2, <4>3 DEF LogInOrder
    <3> QED BY <1>16, <2>2, <3>1, <3>2
  <2> QED BY <2>1, <2>2 DEF NotAhead, Asks
<1>22. OnceEach(c)'
  BY <1>1, <1>9 DEF AlertsFit, OnceEach, Asks
<1>23. AlertsFit(c)'
  BY <1>17, <1>18, <1>19, <1>20, <1>21, <1>22 DEF AlertsFit
<1>24. ASSUME NEW d \in Clients \ {c} PROVE AlertsFit(d)'
  <2>1. Waiting(d)' = Waiting(d)
    BY <1>12 DEF Waiting, Unmoved
  <2>2. Coming(wire[d], Waiting(d))' = Coming(wire[d], Waiting(d))
    BY <1>12, <2>1
  <2>3. AlertsFit(d)
    BY DEF AInv
  <2>4. /\ alerted'[d] = alerted[d] /\ disk'[d] = disk[d] /\ mem'[d] = mem[d] /\ sub'[d] = sub[d]
    BY <1>8, <1>10, <1>12 DEF Unmoved
  <2> QED BY <1>1, <1>15, <2>2, <2>3, <2>4, UntouchedFit
<1> QED BY <1>14, <1>15, <1>23, <1>24 DEF AInv, TInv

-----------------------------------------------------------------------------
(* The theorems about alerts and types.                                    *)

LEMMA InitAInv ==
  ASSUME Init
  PROVE  AInv
<1>1. /\ fleet = [ep \in Episodes |-> [state |-> "new", asks |-> 0, done |-> 0]]
      /\ log = << >> /\ low = 1
      /\ sub = [c \in Clients |-> None]
      /\ connects = [c \in Clients |-> 0]
      /\ wire = [c \in Clients |-> << >>]
      /\ uplink = [c \in Clients |-> << >>]
      /\ mem = [c \in Clients |-> NoMemory]
      /\ disk = [c \in Clients |-> [cursor |-> None, known |-> {}]]
      /\ alerted = [c \in Clients |-> [x \in Asks |-> 0]]
  BY DEF Init, Asks
<1>2. Len(log) = 0 /\ 1..Len(log) = {} /\ DOMAIN << >> = {}
  BY <1>1
<1>3. NoMemory.batch = None /\ NoMemory.read = [ep \in Episodes |-> 0] /\ Remembers(NoMemory)
  BY NothingRemembered
<1>4. IInv
  BY InitIInv
<1>5. \A c \in Clients : mem[c] = NoMemory /\ disk[c].known = {}
  BY <1>1
<1>6. alerted \in [Clients -> [Asks -> 0..2]]
      /\ \A c \in Clients, x \in Asks : alerted[c][x] = 0
  BY <1>1
<1>7. MoreTypes
  <2>1. connects \in [Clients -> 0..MaxConnects]
    BY <1>1, FanoutAssumption
  <2>2. Len(log) + 1 - low <= RingMax
    BY <1>1, <1>2
  <2>3. \A c \in Clients : DOMAIN uplink[c] = {}
    BY <1>1, <1>2
  <2> QED BY <1>3, <1>5, <1>6, <2>1, <2>2, <2>3 DEF MoreTypes, Remembers
<1>8. NewIsSilent /\ LogInOrder
  BY <1>1, <1>2 DEF NewIsSilent, LogInOrder
<1>9. ASSUME NEW c \in Clients PROVE AlertsFit(c)
  <2>1. Due(c) = {}
    BY <1>2 DEF Due, LastAsked, Kept, Comes
  <2>2. DueOnTime(c)
    BY <2>1 DEF DueOnTime
  <2>3. ShowsAlerted(c) /\ KnownOnceAlerted(c) /\ OnceEach(c)
    BY <1>6 DEF ShowsAlerted, KnownOnceAlerted, OnceEach, Asks
  <2>4. BatchInTurn(c)
    BY <1>3, <1>5 DEF BatchInTurn
  <2>5. NotAhead(c)
    BY <1>1, <1>3, <1>5, <1>6 DEF NotAhead, Asks
  <2> QED BY <2>2, <2>3, <2>4, <2>5 DEF AlertsFit
<1> QED BY <1>4, <1>7, <1>8, <1>9 DEF AInv, TInv

LEMMA StandingStillFits ==
  ASSUME AInv, IInv', UNCHANGED vars
  PROVE  AInv'
<1>1. /\ UNCHANGED <<fleet, epoch, log, low, queue, pump, sub, conn, connects, listing, wire, uplink>>
      /\ UNCHANGED <<mem, disk, alerted>>
  BY DEF vars, hub, link, runtime
<1>2. IInv /\ Types /\ Types' /\ MoreTypes
  BY DEF AInv, TInv, IInv
<1>3. MoreTypes'
  BY <1>1, <1>2, MoreTypesKept
<1>4. LogMoves /\ NewIsSilent' /\ LogInOrder'
  BY <1>1, HubKept DEF hub
<1>5. ASSUME NEW c \in Clients PROVE AlertsFit(c)'
  <2>1. Waiting(c)' = Waiting(c)
    BY <1>1 DEF Waiting, PumpWaits
  <2>2. Coming(wire[c], Waiting(c))' = Coming(wire[c], Waiting(c))
    BY <1>1, <2>1
  <2>3. AlertsFit(c)
    BY DEF AInv
  <2> QED BY <1>1, <1>2, <1>4, <2>2, <2>3, UntouchedFit
<1> QED BY <1>3, <1>4, <1>5 DEF AInv, TInv

\* The runtime is killed at an alert only where an episode asks one question.
AlertCrashIsSafe == AlertCrash => MaxQuestions = 1

LEMMA StepAInv ==
  ASSUME ~Watchdog, AlertCrashIsSafe, AInv, [Next]_vars
  PROVE  AInv'
<1>0. IInv'
  BY StepIInv DEF AInv, TInv
<1>1. ASSUME Fleet PROVE AInv'
  BY <1>0, <1>1, BlocksFits, AsksNextFits, AnnounceFits, AnsweredFits, UnblocksFits DEF Fleet
<1>2. ASSUME NEW c \in Clients, Connect(c) PROVE AInv'
  BY <1>0, <1>2, ConnectFits
<1>3. ASSUME NEW c \in Clients, Bridge(c) PROVE AInv'
  BY <1>0, <1>3, PumpSendFits, RegisterFits, ListPanesFits, SubscribeFits, SendReplayFits, CatchUpFits
     DEF Bridge
<1>4. ASSUME NEW c \in Clients, Receive(c) PROVE AInv'
  BY <1>0, <1>4, ReceiveSnapshotFits, ReceiveBatchedFits, ReceiveEventFits DEF Receive
<1>5. ASSUME NEW c \in Clients, Fault(c) PROVE AInv'
  <2>1. ~Resubscribe(c)
    BY DEF Resubscribe
  <2>2. CrashAlerting(c) => MaxQuestions = 1
    BY DEF CrashAlerting, AlertCrashIsSafe
  <2> QED BY <1>0, <1>5, <2>1, <2>2, DropFits, CrashFits, CrashAlertingFits DEF Fault
<1> QED BY <1>0, <1>1, <1>2, <1>3, <1>4, <1>5, PumpTakeFits, BridgeRestartFits, StandingStillFits
        DEF Next

LEMMA AInvTypes ==
  ASSUME AInv
  PROVE  TypeOK
<1>1. IInv /\ Types /\ MoreTypes
  BY DEF AInv, TInv, IInv
<1>2. /\ fleet \in [Episodes -> [state : {"new", "open", "over"},
                                 asks : 0..MaxQuestions, done : 0..MaxQuestions]]
      /\ epoch \in 1..MaxEpochs
      /\ log \in Seq(Frames) /\ Len(log) <= MaxSeq
      /\ low \in 1..(Len(log) + 1)
      /\ Len(log) + 1 - low <= RingMax
      /\ log # << >> => low <= Len(log)
      /\ queue \in Seq(1..MaxSeq)
      /\ pump = None \/ pump \in Pumps
  BY <1>1 DEF Types, MoreTypes
<1>3. ASSUME NEW c \in Clients
      PROVE  /\ sub[c] = None \/ sub[c] \in Subs
             /\ conn[c] \in {"down", "joining", "up"}
             /\ connects[c] \in 0..MaxConnects
             /\ listing[c] = None \/ listing[c] \in [ok : BOOLEAN, panes : SUBSET Episodes]
             /\ wire[c] \in Seq(Messages)
             /\ mem[c].batch = None \/ mem[c].batch \in Batches
             /\ mem[c].synced \in BOOLEAN
             /\ disk[c].cursor \in {None} \cup Cursors
  BY <1>1 DEF Types, MoreTypes
<1>4. ASSUME NEW c \in Clients
      PROVE  /\ \A i \in DOMAIN uplink[c] :
                  /\ uplink[c][i].after \in {None} \cup 0..MaxSeq
                  /\ uplink[c][i].epoch \in {None} \cup 1..MaxEpochs
             /\ mem[c].read \in [Episodes -> 0..MaxQuestions]
             /\ mem[c].view \cup mem[c].spent \cup disk[c].known \subseteq Episodes
             /\ mem[c].alert \in BOOLEAN /\ mem[c].resent \in BOOLEAN
             /\ alerted[c] \in [Episodes \X Questions -> 0..2]
  BY <1>1 DEF MoreTypes, Asks
<1> QED BY <1>2, <1>3, <1>4 DEF TypeOK

LEMMA AInvOnce ==
  ASSUME AInv
  PROVE  AlertedOnce
<1> SUFFICES ASSUME NEW c \in Clients, NEW x \in Episodes \X Questions
             PROVE  alerted[c][x] <= 1
  BY DEF AlertedOnce
<1>1. OnceEach(c)
  BY DEF AInv, AlertsFit
<1> QED BY <1>1 DEF OnceEach, Asks

\* What alerts rest on: what a runtime may yet handle asks no earlier question
\* than it shows or alerted, and an episode is known once it is alerted.
THEOREM AlertsAreInTurn ==
  ASSUME ~Watchdog, AlertCrashIsSafe
  PROVE  Spec => []AInv
<1>1. Init => AInv
  BY InitAInv
<1>2. AInv /\ [Next]_vars => AInv'
  BY StepAInv
<1> QED BY <1>1, <1>2, PTL DEF Spec

\* "Instead of re-alerting what it already announced": one runtime alerts a
\* question once, over reconnects and restarts of both sides.
THEOREM EveryQuestionOnce ==
  ASSUME ~Watchdog, AlertCrashIsSafe
  PROVE  Spec => []AlertedOnce
<1>1. AInv => AlertedOnce
  BY AInvOnce
<1> QED BY <1>1, AlertsAreInTurn, PTL

THEOREM FanoutTyped ==
  ASSUME ~Watchdog, AlertCrashIsSafe
  PROVE  Spec => []TypeOK
<1>1. AInv => TypeOK
  BY AInvTypes
<1> QED BY <1>1, AlertsAreInTurn, PTL

-----------------------------------------------------------------------------
(* What a runtime shows.                                                   *)

\* The list at place i of the wire shows episode ep.
ShownAt(c, i, ep) == wire[c][i].type = "snapshot" /\ ep \in wire[c][i].panes

\* Before place i of the wire, or already.
ShownBy(c, i, ep) == ep \in mem[c].view \/ \E j \in 1..(i - 1) : ShownAt(c, j, ep)

\* The frame at place n asks a question of ep.
AsksOf(n, ep) == log[n].kind = "blocked" /\ log[n].ep = ep

\* Once the runtime is shown an open episode, no later list hides it.
StaysShown(c, ep) ==
  \A i \in DOMAIN wire[c] :
    wire[c][i].type = "snapshot" /\ ShownBy(c, i, ep) => ep \in wire[c][i].panes

\* A question of it comes after a list that shows it, and whoever subscribed
\* is shown it by what is on the wire.
ShownFirst(c, ep) ==
  /\ \A i \in DOMAIN wire[c] :
       wire[c][i].type = "event" /\ AsksOf(wire[c][i].seq, ep) => ShownBy(c, i, ep)
  /\ sub[c] # None => ShownBy(c, Len(wire[c]) + 1, ep)
  /\ mem[c].batch # None =>
       \A i \in DOMAIN mem[c].batch : AsksOf(mem[c].batch[i], ep) => ep \in mem[c].view

ViewFits(c, ep) ==
  /\ ep \in Open => StaysShown(c, ep) /\ ShownFirst(c, ep)
  /\ fleet[ep].state = "new" => ~ShownBy(c, Len(wire[c]) + 1, ep)

\* The list is asked for, and subscribed with, once the client is registered;
\* the replay holds no lists.
Registered(c) ==
  /\ listing[c] # None => listing[c].ok
  /\ sub[c] # None \/ listing[c] # None => conn[c] = "up"
  /\ sub[c] # None => \A i \in DOMAIN sub[c].todo : Told(sub[c].todo[i])

VInv == \A c \in Clients : Registered(c) /\ \A ep \in Episodes : ViewFits(c, ep)

\* An episode opens once.
FleetGoesOn ==
  \A ep \in Episodes :
    /\ fleet'[ep].state = "new" => fleet[ep].state = "new"
    /\ fleet'[ep].state = "open" => fleet[ep].state \in {"new", "open"}

LEMMA WireLength ==
  ASSUME Types, NEW c \in Clients
  PROVE  Len(wire[c]) \in Nat /\ DOMAIN wire[c] = 1..Len(wire[c])
         /\ \A i \in DOMAIN wire[c] : wire[c][i] \in Messages
  BY WaitingType

\* The first lists of a wire show what they showed.
LEMMA ShownStill ==
  ASSUME NEW c \in Clients, mem'[c].view = mem[c].view, NEW k \in Nat,
         \A i \in 1..k : wire'[c][i] = wire[c][i], NEW ep
  PROVE  \A i \in 1..(k + 1) : ShownBy(c, i, ep)' <=> ShownBy(c, i, ep)
<1>1. \A i \in 1..k : ShownAt(c, i, ep)' <=> ShownAt(c, i, ep)
  BY DEF ShownAt
<1> TAKE i \in 1..(k + 1)
<1>2. \A j \in 1..(i - 1) : j \in 1..k
  OBVIOUS
<1> QED BY <1>1, <1>2 DEF ShownBy

\* What was shown stays so further down the wire.
LEMMA ShownOn ==
  ASSUME NEW c \in Clients, NEW i \in Nat, NEW j \in Nat, i <= j, NEW ep, ShownBy(c, i, ep)
  PROVE  ShownBy(c, j, ep)
  BY DEF ShownBy

LEMMA WireIsLogged ==
  ASSUME IInv, NEW c \in Clients, NEW i \in DOMAIN wire[c], wire[c][i].type = "event"
  PROVE  wire[c][i].seq \in 1..Len(log) /\ sub[c] # None
<1>1. wire[c] \in Seq(Messages) /\ wire[c][i] \in Messages
  BY WaitingType DEF IInv
<1>2. wire[c][i].seq \in 1..MaxSeq /\ wire[c][i] = Event(wire[c][i].seq)
  BY <1>1, ToldMessages
<1>3. wire[c][i] \in Coming(wire[c], Waiting(c))
  BY <1>1, <1>2 DEF Coming, Told
<1>4. wire[c][i].seq \in 1..Len(log)
  BY <1>2, <1>3, ComingIsLogged
<1>5. sub[c] # None
  BY <1>3 DEF IInv, Lane, BeforeSubscription
<1> QED BY <1>4, <1>5

\* A question of the log, of an episode that is open, was there and it open.
LEMMA AskedBefore ==
  ASSUME IInv, Grows, NEW ep \in Open', NEW n \in 1..Len(log), AsksOf(n, ep)'
  PROVE  ep \in Open /\ AsksOf(n, ep)
<1>1. Asking(n)'
  BY DEF Asking, AsksOf
<1>2. Asking(n) /\ log'[n] = log[n]
  BY <1>1 DEF Grows
<1>3. log[n].ep = ep
  BY <1>2 DEF AsksOf
<1> QED BY <1>2, <1>3 DEF Asking, AsksOf

LEMMA BatchIsLogged ==
  ASSUME IInv, NEW c \in Clients, mem[c].batch # None, NEW i \in DOMAIN mem[c].batch
  PROVE  mem[c].batch[i] \in 1..Len(log) /\ sub[c] # None
<1>1. sub[c] # None
  <2> SUFFICES ASSUME sub[c] = None PROVE FALSE
    OBVIOUS
  <2>1. mem[c].batch = << >>
    BY DEF IInv, Lane, BeforeSubscription
  <2>2. DOMAIN << >> = {}
    OBVIOUS
  <2> QED BY <2>1, <2>2
<1>2. AfterSubscription(c) /\ sub[c].upto \in Nat /\ Len(log) \in Nat /\ sub[c].upto <= Len(log)
  BY <1>1, SubType DEF IInv, Lane, AfterSubscription, Fed
<1>3. mem[c].batch \in Seq(1..MaxSeq)
  BY DEF IInv, Types, Batches
<1> QED BY <1>1, <1>2, <1>3, BatchUpTo

\* The questions on an unchanged part of the wire, and in the batch.
LEMMA QuestionsStill ==
  ASSUME IInv, Grows, NEW c \in Clients, NEW ep \in Open', ViewFits(c, ep),
         mem'[c].view = mem[c].view,
         mem'[c].batch = mem[c].batch \/ mem'[c].batch = None \/ mem'[c].batch = << >>,
         \A i \in DOMAIN wire[c] : wire'[c][i] = wire[c][i]
  PROVE  /\ \A i \in DOMAIN wire[c] :
              wire'[c][i].type = "event" /\ AsksOf(wire[c][i].seq, ep)' => ShownBy(c, i, ep)'
         /\ mem'[c].batch # None =>
              \A i \in DOMAIN mem'[c].batch :
                AsksOf(mem[c].batch[i], ep)' => ep \in mem'[c].view
<1>1. ASSUME NEW i \in DOMAIN wire[c], wire'[c][i].type = "event", AsksOf(wire[c][i].seq, ep)'
      PROVE  ShownBy(c, i, ep)'
  <2>1. wire'[c][i] = wire[c][i]
    OBVIOUS
  <2>2. PICK n \in 1..Len(log) : n = wire[c][i].seq
    BY <1>1, <2>1, WireIsLogged
  <2>3. AsksOf(n, ep)'
    BY <1>1, <2>1, <2>2 DEF AsksOf
  <2>4. ep \in Open /\ AsksOf(n, ep)
    BY <2>3, AskedBefore
  <2>5. ShownBy(c, i, ep)
    BY <1>1, <2>1, <2>2, <2>4 DEF ViewFits, ShownFirst
  <2>6. Len(wire[c]) \in Nat /\ DOMAIN wire[c] = 1..Len(wire[c])
    BY WireLength DEF IInv
  <2>7. \A j \in 1..(Len(wire[c]) + 1) : ShownBy(c, j, ep)' <=> ShownBy(c, j, ep)
    BY <2>6, ShownStill
  <2> QED BY <2>5, <2>6, <2>7
<1>2. ASSUME mem'[c].batch # None, NEW i \in DOMAIN mem'[c].batch, AsksOf(mem[c].batch[i], ep)'
      PROVE  ep \in mem'[c].view
  <2>1. mem'[c].batch = mem[c].batch
    <3>1. DOMAIN << >> = {}
      OBVIOUS
    <3> QED BY <1>2, <3>1
  <2>2. PICK n \in 1..Len(log) : n = mem[c].batch[i]
    BY <1>2, <2>1, BatchIsLogged
  <2>3. AsksOf(n, ep)'
    BY <1>2, <2>1, <2>2 DEF AsksOf
  <2>4. ep \in Open /\ AsksOf(n, ep)
    BY <2>3, AskedBefore
  <2> QED BY <1>2, <2>1, <2>2, <2>4 DEF ViewFits, ShownFirst
<1> QED BY <1>1, <1>2

\* A step that does not touch what client c is shown.
LEMMA ViewKept ==
  ASSUME IInv, Grows, FleetGoesOn, NEW c \in Clients, NEW ep \in Episodes, ViewFits(c, ep),
         wire'[c] = wire[c], mem'[c].view = mem[c].view,
         mem'[c].batch = mem[c].batch \/ mem'[c].batch = None \/ mem'[c].batch = << >>,
         sub'[c] # None /\ ep \in Open' => sub[c] # None /\ ep \in Open
  PROVE  ViewFits(c, ep)'
<1>1. Len(wire[c]) \in Nat /\ DOMAIN wire[c] = 1..Len(wire[c])
  BY WireLength DEF IInv
<1>2. \A i \in 1..(Len(wire[c]) + 1) : ShownBy(c, i, ep)' <=> ShownBy(c, i, ep)
  BY <1>1, ShownStill
<1>3. ep \in Open' => ep \in Open \/ fleet[ep].state = "new"
  BY DEF Open, FleetGoesOn
<1>4. fleet[ep].state = "new" => \A i \in 1..(Len(wire[c]) + 1) : ~ShownBy(c, i, ep)
  BY <1>1, ShownOn DEF ViewFits
<1>5. ASSUME ep \in Open' PROVE StaysShown(c, ep)'
  <2>1. ASSUME NEW i \in DOMAIN wire[c], wire[c][i].type = "snapshot", ShownBy(c, i, ep)
        PROVE  ep \in wire[c][i].panes
    <3>1. fleet[ep].state # "new"
      BY <1>1, <1>4, <2>1
    <3> QED BY <1>3, <1>5, <2>1, <3>1 DEF ViewFits, StaysShown
  <2> QED BY <1>1, <1>2, <2>1 DEF StaysShown
<1>6. ASSUME ep \in Open' PROVE ShownFirst(c, ep)'
  <2>1. /\ \A i \in DOMAIN wire[c] :
              wire'[c][i].type = "event" /\ AsksOf(wire[c][i].seq, ep)' => ShownBy(c, i, ep)'
        /\ mem'[c].batch # None =>
             \A i \in DOMAIN mem'[c].batch : AsksOf(mem[c].batch[i], ep)' => ep \in mem'[c].view
    BY <1>6, QuestionsStill
  <2>2. sub'[c] # None => ShownBy(c, Len(wire[c]) + 1, ep)'
    BY <1>1, <1>2, <1>6 DEF ViewFits, ShownFirst
  <2> QED BY <2>1, <2>2 DEF ShownFirst
<1>7. fleet'[ep].state = "new" => ~ShownBy(c, Len(wire[c]) + 1, ep)'
  BY <1>1, <1>2, <1>4 DEF FleetGoesOn
<1> QED BY <1>5, <1>6, <1>7 DEF ViewFits

\* A list goes onto the wire that shows every open episode and no new one, or
\* a message to a client that was shown them.
LEMMA ViewPut ==
  ASSUME IInv, Types', Grows, FleetGoesOn, NEW c \in Clients, NEW ep \in Episodes, ViewFits(c, ep),
         NEW x \in Messages, wire'[c] = Append(wire[c], x), mem'[c] = mem[c],
         \/ x.type = "snapshot" /\ (ep \in Open' => ep \in x.panes)
                                /\ (fleet'[ep].state = "new" => ep \notin x.panes)
         \/ x.type # "snapshot" /\ sub[c] # None /\ (ep \in Open' => ep \in Open)
  PROVE  ViewFits(c, ep)'
<1>0. Len(wire[c]) \in Nat
  BY WireLength DEF IInv
<1>k. PICK k \in Nat : k = Len(wire[c])
  BY <1>0
<1>1. k \in Nat /\ DOMAIN wire[c] = 1..k /\ wire[c] \in Seq(Messages)
  BY <1>k, WireLength DEF IInv, Types
<1>2. /\ Len(wire'[c]) = k + 1 /\ wire'[c][k + 1] = x
      /\ \A i \in 1..k : wire'[c][i] = wire[c][i]
  BY <1>1, <1>k
<1>3. \A i \in 1..(k + 1) : ShownBy(c, i, ep)' <=> ShownBy(c, i, ep)
  BY <1>2, ShownStill
<1>4. ShownBy(c, k + 2, ep)' <=> ShownBy(c, k + 1, ep) \/ (x.type = "snapshot" /\ ep \in x.panes)
  <2>1. ShownAt(c, k + 1, ep)' <=> x.type = "snapshot" /\ ep \in x.panes
    BY <1>2 DEF ShownAt
  <2>2. ShownBy(c, k + 2, ep)' <=> ShownBy(c, k + 1, ep)' \/ ShownAt(c, k + 1, ep)'
    <3>1. 1..((k + 2) - 1) = (1..((k + 1) - 1)) \cup {k + 1}
      BY <1>1
    <3> QED BY <3>1 DEF ShownBy
  <2> QED BY <1>1, <1>3, <2>1, <2>2
<1>5. ep \in Open' => ep \in Open \/ fleet[ep].state = "new"
  BY DEF Open, FleetGoesOn
<1>6. fleet[ep].state = "new" => \A i \in 1..(k + 1) : ~ShownBy(c, i, ep)
  BY <1>1, <1>k, ShownOn DEF ViewFits
<1>7. /\ k + 1 \in 1..(k + 1) /\ k + 1 \in Nat /\ k + 2 \in Nat /\ DOMAIN wire'[c] = 1..(k + 1)
      /\ \A i \in 1..(k + 1) : i \in 1..k \/ i = k + 1
      /\ (k + 1) + 1 = k + 2
  BY <1>1, <1>2
<1>8. ASSUME ep \in Open' PROVE StaysShown(c, ep)'
  <2> SUFFICES ASSUME NEW i \in 1..(k + 1), wire'[c][i].type = "snapshot", ShownBy(c, i, ep)
               PROVE  ep \in wire'[c][i].panes
    BY <1>3, <1>7 DEF StaysShown
  <2>1. CASE i \in 1..k
    <3>1. fleet[ep].state # "new"
      BY <1>6
    <3>2. wire'[c][i] = wire[c][i]
      BY <1>2, <2>1
    <3> QED BY <1>1, <1>5, <1>8, <2>1, <3>1, <3>2 DEF ViewFits, StaysShown
  <2>2. CASE i = k + 1
    BY <1>2, <1>8, <2>2
  <2> QED BY <1>7, <2>1, <2>2
<1>9. ASSUME ep \in Open' PROVE ShownFirst(c, ep)'
  <2>1. /\ \A i \in DOMAIN wire[c] :
              wire'[c][i].type = "event" /\ AsksOf(wire[c][i].seq, ep)' => ShownBy(c, i, ep)'
        /\ mem'[c].batch # None =>
             \A i \in DOMAIN mem'[c].batch : AsksOf(mem[c].batch[i], ep)' => ep \in mem'[c].view
    BY <1>1, <1>2, <1>9, QuestionsStill
  <2>2. ShownBy(c, k + 2, ep)'
    <3>1. CASE x.type = "snapshot" /\ ep \in x.panes
      BY <1>4, <3>1
    <3>2. CASE sub[c] # None /\ ep \in Open
      BY <1>k, <1>4, <3>2 DEF ViewFits, ShownFirst
    <3> QED BY <1>9, <3>1, <3>2
  <2>3. x.type # "snapshot" => ShownBy(c, k + 1, ep)'
    BY <1>k, <1>3, <1>7, <1>9 DEF ViewFits, ShownFirst
  <2>4. ASSUME NEW i \in 1..(k + 1), wire'[c][i].type = "event", AsksOf(wire[c][i].seq, ep)'
        PROVE  ShownBy(c, i, ep)'
    <3>1. CASE i = k + 1
      BY <1>2, <2>3, <2>4, <3>1
    <3> QED BY <1>1, <1>7, <2>1, <2>4, <3>1
  <2> QED BY <1>2, <1>7, <2>1, <2>2, <2>4 DEF ShownFirst
<1>10. fleet'[ep].state = "new" => ~ShownBy(c, k + 2, ep)'
  <2> SUFFICES ASSUME fleet'[ep].state = "new" PROVE ~ShownBy(c, k + 2, ep)'
    OBVIOUS
  <2>1. fleet[ep].state = "new"
    BY DEF FleetGoesOn
  <2>2. ~ShownBy(c, k + 1, ep)
    BY <1>6, <1>7, <2>1
  <2> QED BY <1>4, <2>2
<1> QED BY <1>2, <1>7, <1>8, <1>9, <1>10 DEF ViewFits

\* The connection is gone: what the runtime showed stays.
LEMMA ViewCut ==
  ASSUME IInv, FleetGoesOn, NEW c \in Clients, NEW ep \in Episodes, ViewFits(c, ep),
         wire'[c] = << >>, mem'[c].view = mem[c].view, mem'[c].batch = None, sub'[c] = None
  PROVE  ViewFits(c, ep)'
<1>1. DOMAIN << >> = {} /\ Len(<< >>) = 0
  OBVIOUS
<1>2. StaysShown(c, ep)' /\ ShownFirst(c, ep)'
  BY <1>1 DEF StaysShown, ShownFirst
<1>3. ASSUME fleet'[ep].state = "new" PROVE ~ShownBy(c, 0 + 1, ep)'
  <2>1. ep \notin mem[c].view
    BY <1>3 DEF FleetGoesOn, ViewFits, ShownBy
  <2>2. 1..((0 + 1) - 1) = {}
    OBVIOUS
  <2> QED BY <2>1, <2>2 DEF ShownBy
<1> QED BY <1>1, <1>2, <1>3 DEF ViewFits

\* The runtime reads the first message of its wire.
LEMMA ViewTaken ==
  ASSUME IInv, UNCHANGED <<fleet, hub, sub>>, NEW c \in Clients, NEW ep \in Episodes,
         ViewFits(c, ep), wire[c] # << >>, wire'[c] = Tail(wire[c]),
         mem'[c].view = IF Head(wire[c]).type = "snapshot" THEN Head(wire[c]).panes ELSE mem[c].view,
         \/ mem'[c].batch = mem[c].batch \/ mem'[c].batch = None
         \/ Head(wire[c]).type = "event" /\ mem[c].batch # None
            /\ mem'[c].batch = Append(mem[c].batch, Head(wire[c]).seq)
  PROVE  ViewFits(c, ep)'
<1>0. Len(wire[c]) \in Nat /\ wire[c] \in Seq(Messages)
  BY WireLength DEF IInv, Types
<1>k. PICK k \in Nat : Len(wire[c]) = k + 1
  <2>1. Len(wire[c]) - 1 \in Nat /\ Len(wire[c]) = (Len(wire[c]) - 1) + 1
    BY <1>0
  <2> QED BY <2>1
<1>1. /\ DOMAIN wire[c] = 1..(k + 1) /\ Head(wire[c]) = wire[c][1]
      /\ DOMAIN wire'[c] = 1..k /\ Len(wire'[c]) = k
      /\ \A i \in 1..k : wire'[c][i] = wire[c][i + 1] /\ i + 1 \in 1..(k + 1)
      /\ 1 \in 1..(k + 1) /\ k + 1 \in 1..(k + 1)
  BY <1>0, <1>k
<1>2. ep \in Open' <=> ep \in Open
  BY DEF Open
<1>3. \A n : AsksOf(n, ep)' <=> AsksOf(n, ep)
  BY DEF AsksOf, hub
<1>4. ShownBy(c, 1, ep) <=> ep \in mem[c].view
  <2>1. 1..(1 - 1) = {}
    OBVIOUS
  <2> QED BY <2>1 DEF ShownBy
<1>5. ep \in Open => (ep \in mem'[c].view <=> ep \in mem[c].view \/ ShownAt(c, 1, ep))
  <2>1. ep \in Open /\ wire[c][1].type = "snapshot" /\ ShownBy(c, 1, ep) => ep \in wire[c][1].panes
    BY <1>1 DEF ViewFits, StaysShown
  <2> QED BY <1>1, <1>4, <2>1 DEF ShownAt
<1>6. ep \in mem'[c].view => ep \in mem[c].view \/ ShownAt(c, 1, ep)
  BY <1>1 DEF ShownAt
<1>7. \A i \in 1..k : ShownAt(c, i, ep)' <=> ShownAt(c, i + 1, ep)
  BY <1>1 DEF ShownAt
<1>8. ASSUME NEW i \in 1..(k + 1)
      PROVE  /\ ShownBy(c, i, ep)' => ShownBy(c, i + 1, ep)
             /\ ep \in Open /\ ShownBy(c, i + 1, ep) => ShownBy(c, i, ep)'
  <2>1. \A j \in 1..(i - 1) : j \in 1..k /\ j + 1 \in 1..((i + 1) - 1)
    OBVIOUS
  <2>2. \A j \in 1..((i + 1) - 1) : (j = 1 \/ j - 1 \in 1..(i - 1)) /\ (j - 1) + 1 = j
    OBVIOUS
  <2>3. 1 \in 1..((i + 1) - 1)
    OBVIOUS
  <2>4. ASSUME ShownBy(c, i, ep)' PROVE ShownBy(c, i + 1, ep)
    BY <1>6, <1>7, <2>1, <2>3, <2>4 DEF ShownBy
  <2>5. ASSUME ep \in Open, ShownBy(c, i + 1, ep) PROVE ShownBy(c, i, ep)'
    <3>1. CASE ep \in mem[c].view \/ ShownAt(c, 1, ep)
      BY <1>5, <2>5, <3>1 DEF ShownBy
    <3>2. ASSUME NEW j \in 1..((i + 1) - 1), j # 1, ShownAt(c, j, ep) PROVE ShownBy(c, i, ep)'
      <4>1. j - 1 \in 1..(i - 1) /\ (j - 1) + 1 = j /\ j - 1 \in 1..k
        BY <2>1, <2>2, <3>2
      <4>2. ShownAt(c, j - 1, ep)'
        BY <1>7, <3>2, <4>1
      <4> QED BY <4>1, <4>2 DEF ShownBy
    <3> QED BY <2>5, <3>1, <3>2 DEF ShownBy
  <2> QED BY <2>4, <2>5
<1>9. ASSUME ep \in Open PROVE StaysShown(c, ep)' /\ ShownFirst(c, ep)'
  <2>1. StaysShown(c, ep) /\ ShownFirst(c, ep)
    BY <1>9 DEF ViewFits
  <2>2. StaysShown(c, ep)'
    <3> SUFFICES ASSUME NEW i \in 1..k, wire'[c][i].type = "snapshot", ShownBy(c, i, ep)'
                 PROVE  ep \in wire'[c][i].panes
      BY <1>1 DEF StaysShown
    <3>1. ShownBy(c, i + 1, ep) /\ i + 1 \in DOMAIN wire[c] /\ wire'[c][i] = wire[c][i + 1]
      BY <1>1, <1>8
    <3> QED BY <2>1, <3>1 DEF StaysShown
  <2>3. ASSUME NEW i \in 1..k, wire'[c][i].type = "event", AsksOf(wire[c][i].seq, ep)'
        PROVE  ShownBy(c, i, ep)'
    <3>1. i + 1 \in DOMAIN wire[c] /\ wire'[c][i] = wire[c][i + 1]
      BY <1>1
    <3>2. AsksOf(wire[c][i + 1].seq, ep)
      BY <2>3, <3>1 DEF AsksOf, hub
    <3>3. ShownBy(c, i + 1, ep)
      BY <2>1, <2>3, <3>1, <3>2 DEF ShownFirst
    <3> QED BY <1>8, <1>9, <3>3
  <2>4. sub'[c] # None => ShownBy(c, k + 1, ep)'
    <3>1. sub[c] # None => ShownBy(c, (k + 1) + 1, ep)
      BY <1>k, <2>1 DEF ShownFirst
    <3> QED BY <1>1, <1>8, <1>9, <3>1
  <2>5. ASSUME mem'[c].batch # None, NEW i \in DOMAIN mem'[c].batch, AsksOf(mem[c].batch[i], ep)'
        PROVE  ep \in mem'[c].view
    <3>0. AsksOf(mem'[c].batch[i], ep)
      BY <2>5 DEF AsksOf, hub
    <3>1. ASSUME mem[c].batch # None, i \in DOMAIN mem[c].batch, mem'[c].batch[i] = mem[c].batch[i]
          PROVE  ep \in mem'[c].view
      <4>1. ep \in mem[c].view
        BY <2>1, <3>0, <3>1 DEF ShownFirst
      <4> QED BY <1>5, <1>9, <4>1
    <3>2. CASE /\ Head(wire[c]).type = "event" /\ mem[c].batch # None
               /\ mem'[c].batch = Append(mem[c].batch, Head(wire[c]).seq)
      <4>1. mem[c].batch \in Seq(1..MaxSeq)
        BY <3>2 DEF IInv, Types, Batches
      <4>2. CASE i \in DOMAIN mem[c].batch
        <5>1. mem'[c].batch[i] = mem[c].batch[i]
          BY <3>2, <4>1, <4>2
        <5> QED BY <3>1, <3>2, <4>2, <5>1
      <4>3. CASE i \notin DOMAIN mem[c].batch
        <5>1. mem'[c].batch[i] = Head(wire[c]).seq
          BY <2>5, <3>2, <4>1, <4>3
        <5>2. AsksOf(wire[c][1].seq, ep) /\ wire[c][1].type = "event"
          BY <1>1, <3>0, <3>2, <5>1
        <5>3. ShownBy(c, 1, ep)
          BY <1>1, <2>1, <5>2 DEF ShownFirst
        <5> QED BY <1>4, <1>5, <1>9, <5>3
      <4> QED BY <4>2, <4>3
    <3> QED BY <2>5, <3>1, <3>2
  <2> QED BY <1>1, <2>2, <2>3, <2>4, <2>5 DEF ShownFirst
<1>10. fleet'[ep].state = "new" => ~ShownBy(c, k + 1, ep)'
  <2>1. ASSUME fleet[ep].state = "new" PROVE ~ShownBy(c, (k + 1) + 1, ep)
    BY <1>k, <2>1 DEF ViewFits
  <2> QED BY <1>1, <1>8, <2>1
<1> QED BY <1>1, <1>2, <1>9, <1>10 DEF ViewFits

\* A connection starts with the list of what is open.
LEMMA ViewOfConnection ==
  ASSUME IInv, UNCHANGED <<fleet, hub>>, NEW c \in Clients, NEW ep \in Episodes, ViewFits(c, ep),
         wire'[c] = <<Snapshot(Open)>>, mem'[c].view = mem[c].view, mem'[c].batch = << >>,
         sub'[c] = None
  PROVE  ViewFits(c, ep)'
<1>1. /\ DOMAIN wire'[c] = {1} /\ Len(wire'[c]) = 1 /\ wire'[c][1] = Snapshot(Open)
      /\ DOMAIN << >> = {}
  <2>1. DOMAIN <<Snapshot(Open)>> = {1} /\ Len(<<Snapshot(Open)>>) = 1
        /\ <<Snapshot(Open)>>[1] = Snapshot(Open) /\ DOMAIN << >> = {}
    OBVIOUS
  <2> QED BY <2>1
<1>2. Snapshot(Open).type = "snapshot" /\ Snapshot(Open).panes = Open
  BY DEF Snapshot
<1>3. Open' = Open
  BY DEF Open
<1>4. ASSUME ep \in Open PROVE StaysShown(c, ep)' /\ ShownFirst(c, ep)'
  BY <1>1, <1>2, <1>4 DEF StaysShown, ShownFirst
<1>5. ASSUME fleet[ep].state = "new" PROVE ~ShownBy(c, 1 + 1, ep)'
  <2>1. ep \notin mem[c].view
    BY <1>5 DEF ViewFits, ShownBy
  <2>2. ep \notin Open
    BY <1>5 DEF Open
  <2>3. 1..((1 + 1) - 1) = {1}
    OBVIOUS
  <2>4. ~ShownAt(c, 1, ep)'
    BY <1>1, <1>2, <2>2 DEF ShownAt
  <2> QED BY <2>1, <2>3, <2>4 DEF ShownBy
<1> QED BY <1>1, <1>3, <1>4, <1>5 DEF ViewFits

\* No old question becomes open.
LEMMA FleetGrows ==
  ASSUME IInv, FleetGoesOn, epoch' = epoch, Len(log) <= Len(log'),
         \A n \in 1..Len(log) : log'[n] = log[n]
  PROVE  Grows
<1>1. ASSUME NEW n \in 1..Len(log), Asking(n)' PROVE Asking(n)
  <2>1. log'[n] = log[n] /\ log[n].ep \in Episodes /\ log'[n].kind = "blocked"
    BY <1>1, LogLength DEF Asking, IInv
  <2>2. fleet[log[n].ep].state # "new"
    BY LogLength DEF IInv, LogIsTrue
  <2>3. fleet'[log[n].ep].state = "open"
    BY <1>1, <2>1 DEF Asking, Open
  <2> QED BY <2>1, <2>2, <2>3 DEF FleetGoesOn, Asking, Open
<1> QED BY <1>1 DEF Grows

-----------------------------------------------------------------------------
(* The questions a runtime shows.                                          *)

\* The last question of each open episode.
LastOpen == {n \in LastAsked : Asking(n)}

\* The runtime shows the ones it handled.
ReadsHandled(c) ==
  \A n \in LastOpen :
    Here(c) /\ n <= disk[c].cursor[2] => mem[c].read[log[n].ep] = log[n].q

\* A replay up to m repeats the question at n, or nothing as old as it.
Repeats(c, n, m) ==
  \/ n \in Batched(c, m)
  \/ /\ Here(c) /\ n <= disk[c].cursor[2]
     /\ \A p \in Batched(c, m) : n < p

ReplayIsWhole(c) ==
  mem[c].batch # None =>
    \A m \in 0..MaxSeq, gap \in BOOLEAN :
      Sync(m, gap) \in Coming(wire[c], Waiting(c)) =>
        \A n \in LastOpen : n <= m => Repeats(c, n, m)

PromptsFit(c) == ReadsHandled(c) /\ ReplayIsWhole(c)
PInv == \A c \in Clients : PromptsFit(c)

LEMMA SyncUpTo ==
  ASSUME IInv, NEW c \in Clients, NEW m \in 0..MaxSeq, NEW gap \in BOOLEAN,
         Sync(m, gap) \in Coming(wire[c], Waiting(c))
  PROVE  m \in Nat /\ sub[c] # None /\ sub[c].upto \in Nat /\ m <= sub[c].upto /\ m <= Len(log)
<1>1. sub[c] # None /\ AfterSubscription(c)
  BY DEF IInv, Lane, BeforeSubscription
<1>2. Key(Sync(m, gap)) = 2 * m + 1 /\ m \in Nat
  BY ToldMessages
<1>3. Key(Sync(m, gap)) <= 2 * sub[c].upto + 1
  BY <1>1, ComingUpTo DEF IInv
<1>4. sub[c].upto \in Nat /\ sub[c].upto <= Len(log) /\ Len(log) \in Nat
  BY <1>1, SubType DEF AfterSubscription, Fed, IInv
<1>5. m <= sub[c].upto
  BY <1>2, <1>3, <1>4
<1> QED BY <1>1, <1>2, <1>4, <1>5

\* The log grows, and no old question becomes the last one.
LEMMA LastOpenStays ==
  ASSUME IInv, Grows, NEW n \in LastOpen', n <= Len(log)
  PROVE  n \in LastOpen /\ log'[n] = log[n]
<1>1. /\ Len(log) \in Nat /\ Len(log') >= Len(log) /\ n \in 1..Len(log')
      /\ \A k \in 1..Len(log) : log'[k] = log[k]
  BY LogLength DEF Grows, LastOpen, LastAsked, IInv
<1>2. n \in 1..Len(log)
  <2>1. n \in Nat /\ n >= 1
    BY <1>1
  <2> QED BY <1>1, <2>1
<1>3. Asking(n)
  BY <1>2 DEF LastOpen, Grows
<1>4. Len(log') \in Nat \/ \A k \in 1..Len(log) : k \in 1..Len(log')
  BY <1>1
<1>5. n \in LastAsked
  <2>1. Blocked(n)
    BY <1>3 DEF Asking, Blocked
  <2>2. ASSUME NEW k \in 1..Len(log), n < k, Blocked(k) PROVE log[k].ep # log[n].ep
    <3>1. Blocked(k)' /\ k \in 1..Len(log')
      BY <1>1, <2>2 DEF Blocked
    <3> QED BY <1>1, <1>2, <2>2, <3>1 DEF LastOpen, LastAsked
  <2> QED BY <1>2, <2>1, <2>2 DEF LastAsked
<1> QED BY <1>1, <1>2, <1>3, <1>5 DEF LastOpen

\* A step that leaves what client c handled, and the replay it is sent.
LEMMA PromptsKept ==
  ASSUME IInv, Grows, NEW c \in Clients, PromptsFit(c),
         mem'[c].read = mem[c].read, disk'[c] = disk[c],
         \A m \in 0..MaxSeq, gap \in BOOLEAN :
           mem'[c].batch # None /\ Sync(m, gap) \in Coming(wire[c], Waiting(c))' =>
             /\ mem[c].batch # None
             /\ Sync(m, gap) \in Coming(wire[c], Waiting(c))
             /\ Batched(c, m)' = Batched(c, m)
  PROVE  PromptsFit(c)'
<1>1. Here(c)' <=> Here(c)
  BY DEF Here, Grows
<1>2. Here(c) => disk[c].cursor[2] \in Nat /\ disk[c].cursor[2] <= Len(log)
  BY DEF Here, IInv, CursorsAreOfLogs, Types, Cursors
<1>3. Len(log) \in Nat /\ \A n \in LastOpen' : n \in Nat
  BY LogLength DEF IInv, LastOpen, LastAsked
<1>4. ASSUME NEW n \in LastOpen', Here(c), n <= disk[c].cursor[2]
      PROVE  mem'[c].read[log'[n].ep] = log'[n].q
  <2>1. n <= Len(log)
    BY <1>2, <1>3, <1>4
  <2> QED BY <1>4, <2>1, LastOpenStays DEF PromptsFit, ReadsHandled
<1>5. ASSUME mem'[c].batch # None, NEW m \in 0..MaxSeq, NEW gap \in BOOLEAN,
             Sync(m, gap) \in Coming(wire[c], Waiting(c))', NEW n \in LastOpen', n <= m
      PROVE  Repeats(c, n, m)'
  <2>1. /\ mem[c].batch # None
        /\ Sync(m, gap) \in Coming(wire[c], Waiting(c))
        /\ Batched(c, m)' = Batched(c, m)
    BY <1>5
  <2>2. m \in Nat /\ m <= Len(log)
    BY <2>1, SyncUpTo
  <2>3. n \in LastOpen
    BY <1>3, <1>5, <2>2, LastOpenStays
  <2>4. Repeats(c, n, m)
    BY <1>5, <2>1, <2>3 DEF PromptsFit, ReplayIsWhole
  <2> QED BY <1>1, <2>1, <2>4 DEF Repeats
<1> QED BY <1>1, <1>4, <1>5 DEF PromptsFit, ReadsHandled, ReplayIsWhole

\* ... or none of it.
LEMMA PromptsStay ==
  ASSUME IInv, Grows, NEW c \in Clients, PromptsFit(c),
         mem'[c].read = mem[c].read, disk'[c] = disk[c],
         \/ mem'[c].batch = None
         \/ Coming(wire[c], Waiting(c))' = {}
         \/ mem'[c].batch = mem[c].batch
            /\ Coming(wire[c], Waiting(c))' = Coming(wire[c], Waiting(c))
  PROVE  PromptsFit(c)'
<1>1. ASSUME NEW m \in 0..MaxSeq, NEW gap \in BOOLEAN,
             mem'[c].batch # None, Sync(m, gap) \in Coming(wire[c], Waiting(c))'
      PROVE  /\ mem[c].batch # None
             /\ Sync(m, gap) \in Coming(wire[c], Waiting(c))
             /\ Batched(c, m)' = Batched(c, m)
  BY <1>1 DEF Batched
<1> QED BY <1>1, PromptsKept

\* What the agents do.
LEMMA FleetPrompts ==
  ASSUME IInv, PInv, FleetGoesOn, UNCHANGED <<linkButWire, runtime>>,
         epoch' = epoch, Len(log) <= Len(log'), \A n \in 1..Len(log) : log'[n] = log[n],
         \A c \in Clients :
           \/ wire'[c] = wire[c]
           \/ \E panes \in SUBSET Episodes : wire'[c] = Append(wire[c], Snapshot(panes))
  PROVE  PInv'
<1>1. Grows
  BY FleetGrows
<1> SUFFICES ASSUME NEW c \in Clients PROVE PromptsFit(c)'
  BY DEF PInv
<1>2. Waiting(c)' = Waiting(c) /\ mem' = mem /\ disk' = disk
  BY DEF Waiting, PumpWaits, linkButWire, runtime
<1>3. Coming(wire[c], Waiting(c))' = Coming(wire[c], Waiting(c))
  BY <1>2, ShownComing
<1> QED BY <1>1, <1>2, <1>3, PromptsStay DEF PInv

\* A step of client c alone leaves the others' prompts.
LEMMA PromptsOfOne ==
  ASSUME IInv, PInv, NEW c \in Clients, UNCHANGED <<fleet, epoch, log>>,
         pump' = pump \/ pump' = Without(pump, c),
         \A d \in Clients \ {c} :
           /\ sub'[d] = sub[d] /\ wire'[d] = wire[d] /\ mem'[d] = mem[d] /\ disk'[d] = disk[d],
         PromptsFit(c)'
  PROVE  PInv'
<1>1. Grows
  BY HubStill
<1>2. \A d \in Clients \ {c} : /\ PumpWaits(d)' <=> PumpWaits(d)
                               /\ PumpWaits(d) => pump'.seq = pump.seq
  <2>1. CASE pump' = pump
    BY <2>1 DEF PumpWaits
  <2>2. CASE pump' = Without(pump, c) /\ (pump = None \/ pump.to \subseteq {c})
    <3>1. pump' = None
      BY <2>2 DEF Without
    <3> QED BY <2>2, <3>1 DEF PumpWaits
  <2>3. CASE pump' = Without(pump, c) /\ ~(pump = None \/ pump.to \subseteq {c})
    <3>1. pump' = [pump EXCEPT !.to = pump.to \ {c}]
      BY <2>3 DEF Without
    <3>2. pump' \in Pumps /\ pump'.seq = pump.seq /\ pump'.to = pump.to \ {c}
      BY <2>3, <3>1 DEF IInv, Types, Pumps
    <3>3. pump' # None
      BY <3>2, NoneAssumption
    <3> QED BY <2>3, <3>2, <3>3 DEF PumpWaits
  <2> QED BY <2>1, <2>2, <2>3
<1>3. ASSUME NEW d \in Clients \ {c} PROVE PromptsFit(d)'
  <2>1. Waiting(d)' = Waiting(d)
    BY <1>2 DEF Waiting
  <2>2. Coming(wire[d], Waiting(d))' = Coming(wire[d], Waiting(d))
    BY <2>1
  <2> QED BY <1>1, <2>2, PromptsStay DEF PInv
<1> QED BY <1>3 DEF PInv

-----------------------------------------------------------------------------
(* Every step leaves what a runtime shows in order.                         *)

\* Client d is left alone.
Aside(d) ==
  /\ wire'[d] = wire[d] /\ mem'[d] = mem[d] /\ conn'[d] = conn[d] /\ listing'[d] = listing[d]
  /\ sub'[d] # None => sub[d] # None /\ sub'[d].todo = sub[d].todo

LEMMA ViewAside ==
  ASSUME IInv, Grows, fleet' = fleet, VInv, NEW d \in Clients, Aside(d)
  PROVE  Registered(d)' /\ \A ep \in Episodes : ViewFits(d, ep)'
<1>1. FleetGoesOn /\ Open' = Open
  BY DEF FleetGoesOn, Open
<1>2. Registered(d)'
  BY DEF VInv, Registered, Aside
<1>3. ASSUME NEW ep \in Episodes PROVE ViewFits(d, ep)'
  <2>1. ViewFits(d, ep)
    BY DEF VInv
  <2>2. /\ wire'[d] = wire[d] /\ mem'[d].view = mem[d].view /\ mem'[d].batch = mem[d].batch
        /\ sub'[d] # None => sub[d] # None /\ sub'[d].todo = sub[d].todo
    BY DEF Aside
  <2> QED BY <1>1, <2>1, <2>2, ViewKept
<1> QED BY <1>2, <1>3

\* A step of client c alone, which emits nothing.
LEMMA ViewsOfOne ==
  ASSUME IInv, UNCHANGED <<fleet, epoch, log>>, VInv, NEW c \in Clients,
         \A d \in Clients \ {c} : Aside(d),
         Registered(c)', \A ep \in Episodes : ViewFits(c, ep)'
  PROVE  VInv'
  BY HubStill, ViewAside DEF VInv

\* The agents' steps: the list of what is open goes to every registered client.
LEMMA FleetViews ==
  ASSUME IInv, Types', VInv, PInv, FleetGoesOn, UNCHANGED <<linkButWire, runtime>>,
         epoch' = epoch, Len(log) <= Len(log'), \A n \in 1..Len(log) : log'[n] = log[n],
         \/ wire' = wire /\ Open' = Open
         \/ \A c \in Clients : wire'[c] = IF conn[c] = "up" THEN Append(wire[c], Snapshot(Open'))
                                          ELSE wire[c]
  PROVE  VInv' /\ PInv'
<1>2. Grows
  BY FleetGrows
<1>p. PInv'
  <2>1. Open' \in SUBSET Episodes
    BY DEF Open
  <2>2. \A c \in Clients :
          \/ wire'[c] = wire[c]
          \/ \E panes \in SUBSET Episodes : wire'[c] = Append(wire[c], Snapshot(panes))
    BY <2>1
  <2> QED BY <2>2, FleetPrompts
<1> SUFFICES ASSUME NEW c \in Clients
             PROVE  Registered(c)' /\ \A ep \in Episodes : ViewFits(c, ep)'
  BY <1>p DEF VInv
<1>3. Registered(c) /\ \A ep \in Episodes : ViewFits(c, ep)
  BY DEF VInv
<1>4. /\ mem'[c] = mem[c] /\ sub'[c] = sub[c] /\ conn'[c] = conn[c] /\ listing'[c] = listing[c]
  BY DEF linkButWire, runtime
<1>5. Registered(c)'
  BY <1>3, <1>4 DEF Registered
<1>6. ASSUME NEW ep \in Episodes PROVE ViewFits(c, ep)'
  <2>1. CASE wire'[c] = wire[c] /\ (Open' = Open \/ conn[c] # "up")
    <3>1. sub'[c] # None /\ ep \in Open' => sub[c] # None /\ ep \in Open
      BY <1>3, <1>4, <2>1 DEF Registered
    <3> QED BY <1>2, <1>3, <1>4, <2>1, <3>1, ViewKept
  <2>2. CASE wire'[c] = Append(wire[c], Snapshot(Open'))
    <3>1. Open' \in SUBSET Episodes
      BY DEF Open
    <3>2. Snapshot(Open') \in Messages /\ Snapshot(Open').type = "snapshot" /\ Snapshot(Open').panes = Open'
      BY <3>1, ToldMessages DEF Snapshot
    <3>3. PICK x \in Messages : x = Snapshot(Open')
      BY <3>2
    <3>4. x.type = "snapshot" /\ (ep \in Open' => ep \in x.panes)
          /\ (fleet'[ep].state = "new" => ep \notin x.panes)
      BY <3>2, <3>3 DEF Open
    <3> QED BY <1>2, <1>3, <1>4, <2>2, <3>3, <3>4, ViewPut
  <2> QED BY <2>1, <2>2
<1> QED BY <1>5, <1>6

LEMMA BlocksViews ==
  ASSUME IInv, Types', VInv, PInv, NEW ep \in Episodes, Blocks(ep)
  PROVE  VInv' /\ PInv'
<1>1. /\ fleet[ep].state = "new"
      /\ fleet' = [fleet EXCEPT ![ep] = [state |-> "open", asks |-> 1, done |-> 0]]
      /\ UNCHANGED <<hub, linkButWire, runtime>>
      /\ \A c \in Clients : wire'[c] = IF conn[c] = "up" THEN Append(wire[c], Snapshot(Open \cup {ep}))
                                       ELSE wire[c]
  BY DEF Blocks, Broadcast
<1>2. \A x \in Episodes : (x # ep => fleet'[x] = fleet[x]) /\ (x = ep => fleet'[x].state = "open")
  BY <1>1 DEF IInv, Types
<1>3. Open' = Open \cup {ep}
  BY <1>2 DEF Open
<1>4. FleetGoesOn
  BY <1>1, <1>2 DEF FleetGoesOn
<1>5. log' = log /\ epoch' = epoch /\ Len(log) \in Nat
  BY <1>1, LogLength DEF hub, IInv
<1>6. \A c \in Clients : wire'[c] = IF conn[c] = "up" THEN Append(wire[c], Snapshot(Open'))
                                    ELSE wire[c]
  BY <1>1, <1>3
<1>7. epoch' = epoch /\ Len(log) <= Len(log') /\ \A n \in 1..Len(log) : log'[n] = log[n]
  BY <1>5
<1> QED BY <1>1, <1>4, <1>6, <1>7, FleetViews

LEMMA AsksNextViews ==
  ASSUME IInv, Types', VInv, PInv, NEW ep \in Episodes, AsksNext(ep)
  PROVE  VInv' /\ PInv'
<1>1. /\ fleet' = [fleet EXCEPT ![ep] = [fleet[ep] EXCEPT !.asks = fleet[ep].asks + 1]]
      /\ UNCHANGED <<hub, link, runtime>>
  BY DEF AsksNext
<1>2. \A x \in Episodes : fleet'[x].state = fleet[x].state
  <2>1. fleet \in [Episodes -> [state : {"new", "open", "over"},
                                asks : 0..MaxQuestions, done : 0..MaxQuestions]]
    BY DEF IInv, Types
  <2> QED BY <1>1, <2>1
<1>3. Open' = Open /\ FleetGoesOn
  BY <1>2 DEF FleetGoesOn, Open
<1>5. log' = log /\ epoch' = epoch /\ Len(log) \in Nat
  BY <1>1, LogLength DEF hub, IInv
<1> QED BY <1>1, <1>3, <1>5, FleetViews DEF link, linkButWire

\* The frame an open episode emits.
LEMMA Emitted ==
  ASSUME IInv, NEW ep \in Open, NEW kind \in Kinds, Emit(<<Frame(kind, ep, fleet[ep].asks)>>),
         UNCHANGED linkButWire
  PROVE  epoch' = epoch /\ Len(log) <= Len(log') /\ \A n \in 1..Len(log) : log'[n] = log[n]
<1> DEFINE f == Frame(kind, ep, fleet[ep].asks)
<1>1. f \in Frames /\ Emit(<<f>>) /\ Types /\ PumpInOrder /\ Len(log) \in Nat
  BY FrameOf, LogLength DEF IInv
<1> HIDE DEF f
<1> QED BY <1>1, EmitKeeps, FedAll DEF linkButWire

LEMMA AnnounceViews ==
  ASSUME IInv, Types', VInv, PInv, NEW ep \in Episodes, Announce(ep)
  PROVE  VInv' /\ PInv'
<1>1. /\ ep \in Open /\ "blocked" \in Kinds
      /\ Emit(<<Frame("blocked", ep, fleet[ep].asks)>>)
      /\ UNCHANGED <<fleet, linkButWire, runtime>> /\ wire' = wire
  BY DEF Announce, Kinds, link, linkButWire
<1>2. Open' = Open /\ FleetGoesOn
  BY <1>1 DEF Open, FleetGoesOn
<1> QED BY <1>1, <1>2, Emitted, FleetViews

LEMMA AnsweredViews ==
  ASSUME IInv, Types', VInv, PInv, NEW ep \in Episodes, Answered(ep)
  PROVE  VInv' /\ PInv'
<1>1. /\ ep \in Open /\ "answered" \in Kinds
      /\ fleet' = [fleet EXCEPT ![ep] = [fleet[ep] EXCEPT !.done = fleet[ep].asks]]
      /\ Emit(<<Frame("answered", ep, fleet[ep].asks)>>)
      /\ UNCHANGED <<linkButWire, runtime>> /\ wire' = wire
  BY DEF Answered, Kinds, link, linkButWire
<1>2. \A x \in Episodes : fleet'[x].state = fleet[x].state
  <2>1. fleet \in [Episodes -> [state : {"new", "open", "over"},
                                asks : 0..MaxQuestions, done : 0..MaxQuestions]]
    BY DEF IInv, Types
  <2> QED BY <1>1, <2>1
<1>3. Open' = Open /\ FleetGoesOn
  BY <1>2 DEF Open, FleetGoesOn
<1> QED BY <1>1, <1>3, Emitted, FleetViews

LEMMA UnblocksViews ==
  ASSUME IInv, Types', VInv, PInv, NEW ep \in Episodes, Unblocks(ep)
  PROVE  VInv' /\ PInv'
<1>1. /\ ep \in Open /\ "unblocked" \in Kinds
      /\ fleet' = [fleet EXCEPT ![ep] = [fleet[ep] EXCEPT !.state = "over"]]
      /\ UNCHANGED <<linkButWire, runtime>>
      /\ \A c \in Clients : wire'[c] = IF conn[c] = "up" THEN Append(wire[c], Snapshot(Open \ {ep}))
                                       ELSE wire[c]
      /\ \/ UNCHANGED hub
         \/ Emit(<<Frame("unblocked", ep, fleet[ep].asks)>>)
  BY DEF Unblocks, Kinds, Broadcast
<1>2. \A x \in Episodes : /\ x # ep => fleet'[x].state = fleet[x].state
                          /\ x = ep => fleet'[x].state = "over"
  <2>1. fleet \in [Episodes -> [state : {"new", "open", "over"},
                                asks : 0..MaxQuestions, done : 0..MaxQuestions]]
    BY DEF IInv, Types
  <2> QED BY <1>1, <2>1
<1>3. Open' = Open \ {ep} /\ FleetGoesOn
  BY <1>2 DEF Open, FleetGoesOn
<1>4. epoch' = epoch /\ Len(log) <= Len(log') /\ \A n \in 1..Len(log) : log'[n] = log[n]
  <2>1. UNCHANGED hub => log' = log /\ epoch' = epoch /\ Len(log) \in Nat
    BY LogLength DEF hub, IInv
  <2> QED BY <1>1, <2>1, Emitted
<1> QED BY <1>1, <1>3, <1>4, FleetViews

LEMMA RegisterViews ==
  ASSUME IInv, VInv, NEW c \in Clients, Register(c)
  PROVE  VInv'
<1>1. /\ conn' = [conn EXCEPT ![c] = "up"]
      /\ UNCHANGED <<fleet, epoch, log, sub, listing, wire, mem>>
  BY DEF Register, hub, runtime
<1>2. (\A d \in Clients \ {c} : Aside(d)) /\ conn'[c] = "up"
  BY <1>1 DEF Aside, IInv, Types
<1>3. Registered(c)'
  BY <1>1, <1>2 DEF Registered, VInv
<1>4. Grows /\ FleetGoesOn /\ Open' = Open
  BY <1>1, HubStill DEF FleetGoesOn, Open
<1>5. \A ep \in Episodes : ViewFits(c, ep)'
  BY <1>1, <1>4, ViewKept DEF VInv
<1> QED BY <1>1, <1>2, <1>3, <1>5, ViewsOfOne

LEMMA ListPanesViews ==
  ASSUME IInv, VInv, NEW c \in Clients, ListPanes(c), ~ListMayFail
  PROVE  VInv'
<1>1. /\ conn[c] = "up" /\ listing' = [listing EXCEPT ![c] = [ok |-> TRUE, panes |-> Open]]
      /\ UNCHANGED <<fleet, epoch, log, sub, conn, wire, mem>>
  BY DEF ListPanes, Serving, hub, runtime
<1>2. (\A d \in Clients \ {c} : Aside(d)) /\ listing'[c] = [ok |-> TRUE, panes |-> Open]
  BY <1>1 DEF Aside, IInv, Types
<1>3. Registered(c)'
  BY <1>1, <1>2 DEF Registered, VInv
<1>4. Grows /\ FleetGoesOn /\ Open' = Open
  BY <1>1, HubStill DEF FleetGoesOn, Open
<1>5. \A ep \in Episodes : ViewFits(c, ep)'
  BY <1>1, <1>4, ViewKept DEF VInv
<1> QED BY <1>1, <1>2, <1>3, <1>5, ViewsOfOne

\* An event or a sync goes onto the wire of a client that subscribed.
LEMMA SentViews ==
  ASSUME IInv, Types', VInv, UNCHANGED <<fleet, epoch, log, conn, listing, mem>>,
         NEW c \in Clients, NEW x \in Messages, x.type # "snapshot", sub[c] # None,
         wire' = [wire EXCEPT ![c] = Append(wire[c], x)],
         \A d \in Clients \ {c} : sub'[d] = sub[d],
         \A i \in DOMAIN sub'[c].todo : Told(sub'[c].todo[i])
  PROVE  VInv'
<1>1. (\A d \in Clients \ {c} : Aside(d)) /\ wire'[c] = Append(wire[c], x)
  BY DEF Aside, IInv, Types
<1>2. Registered(c)'
  BY DEF Registered, VInv
<1>3. Grows /\ FleetGoesOn /\ Open' = Open
  BY HubStill DEF FleetGoesOn, Open
<1>4. \A ep \in Episodes : ViewFits(c, ep)'
  BY <1>1, <1>3, ViewPut DEF VInv
<1> QED BY <1>1, <1>2, <1>4, ViewsOfOne

LEMMA PumpSendViews ==
  ASSUME IInv, Types', VInv, NEW c \in Clients, PumpSend(c)
  PROVE  VInv'
<1>1. /\ pump # None /\ c \in pump.to
      /\ wire' = [wire EXCEPT ![c] = Append(wire[c], Event(pump.seq))]
      /\ UNCHANGED <<fleet, epoch, log, sub, conn, listing, mem>>
  BY DEF PumpSend, PumpWaits, hub, runtime
<1>2. sub[c] # None /\ pump.seq \in 1..MaxSeq
  BY <1>1 DEF IInv, PumpInOrder, Types, Pumps
<1>3. PICK x \in Messages : x = Event(pump.seq) /\ x.type # "snapshot"
  BY <1>2, ToldMessages
<1>4. \A i \in DOMAIN sub'[c].todo : Told(sub'[c].todo[i])
  BY <1>1, <1>2 DEF VInv, Registered
<1> QED BY <1>1, <1>2, <1>3, <1>4, SentViews

LEMMA SendReplayViews ==
  ASSUME IInv, Types', VInv, NEW c \in Clients, SendReplay(c)
  PROVE  VInv'
<1>1. /\ sub[c] # None /\ ~PumpWaits(c) /\ sub[c].todo # << >>
      /\ wire' = [wire EXCEPT ![c] = Append(wire[c], Head(sub[c].todo))]
      /\ UNCHANGED <<fleet, epoch, log, conn, listing, mem>>
      /\ \A d \in Clients \ {c} : sub'[d] = sub[d]
      /\ sub' = [sub EXCEPT ![c] = [sub[c] EXCEPT !.todo = Tail(sub[c].todo)]]
  BY DEF SendReplay, CatchingUp, Subscribed, hub, runtime, IInv, Types
<1>2. sub[c].todo \in Seq(Messages) /\ \A i \in DOMAIN sub[c].todo : Told(sub[c].todo[i])
  BY <1>1, SubType DEF VInv, Registered, IInv
<1>3. Head(sub[c].todo) \in Messages /\ Head(sub[c].todo).type # "snapshot"
  BY <1>1, <1>2 DEF Told
<1>4. sub'[c].todo = Tail(sub[c].todo)
  BY <1>1 DEF IInv, Types, Subs
<1>5. \A i \in DOMAIN sub'[c].todo : Told(sub'[c].todo[i])
  BY <1>1, <1>2, <1>4
<1>6. PICK x \in Messages : x = Head(sub[c].todo) /\ x.type # "snapshot"
  BY <1>3
<1> QED BY <1>1, <1>5, <1>6, SentViews

\* More of the log is handed out to client c.
HandsOut(c) ==
  /\ sub[c] # None /\ sub'[c] # None
  /\ Waiting(c) = << >>
  /\ \A i \in DOMAIN sub'[c].todo : Told(sub'[c].todo[i])
  /\ \A i \in DOMAIN Waiting(c)' : \E k \in 1..Len(log) : k > sub[c].upto /\ Waiting(c)'[i] = Event(k)

LEMMA PumpTakeHands ==
  ASSUME IInv, PumpTake, NEW c \in Clients
  PROVE  \/ sub'[c] = sub[c] /\ Waiting(c)' = Waiting(c)
         \/ HandsOut(c)
<1> DEFINE n == Head(queue)
           targets == PumpTargets(n)
<1>1. /\ pump = None
      /\ sub' = [d \in Clients |-> IF d \in targets THEN [sub[d] EXCEPT !.upto = n] ELSE sub[d]]
      /\ pump' = IF targets = {} THEN None ELSE [seq |-> n, to |-> targets]
      /\ queue # << >>
  BY DEF PumpTake
<1>2. n \in 1..Len(log) /\ n \in 0..MaxSeq
  <2>1. queue \in Seq(1..MaxSeq) /\ queue # << >>
    BY <1>1 DEF IInv, Types
  <2>2. n = queue[1] /\ 1 \in DOMAIN queue /\ n \in 1..MaxSeq
    BY <2>1
  <2>3. n <= Len(log) /\ Len(log) \in Nat
    BY <2>2, LogLength DEF IInv, PumpInOrder
  <2> QED BY <2>2, <2>3
<1>3. c \in targets <=> sub[c] # None /\ sub[c].active /\ n > sub[c].upto
  BY DEF PumpTargets, Subscribed
<1> HIDE DEF n, targets
<1>4. CASE c \notin targets
  <2>1. sub'[c] = sub[c] /\ ~PumpWaits(c) /\ ~PumpWaits(c)'
    BY <1>1, <1>4 DEF PumpWaits
  <2> QED BY <2>1 DEF Waiting
<1>5. CASE c \in targets
  <2>1. /\ sub[c] # None /\ sub[c] \in Subs /\ sub[c].todo = << >> /\ n > sub[c].upto
    BY <1>3, <1>5, SubType, FedAll DEF Fed, IInv
  <2>2. sub'[c] = [sub[c] EXCEPT !.upto = n]
    BY <1>1, <1>5
  <2>3. sub'[c] \in Subs /\ sub'[c].todo = << >>
    BY <1>2, <2>1, <2>2 DEF Subs
  <2>4. sub'[c] # None /\ DOMAIN << >> = {}
    BY <2>3, NoneAssumption
  <2>5. pump' = [seq |-> n, to |-> targets]
    BY <1>1, <1>5
  <2>6. Waiting(c) = << >> /\ (Waiting(c)' = << >> \/ Waiting(c)' = <<Event(n)>>)
    BY <1>1, <2>1, <2>3, <2>4, <2>5 DEF Waiting, PumpWaits
  <2>7. \A i \in DOMAIN Waiting(c)' : Waiting(c)'[i] = Event(n)
    BY <2>4, <2>6
  <2> QED BY <1>2, <2>1, <2>3, <2>4, <2>6, <2>7 DEF HandsOut
<1> QED BY <1>4, <1>5

LEMMA CatchUpHands ==
  ASSUME IInv, NEW c \in Clients, CatchUp(c)
  PROVE  HandsOut(c)
<1> DEFINE pending == Pending(c)
<1>1. /\ sub[c] # None /\ ~sub[c].active /\ sub[c].todo = << >> /\ pump' = pump
      /\ sub' = [sub EXCEPT ![c] =
                   IF pending = {} THEN [sub[c] EXCEPT !.active = TRUE]
                   ELSE [sub[c] EXCEPT !.todo = Events(pending), !.upto = Len(log)]]
  BY DEF CatchUp, CatchingUp, Subscribed
<1>2. /\ sub[c] \in Subs /\ sub[c].upto \in Nat /\ Len(log) \in 0..MaxSeq /\ low \in 1..(Len(log) + 1)
  BY <1>1, SubType DEF Types, IInv
<1>3. /\ pending \in SUBSET (1..MaxSeq)
      /\ \A n \in pending : n \in 1..Len(log) /\ n > sub[c].upto
  BY <1>2 DEF Pending, Ring
<1> HIDE DEF pending
<1>4. ~PumpWaits(c) /\ ~PumpWaits(c)'
  BY <1>1 DEF IInv, PumpInOrder, PumpWaits
<1>5. /\ sub'[c] \in Subs
      /\ (sub'[c].todo = << >> \/ sub'[c].todo = Events(pending))
  <2>1. CASE pending = {}
    <3>1. sub'[c] = [sub[c] EXCEPT !.active = TRUE]
      BY <1>1, <2>1 DEF IInv, Types
    <3> QED BY <1>1, <1>2, <3>1 DEF Subs
  <2>2. CASE pending # {}
    <3>1. sub'[c] = [sub[c] EXCEPT !.todo = Events(pending), !.upto = Len(log)]
      BY <1>1, <2>2 DEF IInv, Types
    <3>2. Events(pending) \in Seq(Messages)
      BY <1>3, EventsInOrder
    <3> QED BY <1>2, <3>1, <3>2 DEF Subs
  <2> QED BY <2>1, <2>2
<1>6. sub'[c] # None /\ DOMAIN << >> = {}
  BY <1>5, NoneAssumption
<1>7. Waiting(c) = << >> /\ Waiting(c)' = sub'[c].todo
  BY <1>1, <1>4, <1>6 DEF Waiting
<1>8. \A i \in DOMAIN sub'[c].todo :
        \E k \in 1..Len(log) : k > sub[c].upto /\ sub'[c].todo[i] = Event(k)
  BY <1>3, <1>5, <1>6, EventsInOrder
<1>9. \A i \in DOMAIN sub'[c].todo : Told(sub'[c].todo[i])
  BY <1>2, <1>8, ToldMessages
<1> QED BY <1>1, <1>6, <1>7, <1>8, <1>9 DEF HandsOut

LEMMA HandedViews ==
  ASSUME IInv, VInv, UNCHANGED <<fleet, epoch, log, conn, listing, mem, wire>>,
         \A c \in Clients : sub'[c] = sub[c] \/ HandsOut(c)
  PROVE  VInv'
<1>1. Grows /\ FleetGoesOn /\ Open' = Open
  BY HubStill DEF FleetGoesOn, Open
<1> SUFFICES ASSUME NEW c \in Clients
             PROVE  Registered(c)' /\ \A ep \in Episodes : ViewFits(c, ep)'
  BY DEF VInv
<1>2. \/ sub'[c] = sub[c]
      \/ sub[c] # None /\ \A i \in DOMAIN sub'[c].todo : Told(sub'[c].todo[i])
  BY DEF HandsOut
<1>3. Registered(c)'
  BY <1>2 DEF VInv, Registered
<1>4. \A ep \in Episodes : ViewFits(c, ep)'
  BY <1>1, <1>2, ViewKept DEF VInv
<1> QED BY <1>3, <1>4

LEMMA PumpTakeViews ==
  ASSUME IInv, VInv, PumpTake
  PROVE  VInv'
<1>1. UNCHANGED <<fleet, epoch, log, conn, listing, mem, wire>>
  BY DEF PumpTake, runtime
<1> QED BY <1>1, PumpTakeHands, HandedViews

LEMMA CatchUpViews ==
  ASSUME IInv, VInv, NEW c \in Clients, CatchUp(c)
  PROVE  VInv'
<1>1. /\ UNCHANGED <<fleet, epoch, log, conn, listing, mem, wire>>
      /\ \A d \in Clients \ {c} : sub'[d] = sub[d]
  BY DEF CatchUp, hub, runtime, IInv, Types
<1> QED BY <1>1, CatchUpHands, HandedViews

\* A subscription: the replay and its event_sync wait, whatever it is answered.
LEMMA SubscribeHands ==
  ASSUME IInv, NEW c \in Clients, Subscribe(c)
  PROVE  LET P == Replay(Request(c)).places
             sync == Sync(Len(log), Replay(Request(c)).gap) IN
         /\ P \in SUBSET (1..Len(log))
         /\ sub[c] = None /\ sub'[c] # None
         /\ \A i \in DOMAIN sub'[c].todo : Told(sub'[c].todo[i])
         /\ Waiting(c)' = Append(Events(P), sync)
         /\ sync \in Messages /\ sync.type = "sync" /\ sync.seq = Len(log)
         /\ mem[c].batch = << >>
<1> DEFINE replay == Replay(Request(c))
           P == replay.places
           gap == replay.gap
           sync == Sync(Len(log), gap)
           todo == Append(Events(P), sync)
<1>1. /\ sub[c] = None /\ uplink[c] = <<Request(c)>> /\ ~PumpWaits(c) /\ mem[c].batch = << >>
  <2>1. listing[c] # None
    BY DEF Subscribe
  <2>2. /\ sub[c] = None /\ conn[c] # "down" /\ BeforeSubscription(c)
        /\ uplink[c] = <<Request(c)>>
    BY <2>1, ServedIsFirst
  <2>3. ~PumpWaits(c)
    BY <2>2, NotPumped
  <2> QED BY <2>2, <2>3 DEF BeforeSubscription
<1>2. /\ sub' = [sub EXCEPT ![c] = [todo |-> todo, upto |-> Len(log), active |-> FALSE]]
      /\ pump' = pump
  <2>1. Head(uplink[c]) = Request(c)
    BY <1>1
  <2> QED BY <2>1 DEF Subscribe
<1>3. P \in SUBSET (1..Len(log)) /\ Len(log) \in 0..MaxSeq /\ Len(log) \in Nat /\ gap \in BOOLEAN
  BY ReplayTells DEF IInv, Types
<1> HIDE DEF replay, P, gap
<1>4. sync \in Messages /\ sync.type = "sync" /\ sync.seq = Len(log) /\ Told(sync)
  <2>1. ASSUME NEW len \in 0..MaxSeq, NEW g \in BOOLEAN
        PROVE  /\ Sync(len, g) \in Messages /\ Told(Sync(len, g))
               /\ Sync(len, g).type = "sync" /\ Sync(len, g).seq = len
    BY DEF Sync, Messages, Told
  <2> QED BY <1>3, <2>1
<1> HIDE DEF sync
<1>5. /\ P \in SUBSET (1..MaxSeq)
      /\ Events(P) \in Seq(Messages)
      /\ \A i \in DOMAIN Events(P) : \E n \in P : Events(P)[i] = Event(n)
  <2>1. P \in SUBSET (1..MaxSeq)
    BY <1>3
  <2> QED BY <2>1, EventsInOrder
<1>6. /\ todo \in Seq(Messages)
      /\ \A i \in DOMAIN todo : todo[i] = sync \/ \E n \in P : todo[i] = Event(n)
  <2>1. /\ todo \in Seq(Messages)
        /\ DOMAIN todo = 1..(Len(Events(P)) + 1) /\ todo[Len(Events(P)) + 1] = sync
        /\ Len(Events(P)) \in Nat /\ DOMAIN Events(P) = 1..Len(Events(P))
        /\ \A i \in DOMAIN Events(P) : todo[i] = Events(P)[i]
    BY <1>4, <1>5
  <2> HIDE DEF todo
  <2> QED BY <1>5, <2>1
<1>7. \A i \in DOMAIN todo : Told(todo[i])
  <2> HIDE DEF todo
  <2>1. \A n \in P : Told(Event(n))
    BY <1>5, ToldMessages
  <2> QED BY <1>4, <1>6, <2>1
<1>8. sub'[c] \in Subs /\ sub'[c].todo = todo
  <2> HIDE DEF todo
  <2>1. sub'[c] = [todo |-> todo, upto |-> Len(log), active |-> FALSE]
    BY <1>2 DEF IInv, Types
  <2> QED BY <1>3, <1>6, <2>1 DEF Subs
<1>9. sub'[c] # None
  BY <1>8, NoneAssumption
<1>10. Waiting(c)' = todo
  BY <1>1, <1>2, <1>8, <1>9 DEF Waiting, PumpWaits
<1> QED BY <1>1, <1>3, <1>4, <1>7, <1>8, <1>9, <1>10 DEF sync, P, gap, replay

LEMMA SubscribeViews ==
  ASSUME IInv, Types', VInv, NEW c \in Clients, Subscribe(c), SnapshotsInOrder
  PROVE  VInv'
<1>1. /\ listing[c] # None /\ listing[c].ok /\ conn[c] = "up"
      /\ wire' = [wire EXCEPT ![c] = wire[c] \o Listed(c)]
      /\ listing' = [listing EXCEPT ![c] = None]
      /\ UNCHANGED <<fleet, epoch, log, conn, mem>>
      /\ \A d \in Clients \ {c} : sub'[d] = sub[d]
  BY DEF Subscribe, hub, runtime, VInv, Registered, IInv, Types
<1>2. Listed(c) = <<Snapshot(Open)>>
  BY <1>1 DEF Listed
<1>3. Snapshot(Open) \in Messages /\ Snapshot(Open).type = "snapshot" /\ Snapshot(Open).panes = Open
  <2>1. Open \in SUBSET Episodes
    BY DEF Open
  <2> QED BY <2>1, ToldMessages DEF Snapshot
<1>4. PICK x \in Messages : x = Snapshot(Open)
  BY <1>3
<1>5. wire[c] \in Seq(Messages)
  BY DEF IInv, Types
<1>6. wire'[c] = Append(wire[c], x) /\ listing'[c] = None
  BY <1>1, <1>2, <1>4, <1>5 DEF IInv, Types
<1>7. \A d \in Clients \ {c} : Aside(d)
  BY <1>1 DEF Aside, IInv, Types
<1>8. \A i \in DOMAIN sub'[c].todo : Told(sub'[c].todo[i])
  BY SubscribeHands
<1>9. Registered(c)'
  BY <1>1, <1>6, <1>8 DEF Registered
<1>10. Grows /\ FleetGoesOn /\ Open' = Open
  BY <1>1, HubStill DEF FleetGoesOn, Open
<1>11. ASSUME NEW ep \in Episodes PROVE ViewFits(c, ep)'
  <2>1. x.type = "snapshot" /\ (ep \in Open' => ep \in x.panes)
        /\ (fleet'[ep].state = "new" => ep \notin x.panes)
    BY <1>1, <1>3, <1>4, <1>10 DEF Open
  <2> QED BY <1>1, <1>6, <1>10, <2>1, ViewPut DEF VInv
<1> QED BY <1>1, <1>7, <1>9, <1>11, ViewsOfOne

LEMMA ConnectViews ==
  ASSUME IInv, VInv, NEW c \in Clients, Connect(c)
  PROVE  VInv'
<1>1. /\ conn[c] = "down"
      /\ conn' = [conn EXCEPT ![c] = "joining"]
      /\ wire' = [wire EXCEPT ![c] = <<Snapshot(Open)>>]
      /\ mem' = [mem EXCEPT ![c] = [NewBatch(c) EXCEPT !.synced = FALSE, !.resent = FALSE]]
      /\ UNCHANGED <<fleet, hub, epoch, log, sub, listing>>
  BY DEF Connect, hub
<1>2. sub[c] = None /\ listing[c] = None
  BY <1>1 DEF IInv, Lane, AfterSubscription, BeforeSubscription
<1>3. /\ wire'[c] = <<Snapshot(Open)>>
      /\ \A d \in Clients \ {c} : Aside(d)
  BY <1>1 DEF Aside, IInv, Types
<1>4. mem'[c].view = mem[c].view /\ mem'[c].batch = << >>
  <2>1. mem'[c] = [[[mem[c] EXCEPT !.batch = << >>, !.alert = disk[c].cursor # None]
                      EXCEPT !.synced = FALSE] EXCEPT !.resent = FALSE]
    BY <1>1 DEF NewBatch, IInv, Types
  <2>2. DOMAIN mem[c] = {"batch", "alert", "synced", "resent", "view", "read", "spent"}
    BY MemoryFields DEF IInv, Types
  <2> QED BY <2>1, <2>2
<1>5. Registered(c)'
  BY <1>1, <1>2 DEF Registered
<1>6. \A ep \in Episodes : ViewFits(c, ep)'
  BY <1>1, <1>2, <1>3, <1>4, ViewOfConnection DEF VInv
<1> QED BY <1>1, <1>3, <1>5, <1>6, ViewsOfOne

LEMMA DropViews ==
  ASSUME IInv, VInv, NEW c \in Clients, Drop(c)
  PROVE  VInv'
<1>1. /\ Closed(c) /\ mem' = [mem EXCEPT ![c] = Forgets(mem[c])]
      /\ UNCHANGED <<fleet, epoch, log>>
  BY DEF Drop, hub
<1>2. /\ wire'[c] = << >> /\ sub'[c] = None /\ listing'[c] = None
      /\ \A d \in Clients \ {c} : Aside(d)
  BY <1>1 DEF Closed, Aside, IInv, Types
<1>3. mem'[c].view = mem[c].view /\ mem'[c].batch = None
  <2>1. DOMAIN mem[c] = {"batch", "alert", "synced", "resent", "view", "read", "spent"}
    BY MemoryFields DEF IInv, Types
  <2>2. mem'[c] = [[[mem[c] EXCEPT !.batch = None] EXCEPT !.alert = FALSE] EXCEPT !.synced = FALSE]
    BY <1>1 DEF Forgets, IInv, Types
  <2> QED BY <2>1, <2>2
<1>4. Registered(c)'
  BY <1>2 DEF Registered
<1>5. FleetGoesOn
  BY <1>1 DEF FleetGoesOn
<1>6. \A ep \in Episodes : ViewFits(c, ep)'
  BY <1>2, <1>3, <1>5, ViewCut DEF VInv
<1> QED BY <1>1, <1>2, <1>4, <1>6, ViewsOfOne

LEMMA BridgeRestartViews ==
  ASSUME IInv, VInv, BridgeRestart
  PROVE  VInv'
<1>1. PICK ended \in SUBSET Open :
        fleet' = [ep \in Episodes |->
                    IF ep \in ended THEN [fleet[ep] EXCEPT !.state = "over"] ELSE fleet[ep]]
  BY DEF BridgeRestart
<1>2. FleetGoesOn
  BY <1>1 DEF FleetGoesOn, IInv, Types
<1> SUFFICES ASSUME NEW c \in Clients
             PROVE  Registered(c)' /\ \A ep \in Episodes : ViewFits(c, ep)'
  BY DEF VInv
<1>3. wire'[c] = << >> /\ sub'[c] = None /\ listing'[c] = None /\ mem'[c] = Forgets(mem[c])
  BY DEF BridgeRestart
<1>4. mem'[c].view = mem[c].view /\ mem'[c].batch = None
  <2>1. DOMAIN mem[c] = {"batch", "alert", "synced", "resent", "view", "read", "spent"}
    BY MemoryFields DEF IInv, Types
  <2>2. mem'[c] = [[[mem[c] EXCEPT !.batch = None] EXCEPT !.alert = FALSE] EXCEPT !.synced = FALSE]
    BY <1>3 DEF Forgets
  <2> QED BY <2>1, <2>2
<1>5. Registered(c)'
  BY <1>3 DEF Registered
<1>6. \A ep \in Episodes : ViewFits(c, ep)'
  BY <1>2, <1>3, <1>4, ViewCut DEF VInv
<1> QED BY <1>5, <1>6

\* What the runtime reads, it shows.
LEMMA ReceivedViews ==
  ASSUME IInv, VInv, NEW c \in Clients, wire[c] # << >>,
         UNCHANGED <<fleet, hub, linkButWire>>, wire' = [wire EXCEPT ![c] = Tail(wire[c])],
         \A d \in Clients \ {c} : mem'[d] = mem[d],
         mem'[c].view = IF Head(wire[c]).type = "snapshot" THEN Head(wire[c]).panes ELSE mem[c].view,
         \/ mem'[c].batch = mem[c].batch \/ mem'[c].batch = None
         \/ Head(wire[c]).type = "event" /\ mem[c].batch # None
            /\ mem'[c].batch = Append(mem[c].batch, Head(wire[c]).seq)
  PROVE  VInv'
<1>1. /\ wire'[c] = Tail(wire[c]) /\ \A d \in Clients \ {c} : wire'[d] = wire[d]
      /\ UNCHANGED <<fleet, hub, sub, conn, listing, epoch, log>>
  BY DEF IInv, Types, linkButWire, hub
<1>2. \A d \in Clients \ {c} : Aside(d)
  BY <1>1 DEF Aside
<1>3. Registered(c)'
  BY <1>1 DEF VInv, Registered
<1>4. \A ep \in Episodes : ViewFits(c, ep)'
  BY <1>1, ViewTaken DEF VInv
<1> QED BY <1>1, <1>2, <1>3, <1>4, ViewsOfOne

LEMMA ReceiveSnapshotViews ==
  ASSUME IInv, VInv, NEW c \in Clients, ReceiveSnapshot(c)
  PROVE  VInv'
<1>1. /\ wire[c] # << >> /\ Head(wire[c]).type = "snapshot"
      /\ mem' = [mem EXCEPT ![c] = [mem[c] EXCEPT !.view = Head(wire[c]).panes]]
      /\ wire' = [wire EXCEPT ![c] = Tail(wire[c])]
      /\ UNCHANGED <<fleet, hub, linkButWire>>
  BY DEF ReceiveSnapshot, IInv, Types
<1>2. DOMAIN mem[c] = {"batch", "alert", "synced", "resent", "view", "read", "spent"}
  BY MemoryFields DEF IInv, Types
<1>3. /\ mem'[c] = [mem[c] EXCEPT !.view = Head(wire[c]).panes]
      /\ \A d \in Clients \ {c} : mem'[d] = mem[d]
  BY <1>1 DEF IInv, Types
<1>4. mem'[c].view = Head(wire[c]).panes /\ mem'[c].batch = mem[c].batch
  BY <1>2, <1>3
<1> QED BY <1>1, <1>3, <1>4, ReceivedViews

LEMMA ReceiveBatchedViews ==
  ASSUME IInv, VInv, NEW c \in Clients, ReceiveBatched(c)
  PROVE  VInv'
<1>1. /\ wire[c] # << >> /\ Head(wire[c]).type = "event" /\ mem[c].batch # None
      /\ mem' = [mem EXCEPT ![c] =
                   [mem[c] EXCEPT !.batch = Append(mem[c].batch, Head(wire[c]).seq)]]
      /\ wire' = [wire EXCEPT ![c] = Tail(wire[c])]
      /\ UNCHANGED <<fleet, hub, linkButWire>>
  BY DEF ReceiveBatched, IInv, Types
<1>2. DOMAIN mem[c] = {"batch", "alert", "synced", "resent", "view", "read", "spent"}
  BY MemoryFields DEF IInv, Types
<1>3. /\ mem'[c] = [mem[c] EXCEPT !.batch = Append(mem[c].batch, Head(wire[c]).seq)]
      /\ \A d \in Clients \ {c} : mem'[d] = mem[d]
  BY <1>1 DEF IInv, Types
<1>4. mem'[c].view = mem[c].view /\ mem'[c].batch = Append(mem[c].batch, Head(wire[c]).seq)
  BY <1>2, <1>3
<1> QED BY <1>1, <1>3, <1>4, ReceivedViews

LEMMA ReceiveEventViews ==
  ASSUME IInv, VInv, NEW c \in Clients, ReceiveEvent(c)
  PROVE  VInv'
<1>1. Receives(c, Handling(c, Head(wire[c])))
  BY ReceiveEventLeaves DEF IInv
<1>2. /\ wire[c] # << >> /\ Head(wire[c]).type # "snapshot"
      /\ UNCHANGED <<fleet, hub, linkButWire>> /\ wire' = [wire EXCEPT ![c] = Tail(wire[c])]
      /\ mem'[c].batch = None /\ mem'[c].view = mem[c].view
      /\ \A d \in Clients \ {c} : mem'[d] = mem[d]
  BY <1>1 DEF Receives, Handles
<1> QED BY <1>2, ReceivedViews

LEMMA StandingStillViews ==
  ASSUME IInv, VInv, UNCHANGED vars
  PROVE  VInv'
<1>1. UNCHANGED <<fleet, epoch, log, conn, listing, mem, wire, sub>>
  BY DEF vars, hub, link, runtime
<1> QED BY <1>1, HandedViews

LEMMA InitViews ==
  ASSUME Init
  PROVE  VInv
<1> SUFFICES ASSUME NEW c \in Clients
             PROVE  Registered(c) /\ \A ep \in Episodes : ViewFits(c, ep)
  BY DEF VInv
<1>1. /\ listing[c] = None /\ sub[c] = None /\ wire[c] = << >> /\ mem[c] = NoMemory
      /\ DOMAIN << >> = {} /\ Len(<< >>) = 0
  BY DEF Init
<1>2. mem[c].view = {} /\ mem[c].batch = None
  BY <1>1 DEF NoMemory, Memory
<1>3. ASSUME NEW ep \in Episodes PROVE ViewFits(c, ep)
  <2>1. 1..((0 + 1) - 1) = {}
    OBVIOUS
  <2>2. ~ShownBy(c, 0 + 1, ep)
    BY <1>2, <2>1 DEF ShownBy
  <2> QED BY <1>1, <1>2, <2>2 DEF ViewFits, StaysShown, ShownFirst
<1> QED BY <1>1, <1>3 DEF Registered

-----------------------------------------------------------------------------
(* ... and the questions it handled or is still to be sent.                 *)

\* A step that touches none of it.
LEMMA PromptsStill ==
  ASSUME IInv, PInv, UNCHANGED <<fleet, epoch, log, pump, sub, wire, mem, disk>>
  PROVE  PInv'
<1>1. Grows
  BY HubStill
<1> SUFFICES ASSUME NEW c \in Clients PROVE PromptsFit(c)'
  BY DEF PInv
<1>2. Waiting(c)' = Waiting(c)
  BY DEF Waiting, PumpWaits
<1>3. Coming(wire[c], Waiting(c))' = Coming(wire[c], Waiting(c))
  BY <1>2
<1> QED BY <1>1, <1>3, PromptsStay DEF PInv

LEMMA RegisterPrompts ==
  ASSUME IInv, PInv, NEW c \in Clients, Register(c)
  PROVE  PInv'
<1>1. UNCHANGED <<fleet, epoch, log, pump, sub, wire, mem, disk>>
  BY DEF Register, hub, runtime
<1> QED BY <1>1, PromptsStill

LEMMA ListPanesPrompts ==
  ASSUME IInv, PInv, NEW c \in Clients, ListPanes(c)
  PROVE  PInv'
<1>1. UNCHANGED <<fleet, epoch, log, pump, sub, wire, mem, disk>>
  BY DEF ListPanes, hub, runtime
<1> QED BY <1>1, PromptsStill

LEMMA StandingStillPrompts ==
  ASSUME IInv, PInv, UNCHANGED vars
  PROVE  PInv'
<1>1. UNCHANGED <<fleet, epoch, log, pump, sub, wire, mem, disk>>
  BY DEF vars, hub, link, runtime
<1> QED BY <1>1, PromptsStill

\* What waits first goes onto the wire.
LEMMA SentPrompts ==
  ASSUME IInv, PInv, NEW c \in Clients, UNCHANGED <<fleet, epoch, log, mem, disk>>,
         pump' = pump \/ pump' = Without(pump, c),
         \A d \in Clients \ {c} : sub'[d] = sub[d] /\ wire'[d] = wire[d],
         Waiting(c) # << >>,
         wire'[c] = Append(wire[c], Head(Waiting(c))), Waiting(c)' = Tail(Waiting(c))
  PROVE  PInv'
<1>1. Grows
  BY HubStill
<1>2. Coming(wire[c], Waiting(c))' = Coming(wire[c], Waiting(c))
  BY SentComing
<1>3. PromptsFit(c)'
  BY <1>1, <1>2, PromptsStay DEF PInv
<1> QED BY <1>3, PromptsOfOne

LEMMA PumpSendPrompts ==
  ASSUME IInv, PInv, NEW c \in Clients, PumpSend(c)
  PROVE  PInv'
<1>1. /\ pump # None /\ c \in pump.to /\ pump \in Pumps
      /\ wire' = [wire EXCEPT ![c] = Append(wire[c], Event(pump.seq))]
      /\ pump' = Without(pump, c)
      /\ UNCHANGED <<fleet, epoch, log, sub, mem, disk>>
  BY DEF PumpSend, PumpWaits, hub, runtime, IInv, Types
<1>2. ~PumpWaits(c)'
  <2>1. CASE pump.to \subseteq {c}
    BY <1>1, <2>1 DEF Without, PumpWaits
  <2>2. CASE ~(pump.to \subseteq {c})
    <3>1. pump' = [pump EXCEPT !.to = pump.to \ {c}]
      BY <1>1, <2>2 DEF Without
    <3>2. pump'.to = pump.to \ {c}
      BY <1>1, <3>1 DEF Pumps
    <3> QED BY <3>2 DEF PumpWaits
  <2> QED BY <2>1, <2>2
<1>3. sub[c] # None /\ sub[c].active /\ sub[c].todo = << >>
  BY <1>1 DEF IInv, PumpInOrder, Lane, AfterSubscription, Fed
<1>4. Waiting(c) = <<Event(pump.seq)>> /\ Waiting(c)' = << >>
  BY <1>1, <1>2, <1>3 DEF Waiting, PumpWaits
<1>5. Waiting(c) # << >> /\ Head(Waiting(c)) = Event(pump.seq) /\ Waiting(c)' = Tail(Waiting(c))
  BY <1>4
<1>6. wire'[c] = Append(wire[c], Head(Waiting(c))) /\ \A d \in Clients \ {c} : wire'[d] = wire[d]
  BY <1>1, <1>5 DEF IInv, Types
<1> QED BY <1>1, <1>5, <1>6, SentPrompts

LEMMA SendReplayPrompts ==
  ASSUME IInv, PInv, NEW c \in Clients, SendReplay(c)
  PROVE  PInv'
<1>1. /\ sub[c] # None /\ ~PumpWaits(c) /\ sub[c].todo # << >>
      /\ wire' = [wire EXCEPT ![c] = Append(wire[c], Head(sub[c].todo))]
      /\ UNCHANGED <<fleet, epoch, log, mem, disk, pump>>
      /\ \A d \in Clients \ {c} : sub'[d] = sub[d]
      /\ sub' = [sub EXCEPT ![c] = [sub[c] EXCEPT !.todo = Tail(sub[c].todo)]]
  BY DEF SendReplay, CatchingUp, Subscribed, hub, runtime, IInv, Types
<1>2. sub[c] \in Subs /\ sub[c].todo \in Seq(Messages)
  BY <1>1, SubType DEF IInv
<1>3. sub'[c] \in Subs /\ sub'[c].todo = Tail(sub[c].todo)
  <2>1. sub'[c] = [sub[c] EXCEPT !.todo = Tail(sub[c].todo)] /\ Tail(sub[c].todo) \in Seq(Messages)
    BY <1>1, <1>2 DEF IInv, Types
  <2> QED BY <1>2, <2>1 DEF Subs
<1>4. sub'[c] # None
  BY <1>3, NoneAssumption
<1>5. Waiting(c) = sub[c].todo /\ Waiting(c)' = Tail(sub[c].todo)
  BY <1>1, <1>3, <1>4 DEF Waiting, PumpWaits
<1>6. wire'[c] = Append(wire[c], Head(Waiting(c))) /\ \A d \in Clients \ {c} : wire'[d] = wire[d]
  BY <1>1, <1>5 DEF IInv, Types
<1> QED BY <1>1, <1>5, <1>6, SentPrompts

\* What is handed out comes after every sync.
LEMMA HandedPrompts ==
  ASSUME IInv, PInv, UNCHANGED <<fleet, epoch, log, mem, wire, disk>>,
         \A c \in Clients : Waiting(c)' = Waiting(c) \/ HandsOut(c)
  PROVE  PInv'
<1>1. Grows
  BY HubStill
<1> SUFFICES ASSUME NEW c \in Clients PROVE PromptsFit(c)'
  BY DEF PInv
<1>2. CASE Waiting(c)' = Waiting(c)
  <2>1. Coming(wire[c], Waiting(c))' = Coming(wire[c], Waiting(c))
    BY <1>2
  <2> QED BY <1>1, <2>1, PromptsStay DEF PInv
<1>3. CASE HandsOut(c)
  <2>1. sub[c].upto \in Nat
    BY <1>3, SubType DEF HandsOut, IInv
  <2>2. ASSUME NEW x \in Coming(wire[c], Waiting(c))', x \notin Coming(wire[c], Waiting(c))
        PROVE  \E k \in 1..Len(log) : k > sub[c].upto /\ x = Event(k)
    BY <1>3, <2>2 DEF Coming, HandsOut
  <2>3. Coming(wire[c], Waiting(c)) \subseteq Coming(wire[c], Waiting(c))'
    <3>1. DOMAIN << >> = {}
      OBVIOUS
    <3> QED BY <1>3, <3>1 DEF Coming, HandsOut
  <2>4. ASSUME NEW m \in 0..MaxSeq, NEW gap \in BOOLEAN, Sync(m, gap) \in Coming(wire[c], Waiting(c))'
        PROVE  Sync(m, gap) \in Coming(wire[c], Waiting(c)) /\ Batched(c, m)' = Batched(c, m)
    <3>1. Sync(m, gap) \in Coming(wire[c], Waiting(c))
      BY <2>2, <2>4 DEF Sync, Event
    <3>2. m \in Nat /\ m <= sub[c].upto
      BY <3>1, SyncUpTo
    <3>3. ASSUME NEW n \in 1..m, Event(n) \in Coming(wire[c], Waiting(c))'
          PROVE  Event(n) \in Coming(wire[c], Waiting(c))
      <4>1. ASSUME NEW k \in 1..Len(log), k > sub[c].upto, Event(n) = Event(k) PROVE FALSE
        <5>1. n = k
          BY <4>1 DEF Event
        <5> QED BY <2>1, <3>2, <4>1, <5>1
      <4> QED BY <2>2, <3>3, <4>1
    <3> QED BY <2>3, <3>1, <3>3 DEF Batched
  <2> QED BY <1>1, <2>4, PromptsKept DEF PInv
<1> QED BY <1>2, <1>3

LEMMA PumpTakePrompts ==
  ASSUME IInv, PInv, PumpTake
  PROVE  PInv'
<1>1. UNCHANGED <<fleet, epoch, log, mem, wire, disk>>
  BY DEF PumpTake, runtime
<1> QED BY <1>1, PumpTakeHands, HandedPrompts

LEMMA CatchUpPrompts ==
  ASSUME IInv, PInv, NEW c \in Clients, CatchUp(c)
  PROVE  PInv'
<1>1. /\ UNCHANGED <<fleet, epoch, log, mem, wire, disk, pump>>
      /\ \A d \in Clients \ {c} : sub'[d] = sub[d]
  BY DEF CatchUp, hub, runtime, IInv, Types
<1>2. \A d \in Clients : Waiting(d)' = Waiting(d) \/ HandsOut(d)
  BY <1>1, CatchUpHands DEF Waiting, PumpWaits
<1> QED BY <1>1, <1>2, HandedPrompts

LEMMA ConnectPrompts ==
  ASSUME IInv, IInv', PInv, NEW c \in Clients, Connect(c)
  PROVE  PInv'
<1>1. /\ conn[c] = "down"
      /\ mem' = [mem EXCEPT ![c] = [NewBatch(c) EXCEPT !.synced = FALSE, !.resent = FALSE]]
      /\ UNCHANGED <<fleet, epoch, log, pump, sub, disk>>
      /\ \A d \in Clients \ {c} : mem'[d] = mem[d] /\ wire'[d] = wire[d]
  BY DEF Connect, hub, IInv, Types
<1>2. sub'[c] = None
  BY <1>1 DEF IInv, Lane, AfterSubscription
<1>3. Coming(wire[c], Waiting(c))' = {}
  BY <1>2 DEF IInv, Lane, BeforeSubscription
<1>4. mem'[c].read = mem[c].read
  <2>1. mem'[c] = [[[mem[c] EXCEPT !.batch = << >>, !.alert = disk[c].cursor # None]
                      EXCEPT !.synced = FALSE] EXCEPT !.resent = FALSE]
    BY <1>1 DEF NewBatch, IInv, Types
  <2>2. DOMAIN mem[c] = {"batch", "alert", "synced", "resent", "view", "read", "spent"}
    BY MemoryFields DEF IInv, Types
  <2> QED BY <2>1, <2>2
<1>5. PromptsFit(c)'
  <2>1. Grows /\ PromptsFit(c) /\ disk'[c] = disk[c]
    BY <1>1, HubStill DEF PInv
  <2> QED BY <1>3, <1>4, <2>1, PromptsStay
<1> QED BY <1>1, <1>5, PromptsOfOne

LEMMA DropPrompts ==
  ASSUME IInv, PInv, NEW c \in Clients, Drop(c)
  PROVE  PInv'
<1>1. /\ mem' = [mem EXCEPT ![c] = Forgets(mem[c])]
      /\ UNCHANGED <<fleet, epoch, log, disk>>
      /\ pump' = Without(pump, c)
      /\ \A d \in Clients \ {c} : mem'[d] = mem[d] /\ wire'[d] = wire[d] /\ sub'[d] = sub[d]
  BY DEF Drop, Closed, hub, IInv, Types
<1>2. mem'[c].batch = None /\ mem'[c].read = mem[c].read
  <2>1. DOMAIN mem[c] = {"batch", "alert", "synced", "resent", "view", "read", "spent"}
    BY MemoryFields DEF IInv, Types
  <2>2. mem'[c] = [[[mem[c] EXCEPT !.batch = None] EXCEPT !.alert = FALSE] EXCEPT !.synced = FALSE]
    BY <1>1 DEF Forgets, IInv, Types
  <2> QED BY <2>1, <2>2
<1>3. PromptsFit(c)'
  <2>1. Grows /\ PromptsFit(c) /\ disk'[c] = disk[c]
    BY <1>1, HubStill DEF PInv
  <2> QED BY <1>2, <2>1, PromptsStay
<1> QED BY <1>1, <1>3, PromptsOfOne

\* No cursor is of the new log.
LEMMA BridgeRestartPrompts ==
  ASSUME IInv, PInv, BridgeRestart
  PROVE  PInv'
<1>1. /\ epoch' = epoch + 1 /\ disk' = disk /\ mem' = [c \in Clients |-> Forgets(mem[c])]
      /\ epoch \in Nat
  BY DEF BridgeRestart, IInv, Types
<1> SUFFICES ASSUME NEW c \in Clients PROVE PromptsFit(c)'
  BY DEF PInv
<1>2. mem'[c].batch = None
  <2>1. DOMAIN mem[c] = {"batch", "alert", "synced", "resent", "view", "read", "spent"}
    BY MemoryFields DEF IInv, Types
  <2>2. mem'[c] = [[[mem[c] EXCEPT !.batch = None] EXCEPT !.alert = FALSE] EXCEPT !.synced = FALSE]
    BY <1>1 DEF Forgets
  <2> QED BY <2>1, <2>2
<1>3. ~Here(c)'
  <2>1. disk[c].cursor # None => disk[c].cursor[1] <= epoch /\ disk[c].cursor[1] \in Nat
    BY DEF IInv, CursorsAreOfLogs, Types, Cursors
  <2> QED BY <1>1, <2>1 DEF Here
<1> QED BY <1>2, <1>3 DEF PromptsFit, ReadsHandled, ReplayIsWhole

\* What the runtime keeps of what it reads comes as before.
LEMMA ReceiveSnapshotPrompts ==
  ASSUME IInv, PInv, NEW c \in Clients, ReceiveSnapshot(c)
  PROVE  PInv'
<1>1. /\ wire[c] # << >> /\ Head(wire[c]).type = "snapshot"
      /\ mem' = [mem EXCEPT ![c] = [mem[c] EXCEPT !.view = Head(wire[c]).panes]]
      /\ UNCHANGED <<fleet, epoch, log, pump, sub, disk>>
      /\ wire'[c] = Tail(wire[c])
      /\ \A d \in Clients \ {c} : mem'[d] = mem[d] /\ wire'[d] = wire[d]
  BY DEF ReceiveSnapshot, hub, linkButWire, IInv, Types
<1>2. mem'[c].batch = mem[c].batch /\ mem'[c].read = mem[c].read
  <2>1. DOMAIN mem[c] = {"batch", "alert", "synced", "resent", "view", "read", "spent"}
    BY MemoryFields DEF IInv, Types
  <2>2. mem'[c] = [mem[c] EXCEPT !.view = Head(wire[c]).panes]
    BY <1>1 DEF IInv, Types
  <2> QED BY <2>1, <2>2
<1>3. Coming(wire[c], Waiting(c))' = Coming(wire[c], Waiting(c))
  <2> DEFINE w == wire[c]
             r == Waiting(c)
  <2>1. w \in Seq(Messages) /\ r \in Seq(Messages) /\ InTurn(w, r) /\ w # << >> /\ ~Told(Head(w))
    BY <1>1, WaitingType DEF IInv, Lane, Told
  <2>2. wire'[c] = Tail(w) /\ Waiting(c)' = r
    BY <1>1 DEF Waiting, PumpWaits
  <2> HIDE DEF w, r
  <2>3. Coming(Tail(w), r) = Coming(w, r)
    BY <2>1, TakingKeeps
  <2>4. Coming(wire[c], Waiting(c))' = Coming(Tail(w), r)
    BY <2>2
  <2> QED BY <2>3, <2>4 DEF w, r
<1>4. PromptsFit(c)'
  <2>1. Grows /\ PromptsFit(c) /\ disk'[c] = disk[c]
    BY <1>1, HubStill DEF PInv
  <2> QED BY <1>2, <1>3, <2>1, PromptsStay
<1> QED BY <1>1, <1>4, PromptsOfOne

LEMMA ReceiveBatchedPrompts ==
  ASSUME IInv, PInv, NEW c \in Clients, ReceiveBatched(c)
  PROVE  PInv'
<1> DEFINE k == Head(wire[c]).seq
<1>1. /\ wire[c] # << >> /\ Head(wire[c]).type = "event" /\ mem[c].batch # None
      /\ mem' = [mem EXCEPT ![c] = [mem[c] EXCEPT !.batch = Append(mem[c].batch, k)]]
      /\ UNCHANGED <<fleet, hub, linkButWire, epoch, log, pump, sub, disk>>
      /\ wire' = [wire EXCEPT ![c] = Tail(wire[c])]
      /\ \A d \in Clients \ {c} : mem'[d] = mem[d] /\ wire'[d] = wire[d]
  BY DEF ReceiveBatched, hub, linkButWire, IInv, Types
<1>2. Told(Head(wire[c]))
  BY <1>1 DEF Told
<1>3. /\ Head(wire[c]) \in Messages
      /\ Head(wire[c]) \in Coming(wire[c], Waiting(c))
  BY <1>1, <1>2, ToldIsSubscribed
<1>4. k \in 1..MaxSeq /\ k \in Nat /\ Head(wire[c]) = Event(k) /\ Key(Head(wire[c])) = 2 * k
  <2>1. k \in 1..MaxSeq /\ Head(wire[c]) = Event(k)
    BY <1>1, <1>3, ToldMessages
  <2> HIDE DEF k
  <2> QED BY <2>1, ToldMessages
<1> HIDE DEF k
<1>5. mem'[c].batch = Append(mem[c].batch, k) /\ mem'[c].read = mem[c].read
  <2>1. DOMAIN mem[c] = {"batch", "alert", "synced", "resent", "view", "read", "spent"}
    BY MemoryFields DEF IInv, Types
  <2>2. mem'[c] = [mem[c] EXCEPT !.batch = Append(mem[c].batch, k)]
    BY <1>1 DEF IInv, Types
  <2> QED BY <2>1, <2>2
<1>6. /\ Coming(wire[c], Waiting(c))' = Coming(wire[c], Waiting(c)) \ {Event(k)}
      /\ \A m \in Coming(wire[c], Waiting(c))' : 2 * k < Key(m)
  BY <1>1, <1>2, <1>4, Taken
<1>7. \A n : (\E i \in DOMAIN mem'[c].batch : mem'[c].batch[i] = n)
                <=> n = k \/ \E i \in DOMAIN mem[c].batch : mem[c].batch[i] = n
  <2> DEFINE old == mem[c].batch
             new == mem'[c].batch
  <2>1. /\ DOMAIN new = 1..(Len(old) + 1) /\ new[Len(old) + 1] = k
        /\ DOMAIN old = 1..Len(old) /\ Len(old) \in Nat
        /\ \A i \in DOMAIN old : i \in DOMAIN new /\ new[i] = old[i]
    <3>1. new = Append(old, k) /\ old \in Seq(1..MaxSeq)
      BY <1>1, <1>5 DEF Batches, IInv, Types
    <3> HIDE DEF old, new
    <3> QED BY <1>4, <3>1
  <2> HIDE DEF old, new
  <2>2. ASSUME NEW i \in DOMAIN new PROVE new[i] = k \/ \E j \in DOMAIN old : old[j] = new[i]
    BY <2>1, <2>2
  <2>3. Len(old) + 1 \in DOMAIN new
    BY <2>1
  <2>4. \A n : (\E i \in DOMAIN new : new[i] = n) <=> n = k \/ \E i \in DOMAIN old : old[i] = n
    BY <2>1, <2>2, <2>3
  <2> QED BY <2>4 DEF old, new
<1>8. ASSUME NEW m \in 0..MaxSeq, NEW gap \in BOOLEAN, Sync(m, gap) \in Coming(wire[c], Waiting(c))'
      PROVE  Sync(m, gap) \in Coming(wire[c], Waiting(c)) /\ Batched(c, m)' = Batched(c, m)
  <2>1. Key(Sync(m, gap)) = 2 * m + 1 /\ m \in Nat
    BY ToldMessages
  <2>2. k \in 1..m
    BY <1>4, <1>6, <1>8, <2>1
  <2>3. \A n : Event(n) = Event(k) => n = k
    BY DEF Event
  <2>4. ASSUME NEW n \in 1..m
        PROVE  \/ \E i \in DOMAIN mem'[c].batch : mem'[c].batch[i] = n
               \/ Event(n) \in Coming(wire[c], Waiting(c))'
               <=> \/ \E i \in DOMAIN mem[c].batch : mem[c].batch[i] = n
                   \/ Event(n) \in Coming(wire[c], Waiting(c))
    BY <1>3, <1>4, <1>6, <1>7, <2>3
  <2> QED BY <1>6, <1>8, <2>4 DEF Batched
<1>9. PromptsFit(c)'
  <2>1. Grows /\ PromptsFit(c) /\ disk'[c] = disk[c]
    BY <1>1, HubStill DEF PInv
  <2> QED BY <1>1, <1>5, <1>8, <2>1, PromptsKept
<1> QED BY <1>1, <1>9, PromptsOfOne

\* A replay repeats the last question of an open episode, or nothing as old.
LEMMA ReplayRepeats ==
  ASSUME IInv, NEW c \in Clients, NEW n \in LastOpen
  PROVE  LET P == Replay(Request(c)).places IN
         \/ n \in P
         \/ /\ Here(c) /\ n <= disk[c].cursor[2]
            /\ \A p \in P : n < p
<1> DEFINE r == Request(c)
           cursor == disk[c].cursor
<1>1. Len(log) \in Nat /\ low \in Nat /\ low >= 1 /\ low <= Len(log) + 1
  BY DEF IInv, Types
<1>2. /\ n \in 1..Len(log) /\ Blocked(n) /\ log[n].ep \in Open
      /\ \A k \in 1..Len(log) : n < k /\ Blocked(k) => log[k].ep # log[n].ep
  BY DEF LastOpen, LastAsked, Asking
<1>3. n \in HeldOpen
  <2>1. ASSUME NEW k \in (n + 1)..Len(log), log[k].ep = log[n].ep PROVE log[k].kind # log[n].kind
    <3>1. k \in 1..Len(log) /\ n < k
      BY <1>1, <1>2, <2>1
    <3> QED BY <1>2, <2>1, <3>1 DEF Blocked
  <2>2. n \in Held(log[n].ep)
    BY <1>2, <2>1 DEF Held
  <2> QED BY <1>2, <2>2 DEF HeldOpen
<1>4. CASE cursor = None
  <2>1. r.after = None
    BY <1>4 DEF Request
  <2>2. Replay(r).places = HeldOpen
    BY <2>1 DEF Replay
  <2> QED BY <1>3, <2>2
<1>5. CASE cursor # None
  <2>1. /\ r.after = cursor[2] /\ r.epoch = cursor[1] /\ cursor[2] \in Nat /\ r.after # None
    BY <1>5, NoneAssumption DEF Request, IInv, Types, Cursors
  <2>2. CASE Reaches(r)
    <3>1. Replay(r).places = {k \in Ring : k > r.after}
      BY <2>1, <2>2 DEF Replay
    <3>2. Here(c)
      BY <1>5, <2>1, <2>2 DEF Here, Reaches
    <3>3. n > cursor[2] => n \in low..Len(log)
      BY <1>1, <1>2, <2>1, <2>2 DEF Reaches
    <3>4. n > cursor[2] => n \in Replay(r).places
      BY <2>1, <3>1, <3>3 DEF Ring
    <3>5. \A p \in Replay(r).places : p \in Nat /\ p > cursor[2]
      BY <1>1, <2>1, <3>1 DEF Ring
    <3>6. n \in Nat
      BY <1>2
    <3> HIDE DEF r, cursor
    <3>7. ~(n > cursor[2]) => n <= cursor[2] /\ \A p \in Replay(r).places : n < p
      BY <2>1, <3>5, <3>6
    <3> QED BY <3>2, <3>4, <3>7 DEF r, cursor
  <2>3. CASE ~Reaches(r)
    <3>1. Replay(r).places = Ring \cup HeldOpen
      BY <2>1, <2>3 DEF Replay
    <3> QED BY <1>3, <3>1
  <2> QED BY <2>2, <2>3
<1> QED BY <1>4, <1>5

LEMMA SubscribePrompts ==
  ASSUME IInv, VInv, PInv, NEW c \in Clients, Subscribe(c), SnapshotsInOrder
  PROVE  PInv'
<1> DEFINE P == Replay(Request(c)).places
           sync == Sync(Len(log), Replay(Request(c)).gap)
           r == Append(Events(P), sync)
<1>1. /\ listing[c] # None /\ listing[c].ok
      /\ wire' = [wire EXCEPT ![c] = wire[c] \o Listed(c)]
      /\ UNCHANGED <<fleet, epoch, log, mem, disk, pump>>
      /\ \A d \in Clients \ {c} : sub'[d] = sub[d] /\ wire'[d] = wire[d]
  BY DEF Subscribe, hub, runtime, VInv, Registered, IInv, Types
<1>2. /\ P \in SUBSET (1..Len(log))
      /\ sub[c] = None /\ Waiting(c)' = r
      /\ sync \in Messages /\ sync.type = "sync" /\ sync.seq = Len(log)
      /\ mem[c].batch = << >>
  BY SubscribeHands
<1>3. \A n \in LastOpen : \/ n \in P
                          \/ /\ Here(c) /\ n <= disk[c].cursor[2]
                             /\ \A p \in P : n < p
  BY ReplayRepeats
<1> HIDE DEF P, sync
<1>4. Len(log) \in Nat /\ Len(log) <= MaxSeq /\ P \in SUBSET (1..MaxSeq) /\ wire[c] \in Seq(Messages)
  BY <1>2 DEF IInv, Types
<1>5. /\ Events(P) \in Seq(Messages)
      /\ \A i \in DOMAIN Events(P) : \E n \in P : Events(P)[i] = Event(n)
      /\ \A n \in P : \E i \in DOMAIN Events(P) : Events(P)[i] = Event(n)
  BY <1>4, EventsInOrder
<1>6. /\ DOMAIN r = 1..(Len(Events(P)) + 1) /\ r[Len(Events(P)) + 1] = sync
      /\ Len(Events(P)) \in Nat /\ DOMAIN Events(P) = 1..Len(Events(P))
      /\ \A i \in DOMAIN Events(P) : i \in DOMAIN r /\ r[i] = Events(P)[i]
  BY <1>2, <1>5
<1> HIDE DEF r
<1>7. \A i \in DOMAIN r : r[i] = sync \/ \E n \in P : r[i] = Event(n)
  BY <1>5, <1>6
<1>8. \A n \in P : \E i \in DOMAIN r : r[i] = Event(n)
  BY <1>5, <1>6
<1>9. Coming(wire[c], << >>) = {}
  <2>1. Coming(wire[c], Waiting(c)) = {}
    BY <1>2 DEF IInv, Lane, BeforeSubscription
  <2>2. DOMAIN << >> = {}
    OBVIOUS
  <2> QED BY <2>1, <2>2 DEF Coming
<1>10. PICK panes \in SUBSET Episodes : wire'[c] = Append(wire[c], Snapshot(panes))
  <2>1. Listed(c) = <<Snapshot(Open)>> /\ Open \in SUBSET Episodes
    BY <1>1 DEF Listed, Open
  <2>2. wire'[c] = wire[c] \o <<Snapshot(Open)>>
    BY <1>1, <2>1 DEF IInv, Types
  <2>3. Snapshot(Open) \in Messages
    BY <2>1, ToldMessages
  <2>4. wire'[c] = Append(wire[c], Snapshot(Open))
    BY <1>4, <2>2, <2>3
  <2> QED BY <2>1, <2>4
<1>11. ASSUME NEW x \in Messages, Told(x), NEW i \in DOMAIN wire'[c], wire'[c][i] = x PROVE FALSE
  <2>1. PICK s \in Messages : s = Snapshot(panes) /\ ~Told(s)
    BY ToldMessages
  <2>2. DOMAIN wire'[c] = DOMAIN wire[c] \cup {Len(wire[c]) + 1} /\ wire'[c][Len(wire[c]) + 1] = s
        /\ \A j \in DOMAIN wire[c] : wire'[c][j] = wire[c][j]
    BY <1>4, <1>10, <2>1
  <2>3. i \in DOMAIN wire[c] /\ wire[c][i] = x
    BY <1>11, <2>1, <2>2
  <2>4. x \in Coming(wire[c], << >>)
    BY <1>11, <2>3 DEF Coming
  <2> QED BY <1>9, <2>4
<1>12. \A x \in Messages :
         Told(x) => (x \in Coming(wire[c], Waiting(c))' <=> \E i \in DOMAIN r : r[i] = x)
  <2> SUFFICES ASSUME NEW x \in Messages, Told(x)
               PROVE  x \in Coming(wire[c], Waiting(c))' <=> \E i \in DOMAIN r : r[i] = x
    OBVIOUS
  <2>1. x \in Coming(wire[c], Waiting(c))' <=> \/ \E i \in DOMAIN wire'[c] : wire'[c][i] = x
                                               \/ \E i \in DOMAIN r : r[i] = x
    BY <1>2 DEF Coming
  <2> QED BY <1>11, <2>1
<1>13. ASSUME NEW m \in 0..MaxSeq, NEW gap \in BOOLEAN, Sync(m, gap) \in Coming(wire[c], Waiting(c))'
       PROVE  m = Len(log) /\ Batched(c, m)' = P
  <2>1. Sync(m, gap) \in Messages /\ Told(Sync(m, gap)) /\ Sync(m, gap).type = "sync"
        /\ Sync(m, gap).seq = m
    BY ToldMessages
  <2>2. Sync(m, gap) = sync
    <3>1. \A n \in P : Event(n).type = "event"
      BY DEF Event
    <3> QED BY <1>7, <1>12, <1>13, <2>1, <3>1
  <2>3. m = Len(log)
    BY <1>2, <2>1, <2>2
  <2>4. \A n \in 1..m : Event(n) \in Messages /\ Told(Event(n)) /\ Event(n).type = "event"
    BY ToldMessages
  <2>5. ASSUME NEW n \in 1..m PROVE Event(n) \in Coming(wire[c], Waiting(c))' <=> n \in P
    <3>1. Event(n) \in Coming(wire[c], Waiting(c))' <=> \E i \in DOMAIN r : r[i] = Event(n)
      BY <1>12, <2>4, <2>5
    <3>2. \A k : Event(n) = Event(k) => n = k
      BY DEF Event
    <3> QED BY <1>2, <1>7, <1>8, <2>4, <2>5, <3>1, <3>2
  <2>6. ~\E n, i : i \in DOMAIN mem'[c].batch
    <3>1. mem'[c].batch = << >> /\ DOMAIN << >> = {}
      BY <1>1, <1>2
    <3> QED BY <3>1
  <2>7. Batched(c, m)' = {n \in 1..m : Event(n) \in Coming(wire[c], Waiting(c))'}
    BY <2>6 DEF Batched
  <2>8. P \subseteq 1..m
    BY <1>2, <2>3
  <2> QED BY <2>3, <2>5, <2>7, <2>8
<1>14. LastOpen' = LastOpen /\ (Here(c)' <=> Here(c))
  BY <1>1 DEF LastOpen, LastAsked, Blocked, Asking, Open, Here
<1>15. ReadsHandled(c)'
  <2>1. ReadsHandled(c)
    BY DEF PInv, PromptsFit
  <2> QED BY <1>1, <1>14, <2>1 DEF ReadsHandled
<1>16. ReplayIsWhole(c)'
  <2> SUFFICES ASSUME NEW m \in 0..MaxSeq, NEW gap \in BOOLEAN,
                      Sync(m, gap) \in Coming(wire[c], Waiting(c))', NEW n \in LastOpen'
               PROVE  Repeats(c, n, m)'
    BY DEF ReplayIsWhole
  <2>1. Batched(c, m)' = P
    BY <1>13
  <2>2. \/ n \in P
        \/ /\ Here(c) /\ n <= disk[c].cursor[2]
           /\ \A p \in P : n < p
    BY <1>3, <1>14
  <2> QED BY <1>1, <1>14, <2>1, <2>2 DEF Repeats
<1> QED BY <1>1, <1>15, <1>16, PromptsOfOne DEF PromptsFit

\* Handling shows another question of an episode only when it is asked, and
\* none once the episode is over.
LEMMA HandleReads ==
  ASSUME NEW s \in Handlings, NEW view, NEW f \in Frames, NEW alert \in BOOLEAN,
         NEW ep \in Episodes, f.ep # ep \/ f.kind = "answered"
  PROVE  Handle(s, view, f, alert).read[ep] = s.read[ep]
<1> DEFINE m == Handle(s, view, f, alert)
<1>1. s.read \in [Episodes -> 0..MaxQuestions] /\ DOMAIN s = {"read", "spent", "fired"}
  BY DEF Handlings
<1>2. CASE f.kind = "blocked" /\ f.ep \in view
  <2>1. m.read = Shown(s, f)
    BY <1>2, HandleBlocked
  <2>2. f.ep # ep
    BY <1>2
  <2> QED BY <1>1, <2>1, <2>2 DEF Shown
<1>3. CASE ~(f.kind = "blocked" /\ f.ep \in view)
  <2>1. \/ f.kind = "answered" /\ m = [s EXCEPT !.spent = @ \cup {f.ep}]
        \/ f.kind = "unblocked" /\ m = [s EXCEPT !.read[f.ep] = 0]
        \/ f.kind = "blocked" /\ m = s
    BY <1>3, HandleOther
  <2> HIDE DEF m
  <2>2. \/ m.read = s.read
        \/ f.kind = "unblocked" /\ m.read = [s.read EXCEPT ![f.ep] = 0]
    BY <1>1, <2>1
  <2> QED BY <1>1, <2>2 DEF m
<1> QED BY <1>2, <1>3

\* The last question of an open episode is followed by answers.
LEMMA OnlyAnswersFollow ==
  ASSUME IInv, NEW n \in LastOpen, NEW k \in 1..Len(log), n < k, log[k].ep = log[n].ep
  PROVE  log[k].kind = "answered"
<1>1. log[k].kind \in Kinds /\ DOMAIN log = 1..Len(log)
  BY LogLength, FrameParts DEF IInv
<1>2. log[k].kind # "blocked"
  BY DEF LastOpen, LastAsked, Blocked
<1>3. fleet[log[n].ep].state = "open"
  BY DEF LastOpen, Asking, Open
<1>4. log[k].kind # "unblocked"
  BY <1>1, <1>3 DEF IInv, LogIsTrue
<1> QED BY <1>1, <1>2, <1>4 DEF Kinds

\* An event that is handled when it arrives.
LEMMA LiveShows ==
  ASSUME AInv, VInv, PInv, NEW c \in Clients, NEW s \in 1..Len(log), wire[c] # << >>,
         Head(wire[c]) = Event(s), Here(c), disk[c].cursor[2] + 1 = s,
         NEW n \in LastOpen, n <= s
  PROVE  HandleLive(c, s).read[log[n].ep] = log[n].q
<1> DEFINE f == log[s]
           st == State(mem[c])
           m == Handle(st, mem[c].view, f, Fresh(c, f))
           ep == log[n].ep
<1>0. IInv /\ Types /\ MoreTypes /\ ShowsAlerted(c)
  BY DEF AInv, TInv, IInv, AlertsFit
<1>1. st \in Handlings /\ st.read = mem[c].read
  BY <1>0, StateHandled
<1>2. n \in 1..Len(log) /\ log[n].kind = "blocked" /\ ep \in Open /\ ep \in Episodes
  BY <1>0, LogLength DEF LastOpen, LastAsked, Asking
<1>3. f \in Frames /\ Fresh(c, f) \in BOOLEAN
  BY <1>0, LogLength DEF Fresh
<1>4. HandleLive(c, s).read = m.read
  <2>1. HandleLive(c, s) = [fired |-> m.fired, read |-> m.read, spent |-> m.spent,
             opened |-> IF f.kind = "blocked" THEN {f.ep} ELSE {},
             cursor |-> <<epoch, s>>]
    BY DEF HandleLive
  <2> HIDE DEF m
  <2> QED BY <2>1
<1>5. CASE n = s
  <2>1. ep \in mem[c].view
    <3>1. wire[c] \in Seq(Messages) /\ 1 \in DOMAIN wire[c] /\ wire[c][1] = Event(s)
      BY <1>0 DEF Types
    <3>2. wire[c][1].type = "event" /\ wire[c][1].seq = s
      BY <3>1 DEF Event
    <3>3. ShownFirst(c, ep)
      BY <1>2 DEF VInv, ViewFits
    <3>4. AsksOf(wire[c][1].seq, ep)
      BY <1>2, <1>5, <3>2 DEF AsksOf
    <3>5. ShownBy(c, 1, ep)
      BY <3>1, <3>2, <3>3, <3>4 DEF ShownFirst
    <3>6. 1..(1 - 1) = {}
      OBVIOUS
    <3> QED BY <3>5, <3>6 DEF ShownBy
  <2>2. m.read = Shown(st, f)
    <3>1. f.kind = "blocked" /\ f.ep \in mem[c].view
      BY <1>2, <1>5, <2>1
    <3> HIDE DEF st, f
    <3>2. LET mm == Handle(st, mem[c].view, f, Fresh(c, f))
              reopens == st.read[f.ep] \notin {0, f.q} /\ f.ep \in st.spent IN
          mm = [read |-> Shown(st, f),
                spent |-> IF reopens THEN st.spent \ {f.ep} ELSE st.spent,
                fired |-> IF Fresh(c, f) \/ reopens THEN Append(st.fired, <<f.ep, f.q>>) ELSE st.fired]
      BY <1>1, <1>3, <3>1, HandleBlocked
    <3> QED BY <3>2
  <2>3. st.read \in [Episodes -> 0..MaxQuestions]
    BY <1>1 DEF Handlings
  <2> HIDE DEF m, st
  <2> QED BY <1>2, <1>4, <1>5, <2>2, <2>3 DEF Shown
<1>6. CASE n < s
  <2>1. mem[c].read[ep] = log[n].q
    <3>1. disk[c].cursor[2] \in Nat
      BY <1>0 DEF Here, Types, Cursors
    <3>2. n <= disk[c].cursor[2]
      BY <1>2, <1>6, <3>1
    <3> QED BY <3>2 DEF PInv, PromptsFit, ReadsHandled
  <2>2. f.ep # ep \/ f.kind = "answered"
    BY <1>0, <1>6, OnlyAnswersFollow
  <2>3. m.read[ep] = st.read[ep]
    <3> HIDE DEF st, f, ep
    <3> QED BY <1>1, <1>2, <1>3, <2>2, HandleReads
  <2> QED BY <1>1, <1>4, <2>1, <2>3
<1> QED BY <1>2, <1>5, <1>6

\* A batch that holds nothing of an episode but answers leaves what is shown.
LEMMA ReplayLeavesShown ==
  ASSUME AInv, NEW c \in Clients, NEW batch, batch = mem[c].batch, batch # None,
         batch \in Seq(1..Len(log)), NEW ep \in Episodes,
         \A i \in DOMAIN batch : log[batch[i]].ep = ep => log[batch[i]].kind = "answered"
  PROVE  HandledUpTo(c, batch)[Len(batch)].read[ep] = mem[c].read[ep]
<1> DEFINE after(k) == HandledUpTo(c, batch)[k]
           Fits(k) == Replayed(c, batch, after(k), k) /\ after(k).read[ep] = mem[c].read[ep]
           S == {k \in Nat : k <= Len(batch) => Fits(k)}
<1>1. /\ Len(batch) \in Nat /\ DOMAIN batch = 1..Len(batch)
      /\ \A i, j \in DOMAIN batch : i < j => batch[i] < batch[j]
      /\ \A i \in DOMAIN batch : batch[i] \in Due(c) /\ batch[i] \in 1..Len(log)
  BY BatchOf
<1>2. /\ after(0) = State(mem[c])
      /\ \A k \in 1..Len(batch) : after(k) = Handle(after(k - 1), mem[c].view, log[batch[k]], FALSE)
  BY <1>1, HandledRecursion
<1>3. Types /\ MoreTypes /\ ShowsAlerted(c)
  BY DEF AInv, TInv, IInv, AlertsFit
<1> HIDE DEF after
<1>4. 0 \in S
  <2>1. after(0).read = mem[c].read
    BY <1>2, <1>3, StateHandled
  <2>2. Replayed(c, batch, after(0), 0)
    BY <1>2, ReplayOfNone
  <2> QED BY <2>1, <2>2
<1>5. ASSUME NEW k \in Nat, k \in S PROVE k + 1 \in S
  <2> SUFFICES ASSUME k + 1 <= Len(batch) PROVE Fits(k + 1)
    OBVIOUS
  <2>1. Replayed(c, batch, after(k), k) /\ after(k).read[ep] = mem[c].read[ep]
    BY <1>1, <1>5
  <2>2. Replayed(c, batch, Handle(after(k), mem[c].view, log[batch[k + 1]], FALSE), k + 1)
    BY <1>1, <2>1, ReplayOfOneMore
  <2>3. k + 1 \in 1..Len(batch) /\ k + 1 \in DOMAIN batch
    BY <1>1
  <2>4. (k + 1) - 1 = k
    OBVIOUS
  <2>5. after(k + 1) = Handle(after(k), mem[c].view, log[batch[k + 1]], FALSE)
    BY <1>2, <2>3, <2>4
  <2>6. Handle(after(k), mem[c].view, log[batch[k + 1]], FALSE).read[ep] = after(k).read[ep]
    <3>1. after(k) \in Handlings
      BY <2>1 DEF Replayed
    <3>2. PICK f \in Frames : f = log[batch[k + 1]]
      BY <1>1, <1>3, <2>3, LogLength
    <3>3. f.ep # ep \/ f.kind = "answered"
      BY <2>3, <3>2
    <3>4. Handle(after(k), mem[c].view, f, FALSE).read[ep] = after(k).read[ep]
      BY <3>1, <3>3, HandleReads
    <3> QED BY <3>2, <3>4
  <2> QED BY <2>1, <2>2, <2>5, <2>6
<1>6. Len(batch) \in S
  <2> HIDE DEF S
  <2>1. Nat \subseteq S
    BY <1>4, <1>5, Induction
  <2> QED BY <1>1, <2>1
<1>7. Len(batch) <= Len(batch)
  BY <1>1
<1> QED BY <1>6, <1>7 DEF after

\* A replay that repeats the last question of an open episode, or starts after
\* it.
LEMMA SyncShows ==
  ASSUME AInv, VInv, PInv, NEW c \in Clients, mem[c].batch # None,
         mem[c].batch \in Seq(1..Len(log)), NEW msg, NEW n \in LastOpen,
         \/ \E i \in DOMAIN mem[c].batch : mem[c].batch[i] = n
         \/ /\ Here(c) /\ n <= disk[c].cursor[2]
            /\ \A i \in DOMAIN mem[c].batch : n < mem[c].batch[i]
  PROVE  HandleSync(c, msg).read[log[n].ep] = log[n].q
<1> DEFINE batch == mem[c].batch
           k == Len(batch)
           m == HandledUpTo(c, batch)[k]
           ep == log[n].ep
<1>0. IInv /\ Types
  BY DEF AInv, TInv, IInv
<1>1. n \in 1..Len(log) /\ log[n].kind = "blocked" /\ ep \in Open /\ ep \in Episodes
  BY <1>0, LogLength DEF LastOpen, LastAsked, Asking
<1>2. /\ k \in Nat /\ DOMAIN batch = 1..k
      /\ \A i, j \in DOMAIN batch : i < j => batch[i] < batch[j]
      /\ \A i \in DOMAIN batch : batch[i] \in 1..Len(log)
  BY BatchOf
<1>3. HandleSync(c, msg).read = m.read
  <2> DEFINE b == IF mem[c].batch = None THEN << >> ELSE mem[c].batch
  <2>1. b = batch
    OBVIOUS
  <2>2. HandleSync(c, msg).read = HandledUpTo(c, b)[Len(b)].read
    BY DEF HandleSync
  <2> HIDE DEF b
  <2> QED BY <2>1, <2>2
<1>4. ASSUME NEW i \in DOMAIN batch, batch[i] = n PROVE m.read[ep] = log[n].q
  <2>1. Replayed(c, batch, m, k)
    BY ReplayHandled
  <2>2. ASSUME NEW j \in (i + 1)..k, log[batch[j]].ep = ep PROVE log[batch[j]].kind = "answered"
    <3>1. j \in DOMAIN batch /\ i < j
      BY <1>2, <1>4, <2>2
    <3>2. batch[j] \in 1..Len(log) /\ n < batch[j]
      BY <1>2, <1>4, <3>1
    <3> QED BY <1>0, <2>2, <3>2, OnlyAnswersFollow
  <2>3. OpenUpTo(batch, k, i)
    BY <1>1, <1>4, <2>2 DEF OpenUpTo
  <2>4. ep \in mem[c].view
    <3>1. ShownFirst(c, ep)
      BY <1>1 DEF VInv, ViewFits
    <3>2. AsksOf(mem[c].batch[i], ep)
      BY <1>1, <1>4 DEF AsksOf
    <3> QED BY <1>4, <3>1, <3>2 DEF ShownFirst
  <2>5. i \in 1..k
    BY <1>2, <1>4
  <2> HIDE DEF m, k
  <2> QED BY <1>4, <2>1, <2>3, <2>4, <2>5 DEF Replayed
<1>5. ASSUME Here(c), n <= disk[c].cursor[2], \A i \in DOMAIN batch : n < batch[i]
      PROVE  m.read[ep] = log[n].q
  <2>1. mem[c].read[ep] = log[n].q
    BY <1>5 DEF PInv, PromptsFit, ReadsHandled
  <2>2. \A i \in DOMAIN batch : log[batch[i]].ep = ep => log[batch[i]].kind = "answered"
    BY <1>0, <1>2, <1>5, OnlyAnswersFollow
  <2> HIDE DEF ep
  <2>3. m.read[ep] = mem[c].read[ep]
    BY <1>1, <2>2, ReplayLeavesShown
  <2> QED BY <2>1, <2>3
<1> QED BY <1>3, <1>4, <1>5

LEMMA ReceiveEventPrompts ==
  ASSUME AInv, VInv, PInv, NEW c \in Clients, ReceiveEvent(c)
  PROVE  PInv'
<1> DEFINE msg == Head(wire[c])
           h == Handling(c, msg)
           upto == sub[c].upto
<1>0. IInv /\ Types /\ Len(log) \in Nat
  BY LogLength DEF AInv, TInv, IInv
<1>1. Receives(c, h)
  BY <1>0, ReceiveEventLeaves
<1>2. /\ wire[c] # << >> /\ Handles(c, msg)
      /\ UNCHANGED <<fleet, hub, linkButWire>> /\ wire' = [wire EXCEPT ![c] = Tail(wire[c])]
      /\ mem'[c].read = h.read /\ mem'[c].batch = None
      /\ disk'[c].cursor = h.cursor
      /\ \A d \in Clients \ {c} : mem'[d] = mem[d] /\ disk'[d] = disk[d]
  BY <1>1 DEF Receives
<1>3. h.cursor = <<epoch, msg.seq>>
  BY HandlingSaves
<1>4. upto \in Nat /\ upto <= Len(log) /\ upto <= MaxSeq
  BY <1>0, <1>2, HandledInTurn
<1>5. LastOpen' = LastOpen
  BY <1>2 DEF LastOpen, LastAsked, Blocked, Asking, Open, hub
<1>6. ASSUME NEW n \in LastOpen, n <= msg.seq PROVE h.read[log[n].ep] = log[n].q
  <2>1. n \in 1..Len(log)
    BY DEF LastOpen, LastAsked
  <2>2. CASE msg.type = "event"
    <3>1. /\ disk[c].cursor[2] \in Nat /\ msg = Event(disk[c].cursor[2] + 1)
          /\ disk[c].cursor[2] + 1 <= upto /\ Here(c)
      BY <1>0, <1>2, <2>2, HandledInTurn
    <3>2. PICK s \in 1..Len(log) : s = disk[c].cursor[2] + 1
      BY <1>0, <1>4, <3>1
    <3>3. msg = Event(s) /\ msg.seq = s
      BY <3>1, <3>2 DEF Event
    <3>4. h = HandleLive(c, s)
      BY <2>2, <3>3 DEF Handling
    <3>5. HandleLive(c, s).read[log[n].ep] = log[n].q
      BY <1>2, <1>6, <3>1, <3>2, <3>3, LiveShows
    <3> QED BY <3>4, <3>5
  <2>3. CASE msg.type = "sync"
    <3> DEFINE b == mem[c].batch
    <3>1. /\ b # None
          /\ \E s \in 0..upto, gap \in BOOLEAN :
               /\ msg = Sync(s, gap) /\ ReplayingTo(c, s, gap)
               /\ Batched(c, s) = {k \in 1..s : \E i \in DOMAIN b : b[i] = k}
      BY <1>0, <1>2, <2>3, HandledInTurn
    <3>2. PICK s \in 0..upto, gap \in BOOLEAN :
               /\ msg = Sync(s, gap) /\ ReplayingTo(c, s, gap)
               /\ Batched(c, s) = {k \in 1..s : \E i \in DOMAIN b : b[i] = k}
      BY <3>1
    <3>3. msg.seq = s /\ s \in Nat /\ s \in 0..MaxSeq /\ s <= Len(log)
      BY <1>0, <1>4, <3>2 DEF Sync
    <3>4. /\ \A i \in DOMAIN b : b[i] <= s
          /\ Sync(s, gap) \in Coming(wire[c], Waiting(c))
      BY <3>2 DEF ReplayingTo
    <3>5. b \in Seq(1..MaxSeq)
      BY <1>0, <3>1 DEF Types, Batches
    <3>6. Repeats(c, n, s)
      BY <1>6, <3>1, <3>3, <3>4 DEF PInv, PromptsFit, ReplayIsWhole
    <3> HIDE DEF b
    <3>7. \A i \in DOMAIN b : b[i] \in 1..s /\ b[i] \in 1..Len(log)
      BY <1>0, <3>3, <3>4, <3>5
    <3>8. b \in Seq(1..Len(log))
      BY <3>5, <3>7
    <3>9. \/ \E i \in DOMAIN b : b[i] = n
          \/ /\ Here(c) /\ n <= disk[c].cursor[2]
             /\ \A i \in DOMAIN b : n < b[i]
      <4>1. \A i \in DOMAIN b : b[i] \in Batched(c, s)
        BY <3>2, <3>7
      <4> QED BY <3>2, <3>6, <4>1 DEF Repeats
    <3>10. b = mem[c].batch
      BY DEF b
    <3>11. HandleSync(c, msg).read[log[n].ep] = log[n].q
      <4> HIDE DEF msg
      <4>1. mem[c].batch # None /\ mem[c].batch \in Seq(1..Len(log))
        BY <3>1, <3>8, <3>10
      <4>2. \/ \E i \in DOMAIN mem[c].batch : mem[c].batch[i] = n
            \/ /\ Here(c) /\ n <= disk[c].cursor[2]
               /\ \A i \in DOMAIN mem[c].batch : n < mem[c].batch[i]
        BY <3>9, <3>10
      <4> QED BY <4>1, <4>2, SyncShows
    <3>12. h = HandleSync(c, msg)
      BY <2>3 DEF Handling
    <3> QED BY <3>11, <3>12
  <2> QED BY <1>2, <2>2, <2>3 DEF Handles
<1> HIDE DEF h, msg, upto
<1>7. PromptsFit(c)'
  <2>1. disk'[c].cursor[2] = msg.seq
    BY <1>2, <1>3
  <2>2. ASSUME NEW n \in LastOpen', n <= disk'[c].cursor[2]
        PROVE  mem'[c].read[log'[n].ep] = log'[n].q
    BY <1>2, <1>5, <1>6, <2>1, <2>2 DEF hub
  <2>3. ReadsHandled(c)'
    BY <2>2 DEF ReadsHandled
  <2>4. ReplayIsWhole(c)'
    BY <1>2 DEF ReplayIsWhole
  <2> QED BY <2>3, <2>4 DEF PromptsFit
<1>8. UNCHANGED <<fleet, epoch, log, pump, sub>> /\ \A d \in Clients \ {c} : wire'[d] = wire[d]
  BY <1>0, <1>2 DEF hub, linkButWire, Types
<1> QED BY <1>0, <1>2, <1>7, <1>8, PromptsOfOne

LEMMA InitPrompts ==
  ASSUME Init
  PROVE  PInv
<1> SUFFICES ASSUME NEW c \in Clients PROVE PromptsFit(c)
  BY DEF PInv
<1>1. disk[c].cursor = None /\ mem[c].batch = None
  BY DEF Init, NoMemory, Memory
<1> QED BY <1>1 DEF PromptsFit, ReadsHandled, ReplayIsWhole, Here

\* No watchdog, no kill, lists that are answered and sent in order.
Calm == ~Watchdog /\ ~RuntimeCrash /\ ~AlertCrash /\ ~ListMayFail /\ SnapshotsInOrder

LEMMA StepPrompts ==
  ASSUME Calm, AInv, AInv', VInv, PInv, [Next]_vars
  PROVE  VInv' /\ PInv'
<1>0. IInv /\ IInv' /\ Types'
  BY DEF AInv, TInv, IInv
<1>1. ASSUME Fleet PROVE VInv' /\ PInv'
  BY <1>0, <1>1, BlocksViews, AsksNextViews, AnnounceViews, AnsweredViews, UnblocksViews DEF Fleet
<1>2. ASSUME NEW c \in Clients, Connect(c) PROVE VInv' /\ PInv'
  BY <1>0, <1>2, ConnectViews, ConnectPrompts
<1>3. ASSUME NEW c \in Clients, Bridge(c) PROVE VInv' /\ PInv'
  <2>1. CASE PumpSend(c)
    BY <1>0, <2>1, PumpSendViews, PumpSendPrompts
  <2>2. CASE Register(c)
    BY <1>0, <2>2, RegisterViews, RegisterPrompts
  <2>3. CASE ListPanes(c)
    BY <1>0, <2>3, ListPanesViews, ListPanesPrompts DEF Calm
  <2>4. CASE Subscribe(c)
    BY <1>0, <2>4, SubscribeViews, SubscribePrompts DEF Calm
  <2>5. CASE SendReplay(c)
    BY <1>0, <2>5, SendReplayViews, SendReplayPrompts
  <2>6. CASE CatchUp(c)
    BY <1>0, <2>6, CatchUpViews, CatchUpPrompts
  <2> QED BY <1>3, <2>1, <2>2, <2>3, <2>4, <2>5, <2>6 DEF Bridge
<1>4. ASSUME NEW c \in Clients, Receive(c) PROVE VInv' /\ PInv'
  <2>1. CASE ReceiveSnapshot(c)
    BY <1>0, <2>1, ReceiveSnapshotViews, ReceiveSnapshotPrompts
  <2>2. CASE ReceiveBatched(c)
    BY <1>0, <2>2, ReceiveBatchedViews, ReceiveBatchedPrompts
  <2>3. CASE ReceiveEvent(c)
    BY <1>0, <2>3, ReceiveEventViews, ReceiveEventPrompts
  <2> QED BY <1>4, <2>1, <2>2, <2>3 DEF Receive
<1>5. ASSUME NEW c \in Clients, Fault(c) PROVE VInv' /\ PInv'
  <2>1. ~Resubscribe(c) /\ ~Crash(c) /\ ~CrashAlerting(c)
    BY DEF Resubscribe, Crash, CrashAlerting, Calm
  <2> QED BY <1>0, <1>5, <2>1, DropViews, DropPrompts DEF Fault
<1>6. PumpTake => VInv' /\ PInv'
  BY <1>0, PumpTakeViews, PumpTakePrompts
<1>7. BridgeRestart => VInv' /\ PInv'
  BY <1>0, BridgeRestartViews, BridgeRestartPrompts
<1>8. UNCHANGED vars => VInv' /\ PInv'
  BY <1>0, StandingStillViews, StandingStillPrompts
<1> QED BY <1>1, <1>2, <1>3, <1>4, <1>5, <1>6, <1>7, <1>8 DEF Next

\* An up-to-date runtime handled the last question of every open episode.
LEMMA PromptsShown ==
  ASSUME IInv, PInv
  PROVE  ShowsTheQuestion
<1> SUFFICES ASSUME NEW c \in Clients, UpToDate(c), NEW ep \in Open, Announced(ep) # 0
             PROVE  mem[c].read[ep] = Announced(ep)
  BY DEF ShowsTheQuestion
<1> DEFINE asked == {n \in Held(ep) : log[n].kind = "blocked"}
<1>1. asked # {} /\ Announced(ep) = log[CHOOSE n \in asked : TRUE].q
  BY DEF Announced
<1>2. PICK n \in asked : Announced(ep) = log[n].q
  BY <1>1
<1>3. /\ n \in 1..Len(log) /\ log[n].ep = ep /\ log[n].kind = "blocked" /\ Len(log) \in Nat
      /\ \A k \in (n + 1)..Len(log) : log[k].ep = ep => log[k].kind # "blocked"
  BY <1>2, LogLength DEF Held, IInv
<1>4. n \in LastOpen
  <2>1. \A k \in 1..Len(log) : n < k => k \in (n + 1)..Len(log)
    BY <1>3
  <2> QED BY <1>3, <2>1 DEF LastOpen, LastAsked, Asking, Blocked
<1>5. Here(c) /\ n <= disk[c].cursor[2]
  <2>1. disk[c].cursor = <<epoch, Len(log)>>
    BY DEF UpToDate
  <2>2. <<epoch, Len(log)>> \in Cursors
    BY <1>3 DEF IInv, Types, Cursors
  <2>3. disk[c].cursor # None
    BY <2>1, <2>2, NoneAssumption
  <2> QED BY <1>3, <2>1, <2>3 DEF Here
<1> QED BY <1>2, <1>3, <1>4, <1>5 DEF PInv, PromptsFit, ReadsHandled

\* What showing the questions rests on: a runtime is shown an episode before it
\* is asked a question of it, and handled the last question of each open
\* episode up to its cursor, whatever a replay leaves out.
THEOREM PromptsAreInTurn ==
  ASSUME Calm
  PROVE  Spec => [](VInv /\ PInv)
<1>1. Init => VInv /\ PInv
  BY InitViews, InitPrompts
<1>2. AInv /\ AInv' /\ VInv /\ PInv /\ [Next]_vars => VInv' /\ PInv'
  BY StepPrompts
<1>3. Spec => []AInv
  BY AlertsAreInTurn DEF Calm, AlertCrashIsSafe
<1> QED BY <1>1, <1>2, <1>3, PTL DEF Spec

\* A runtime that handled everything the bridge emitted shows the question each
\* blocked pane asks.
THEOREM QuestionsAreShown ==
  ASSUME Calm
  PROVE  Spec => []ShowsTheQuestion
<1>1. AInv /\ PInv => ShowsTheQuestion
  BY PromptsShown DEF AInv, TInv
<1>2. Spec => []AInv
  BY AlertsAreInTurn DEF Calm, AlertCrashIsSafe
<1> QED BY <1>1, <1>2, PromptsAreInTurn, PTL
=============================================================================
