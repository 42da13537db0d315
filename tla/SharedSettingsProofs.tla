------------------------- MODULE SharedSettingsProofs -------------------------
(***************************************************************************)
(* Proofs about SharedSettings, for any runtimes, saves and bounds, of a   *)
(* bridge that can read its settings file: it implements SettingsRegister, *)
(* equal revisions are equal documents, and no revision is above the       *)
(* number of saves.                                                        *)
(***************************************************************************)
EXTENDS SharedSettings, SequenceTheorems, FiniteSetTheorems, TLAPS

\* The types without the bound TypeOK puts on revisions.
Doc == [rev : Nat, doc : Docs]
Edited == [pc : {"idle", "draft", "waiting", "over"}, via : Clients \cup {None},
           base : Doc, code : Codes, rev : Nat]
Msg == [type : {"settings"}, doc : Doc]
  \cup [type : {"result"}, edit : Edits, code : Codes, rev : Nat]

Types ==
  /\ {store, file} \subseteq Doc
  /\ fate \in [Edits -> {"new", "asked", "saved", "refused"}]
  /\ telling \in [Edits -> Clients \cup {None, Orphan}]
  /\ wire \in [Clients -> Seq(Msg)] /\ frames \in [Clients -> Seq(Msg)]
  /\ uplink \in [Clients -> Seq(Edits)] /\ left \in [Clients -> Seq(Edits)]
  /\ loop \in [Clients -> Seq(Edits)]
  /\ view \in [Clients -> Doc] /\ cache \in [Clients -> Doc]
  /\ edit \in [Edits -> Edited]

\* Where a save stands for its editor and at the bridge.
Progress ==
  \A e \in Edits :
    /\ fate[e] = "new" <=> edit[e].pc = "idle"
    /\ edit[e].pc # "idle" => edit[e].via \in Clients
    /\ edit[e].pc # "over" => edit[e].code = 0
    /\ edit[e].pc = "over" => edit[e].code # 0
    /\ edit[e].pc = "draft" => fate[e] = "asked"
    /\ edit[e].code = 200 => fate[e] = "saved" /\ edit[e].rev = edit[e].base.rev + 1

Items(s) == {s[i] : i \in DOMAIN s}
Distinct(s) == \A i, j \in DOMAIN s : s[i] = s[j] => i = j

\* The puts of a runtime on their way are asked for, and each is there once.
OnTheWay(c) == Items(loop[c]) \cup Items(uplink[c]) \cup Items(left[c])
Once(c) ==
  /\ Distinct(loop[c]) /\ Distinct(uplink[c]) /\ Distinct(left[c])
  /\ Items(loop[c]) \cap Items(uplink[c]) = {}
  /\ Items(loop[c]) \cap Items(left[c]) = {}
  /\ Items(uplink[c]) \cap Items(left[c]) = {}
Travel ==
  \A c \in Clients :
    /\ Once(c)
    /\ \A e \in OnTheWay(c) : /\ edit[e].via = c
                              /\ fate[e] = "asked"
                              /\ edit[e].pc \in {"waiting", "over"}

\* A document is what a save wrote, at the revision after the one it replaced.
Genuine(d) ==
  d = Unset \/ (d.doc \in Edits /\ fate[d.doc] = "saved" /\ d.rev = edit[d.doc].base.rev + 1)

\* A message tells what happened.
Good(msg) ==
  /\ msg.type = "settings" => Genuine(msg.doc)
  /\ msg.type = "result" =>
       \/ msg.code = 200 /\ fate[msg.edit] = "saved" /\ msg.rev = edit[msg.edit].base.rev + 1
       \/ msg.code \in {409, 422, 502} /\ fate[msg.edit] = "refused"

Truth ==
  /\ \A e \in Edits : Genuine(edit[e].base)
  /\ \A c \in Clients :
       /\ Genuine(view[c]) /\ Genuine(cache[c])
       /\ \A msg \in Items(wire[c]) \cup Items(frames[c]) : Good(msg)

\* The revisions of the saves run up to that of the store, each one once.
History ==
  /\ file = store
  /\ Genuine(store)
  /\ \A e \in Edits : fate[e] = "saved" => edit[e].base.rev < store.rev
  /\ \A e, x \in Edits :
       fate[e] = "saved" /\ fate[x] = "saved" /\ edit[e].base.rev = edit[x].base.rev => e = x

IInv == Types /\ Progress /\ Travel /\ Truth /\ History

USE SettingsAssumption

-----------------------------------------------------------------------------
(* Sequences as queues.                                                    *)

LEMMA ItemsAppend ==
  ASSUME NEW S, NEW s \in Seq(S), NEW x \in S
  PROVE  /\ Append(s, x) \in Seq(S)
         /\ Items(Append(s, x)) = Items(s) \cup {x}
         /\ Distinct(s) /\ x \notin Items(s) => Distinct(Append(s, x))
<1>1. /\ Append(s, x) \in Seq(S)
      /\ Len(Append(s, x)) = Len(s) + 1
      /\ \A i \in 1..Len(s) : Append(s, x)[i] = s[i]
      /\ Append(s, x)[Len(s) + 1] = x
  BY AppendProperties
<1>2. Len(s) \in Nat /\ DOMAIN s = 1..Len(s) /\ DOMAIN Append(s, x) = 1..(Len(s) + 1)
  BY <1>1, LenProperties
<1>3. Items(Append(s, x)) = Items(s) \cup {x}
  BY <1>1, <1>2 DEF Items
<1>4. Distinct(s) /\ x \notin Items(s) => Distinct(Append(s, x))
  BY <1>1, <1>2 DEF Items, Distinct
<1> QED BY <1>1, <1>3, <1>4

LEMMA ItemsTail ==
  ASSUME NEW S, NEW s \in Seq(S), s # << >>
  PROVE  /\ Head(s) \in S /\ Tail(s) \in Seq(S)
         /\ Head(s) \in Items(s)
         /\ Items(Tail(s)) \subseteq Items(s)
         /\ Distinct(s) => Distinct(Tail(s)) /\ Head(s) \notin Items(Tail(s))
<1>1. /\ Head(s) \in S /\ Tail(s) \in Seq(S)
      /\ Len(Tail(s)) = Len(s) - 1
      /\ \A i \in 1..Len(Tail(s)) : Tail(s)[i] = s[i + 1]
  BY HeadTailProperties
<1>2. /\ Len(s) \in Nat \ {0} /\ DOMAIN s = 1..Len(s) /\ DOMAIN Tail(s) = 1..(Len(s) - 1)
      /\ Head(s) = s[1]
  BY <1>1, LenProperties, EmptySeq
<1>3. Head(s) \in Items(s) /\ Items(Tail(s)) \subseteq Items(s)
  BY <1>1, <1>2 DEF Items
<1>4. Distinct(s) => Distinct(Tail(s)) /\ Head(s) \notin Items(Tail(s))
  BY <1>1, <1>2 DEF Items, Distinct
<1> QED BY <1>1, <1>3, <1>4

\* What a handler still takes of a connection that is gone.
LEMMA ItemsPrefix ==
  ASSUME NEW S, NEW s \in Seq(S), NEW t \in Seq(S), NEW n \in 0..Len(t)
  PROVE  /\ s \o SubSeq(t, 1, n) \in Seq(S)
         /\ Items(s \o SubSeq(t, 1, n)) \subseteq Items(s) \cup Items(t)
         /\ Distinct(s) /\ Distinct(t) /\ Items(s) \cap Items(t) = {}
              => Distinct(s \o SubSeq(t, 1, n))
<1> DEFINE u == SubSeq(t, 1, n)
<1>1. Len(t) \in Nat /\ DOMAIN t = 1..Len(t) /\ Len(s) \in Nat /\ DOMAIN s = 1..Len(s)
  BY LenProperties
<1>2. \A i \in 1..n : t[i] \in S
  BY <1>1, ElementOfSeq
<1>3. u \in Seq(S) /\ Len(u) = n /\ \A i \in 1..n : u[i] = t[i]
  BY <1>1, <1>2, SubSeqProperties
<1> HIDE DEF u
<1>4. /\ s \o u \in Seq(S)
      /\ Len(s \o u) = Len(s) + n
      /\ \A i \in 1..(Len(s) + n) : (s \o u)[i] = IF i <= Len(s) THEN s[i] ELSE u[i - Len(s)]
  <2>1. /\ s \o u \in Seq(S)
        /\ Len(s \o u) = Len(s) + Len(u)
        /\ \A i \in 1..Len(s) + Len(u) : (s \o u)[i] = IF i <= Len(s) THEN s[i] ELSE u[i - Len(s)]
    BY <1>3, ConcatProperties, Zenon
  <2> QED BY <1>1, <1>3, <2>1
<1>5. DOMAIN (s \o u) = 1..(Len(s) + n)
  BY <1>4, LenProperties
<1>6. \A i \in 1..(Len(s) + n) :
        \/ i \in 1..Len(s) /\ (s \o u)[i] = s[i]
        \/ i - Len(s) \in 1..Len(t) /\ (s \o u)[i] = t[i - Len(s)]
  BY <1>1, <1>3, <1>4
<1>7. Items(s \o u) \subseteq Items(s) \cup Items(t)
  BY <1>1, <1>5, <1>6 DEF Items
<1>8. ASSUME Distinct(s), Distinct(t), Items(s) \cap Items(t) = {} PROVE Distinct(s \o u)
  <2>1. \A i \in 1..Len(s), j \in 1..Len(t) : s[i] # t[j]
    BY <1>1, <1>8 DEF Items
  <2>2. ASSUME NEW i \in 1..(Len(s) + n), NEW j \in 1..(Len(s) + n), (s \o u)[i] = (s \o u)[j]
        PROVE  i = j
    <3>1. CASE i \in 1..Len(s) /\ j \in 1..Len(s)
      BY <1>1, <1>4, <1>8, <2>2, <3>1 DEF Distinct
    <3>2. CASE i \notin 1..Len(s) /\ j \notin 1..Len(s)
      <4>1. i - Len(s) \in DOMAIN t /\ j - Len(s) \in DOMAIN t /\ t[i - Len(s)] = t[j - Len(s)]
        BY <1>1, <1>6, <2>2, <3>2
      <4>2. i - Len(s) = j - Len(s)
        BY <1>8, <4>1 DEF Distinct
      <4> QED BY <1>1, <4>2
    <3>3. CASE i \in 1..Len(s) /\ j \notin 1..Len(s)
      <4>1. (s \o u)[i] = s[i]
        BY <1>1, <1>4, <2>2, <3>3
      <4>2. j - Len(s) \in 1..Len(t) /\ (s \o u)[j] = t[j - Len(s)]
        BY <1>1, <1>6, <2>2, <3>3
      <4> QED BY <2>1, <2>2, <3>3, <4>1, <4>2
    <3>4. CASE i \notin 1..Len(s) /\ j \in 1..Len(s)
      <4>1. (s \o u)[j] = s[j]
        BY <1>1, <1>4, <2>2, <3>4
      <4>2. i - Len(s) \in 1..Len(t) /\ (s \o u)[i] = t[i - Len(s)]
        BY <1>1, <1>6, <2>2, <3>4
      <4> QED BY <2>1, <2>2, <3>4, <4>1, <4>2
    <3> QED BY <3>1, <3>2, <3>3, <3>4
  <2> QED BY <1>5, <2>2 DEF Distinct
<1> QED BY <1>4, <1>7, <1>8 DEF u

LEMMA ItemsEmpty == Items(<< >>) = {} /\ Distinct(<< >>)
  BY DEF Items, Distinct

-----------------------------------------------------------------------------
(* What steps have in common.                                              *)

LEMMA MessageTypes ==
  /\ \A d \in Doc : /\ SettingsFrame(d) \in Msg
                     /\ SettingsFrame(d).type = "settings" /\ SettingsFrame(d).doc = d
  /\ \A e \in Edits, code \in Codes, rev \in Nat :
       /\ Result(e, code, rev) \in Msg
       /\ Result(e, code, rev).type = "result" /\ Result(e, code, rev).edit = e
       /\ Result(e, code, rev).code = code /\ Result(e, code, rev).rev = rev
  /\ \A msg \in Msg : \/ /\ msg.type = "settings" /\ msg.doc \in Doc
                       \/ /\ msg.type = "result" /\ msg.edit \in Edits
                          /\ msg.code \in Codes /\ msg.rev \in Nat
  BY DEF SettingsFrame, Result, Msg

LEMMA DocTypes ==
  /\ Unset \in Doc
  /\ \A rev \in Nat, d \in Docs : /\ Document(rev, d) \in Doc
                                /\ Document(rev, d).rev = rev /\ Document(rev, d).doc = d
  BY DEF Unset, Document, Doc, Docs

\* Editors that do not start a draft: a draft is handed over, a request ends.
MoveOn ==
  /\ UNCHANGED fate
  /\ edit' \in [Edits -> Edited]
  /\ \A x \in Edits :
       /\ edit'[x].base = edit[x].base /\ edit'[x].via = edit[x].via
       /\ \/ edit'[x] = edit[x]
          \/ /\ edit[x].pc = "draft" /\ edit'[x].pc = "waiting"
             /\ edit'[x].code = edit[x].code
          \/ /\ edit[x].pc \in {"draft", "waiting"} /\ edit'[x].pc = "over"
             /\ edit'[x].code # 0
             /\ edit'[x].code = 200 => fate[x] = "saved" /\ edit'[x].rev = edit[x].base.rev + 1

\* What was decided stays decided.
Settled ==
  \A e \in Edits : fate[e] \in {"saved", "refused"} =>
    fate'[e] = fate[e] /\ edit'[e].base = edit[e].base

LEMMA MoveOnProgress ==
  ASSUME Types, Progress, MoveOn
  PROVE  Progress' /\ Settled
  BY DEF Types, Edited, Progress, MoveOn, Settled

LEMMA Unmoved ==
  ASSUME Types, UNCHANGED <<fate, edit>>
  PROVE  MoveOn
  BY DEF Types, MoveOn

LEMMA SettledTruth ==
  ASSUME Types, Settled
  PROVE  /\ \A d \in Doc : Genuine(d) => Genuine(d)'
         /\ \A msg \in Msg : Good(msg) => Good(msg)'
<1>1. \A d \in Doc : Genuine(d) => Genuine(d)'
  BY DEF Types, Settled, Genuine
<1>2. \A msg \in Msg : Good(msg) => Good(msg)'
  BY <1>1, MessageTypes DEF Types, Settled, Good
<1> QED BY <1>1, <1>2

LEMMA WayOfEdits ==
  ASSUME Types, NEW c \in Clients
  PROVE  OnTheWay(c) \subseteq Edits
<1>1. /\ loop[c] \in Seq(Edits) /\ uplink[c] \in Seq(Edits) /\ left[c] \in Seq(Edits)
  BY DEF Types
<1>2. \A s \in Seq(Edits) : Items(s) \subseteq Edits
  BY LenProperties, ElementOfSeq DEF Items
<1> QED BY <1>1, <1>2 DEF OnTheWay

LEMMA MessagesTyped ==
  ASSUME Types, NEW c \in Clients
  PROVE  \A msg \in Items(wire[c]) \cup Items(frames[c]) : msg \in Msg
<1>1. wire[c] \in Seq(Msg) /\ frames[c] \in Seq(Msg)
  BY DEF Types
<1>2. \A s \in Seq(Msg) : Items(s) \subseteq Msg
  BY LenProperties, ElementOfSeq DEF Items
<1> QED BY <1>1, <1>2

LEMMA TravelKept ==
  ASSUME Types, Travel, MoveOn,
         \A c \in Clients : Once(c)' /\ OnTheWay(c)' \subseteq OnTheWay(c)
  PROVE  Travel'
<1> SUFFICES ASSUME NEW c \in Clients, NEW e \in OnTheWay(c)'
             PROVE  (edit[e].via = c /\ fate[e] = "asked" /\ edit[e].pc \in {"waiting", "over"})'
  BY DEF Travel
<1>1. e \in OnTheWay(c)
  OBVIOUS
<1>2. e \in Edits /\ edit[e].via = c /\ fate[e] = "asked" /\ edit[e].pc \in {"waiting", "over"}
  BY <1>1, WayOfEdits DEF Travel
<1>3. fate'[e] = "asked" /\ edit'[e].via = c /\ edit'[e].pc \in {"waiting", "over"}
  BY <1>2 DEF MoveOn
<1> QED BY <1>3

LEMMA QueuesKept ==
  ASSUME UNCHANGED <<loop, uplink, left>>, Travel
  PROVE  \A c \in Clients : Once(c)' /\ OnTheWay(c)' \subseteq OnTheWay(c)
<1> SUFFICES ASSUME NEW c \in Clients
             PROVE  Once(c)' /\ OnTheWay(c)' \subseteq OnTheWay(c)
  OBVIOUS
<1>1. Once(c)
  BY DEF Travel
<1>2. Once(c)'
  BY <1>1, Zenon DEF Once
<1>3. OnTheWay(c)' = OnTheWay(c)
  BY Zenon DEF OnTheWay
<1> QED BY <1>2, <1>3

\* A step of messages alone: every document and message was there before, is
\* the store's, or is told truly.
LEMMA TruthKept ==
  ASSUME Types, Types', Truth, History, Settled, UNCHANGED <<store, file, fate>>,
         \A e \in Edits : edit'[e].base = edit[e].base,
         \A c \in Clients :
           /\ view'[c] = view[c] \/ Genuine(view'[c])
           /\ cache'[c] = cache[c] \/ Genuine(cache'[c])
           /\ \A msg \in Items(wire[c])' \cup Items(frames[c])' :
                msg \in Items(wire[c]) \cup Items(frames[c]) \/ Good(msg)
  PROVE  Truth' /\ History'
<1>1. /\ \A d \in Doc : Genuine(d) => Genuine(d)'
      /\ \A msg \in Msg : Good(msg) => Good(msg)'
  BY SettledTruth
<1>2. \A e \in Edits : edit[e].base \in Doc
  BY DEF Types, Edited
<1>3. \A e \in Edits : Genuine(edit[e].base)'
  BY <1>1, <1>2 DEF Truth, Genuine
<1>4. ASSUME NEW c \in Clients PROVE Genuine(view[c])' /\ Genuine(cache[c])'
  <2>1. view'[c] \in Doc /\ cache'[c] \in Doc
    BY DEF Types
  <2>2. Genuine(view'[c]) /\ Genuine(cache'[c])
    BY DEF Truth
  <2> QED BY <1>1, <2>1, <2>2 DEF Genuine
<1>5. ASSUME NEW c \in Clients, NEW msg \in (Items(wire[c]) \cup Items(frames[c]))'
      PROVE  Good(msg)'
  <2>1. msg \in Msg
    BY LenProperties, ElementOfSeq DEF Types, Items
  <2>2. Good(msg)
    BY DEF Truth
  <2> QED BY <1>1, <2>1, <2>2
<1>6. Truth'
  BY <1>3, <1>4, <1>5 DEF Truth
<1>7. History'
  BY <1>1 DEF Types, History, Genuine
<1> QED BY <1>6, <1>7

\* A step of messages alone preserves the invariant.
LEMMA MessageStep ==
  ASSUME IInv, Types', UNCHANGED <<store, file, fate, edit, loop, uplink, left>>,
         \A c \in Clients :
           /\ view'[c] = view[c] \/ Genuine(view'[c])
           /\ cache'[c] = cache[c] \/ Genuine(cache'[c])
           /\ \A msg \in Items(wire[c])' \cup Items(frames[c])' :
                msg \in Items(wire[c]) \cup Items(frames[c]) \/ Good(msg)
  PROVE  IInv'
<1>1. MoveOn
  BY Unmoved DEF IInv
<1>2. Progress' /\ Settled
  BY <1>1, MoveOnProgress DEF IInv
<1>3. Travel'
  BY <1>1, TravelKept, QueuesKept DEF IInv
<1>4. Truth' /\ History'
  BY <1>2, TruthKept DEF IInv
<1> QED BY <1>2, <1>3, <1>4 DEF IInv

-----------------------------------------------------------------------------
(* The invariant, step by step.                                            *)

LEMMA InitIInv == Init => IInv
<1> SUFFICES ASSUME Init PROVE IInv
  OBVIOUS
<1>1. Fresh \in Edited /\ Fresh.pc = "idle" /\ Fresh.code = 0 /\ Fresh.base = Unset
  BY DocTypes DEF Fresh, Edited, Codes
<1>2. Types
  BY <1>1, DocTypes DEF Init, Types
<1>3. Progress /\ Travel /\ Truth /\ History
  BY <1>1, ItemsEmpty DEF Init, Progress, Travel, Once, OnTheWay, Truth, History, Genuine
<1> QED BY <1>2, <1>3 DEF IInv

LEMMA ConnectIInv ==
  ASSUME IInv, NEW c \in Clients, Connect(c) \/ Register(c)
  PROVE  IInv'
<1>1. UNCHANGED <<store, file, fate, edit, loop, uplink, left, telling, view, cache, wire, frames>>
  BY DEF Connect, Register, bridge, runtime
<1>2. Types'
  BY <1>1 DEF IInv, Types
<1> QED BY <1>1, <1>2, MessageStep

LEMMA SendFirstIInv ==
  ASSUME IInv, NEW c \in Clients, SendFirst(c)
  PROVE  IInv'
<1>1. SettingsFrame(store) \in Msg /\ Good(SettingsFrame(store))
  BY MessageTypes DEF IInv, Types, History, Good
<1>2. /\ wire'[c] \in Seq(Msg)
      /\ Items(wire'[c]) = Items(wire[c]) \cup {SettingsFrame(store)}
  BY <1>1, ItemsAppend DEF IInv, Types, SendFirst
<1>3. Types'
  BY <1>2 DEF IInv, Types, SendFirst, bridge, runtime
<1>4. \A x \in Clients : x # c => wire'[x] = wire[x]
  BY DEF SendFirst, IInv, Types
<1> QED BY <1>1, <1>2, <1>3, <1>4, MessageStep DEF SendFirst, bridge, runtime

LEMMA BroadcastIInv ==
  ASSUME IInv, NEW e \in Edits, Broadcast(e)
  PROVE  IInv'
<1>1. SettingsFrame(store) \in Msg /\ Good(SettingsFrame(store))
  BY MessageTypes DEF IInv, Types, History, Good
<1>2. \A c \in Clients :
        /\ frames'[c] \in Seq(Msg)
        /\ Items(frames'[c]) \subseteq Items(frames[c]) \cup {SettingsFrame(store)}
  BY <1>1, ItemsAppend DEF IInv, Types, Broadcast, FrameOfStore
<1>3. UNCHANGED <<store, file, fate, edit, loop, uplink, left, wire, view, cache>>
  BY DEF Broadcast, link, runtime
<1>4. frames' \in [Clients -> Seq(Msg)] /\ telling' \in [Edits -> Clients \cup {None, Orphan}]
  BY <1>2 DEF IInv, Types, Broadcast
<1>5. Types'
  BY <1>3, <1>4 DEF IInv, Types
<1>6. ASSUME NEW c \in Clients, NEW msg \in Items(wire[c])' \cup Items(frames[c])'
      PROVE  msg \in Items(wire[c]) \cup Items(frames[c]) \/ Good(msg)
  BY <1>1, <1>2, <1>3
<1> QED BY <1>3, <1>5, <1>6, MessageStep

LEMMA SendFrameIInv ==
  ASSUME IInv, NEW c \in Clients, SendFrame(c)
  PROVE  IInv'
<1>1. /\ Head(frames[c]) \in Msg /\ Head(frames[c]) \in Items(frames[c])
      /\ Tail(frames[c]) \in Seq(Msg) /\ Items(Tail(frames[c])) \subseteq Items(frames[c])
  BY ItemsTail DEF IInv, Types, SendFrame
<1>2. /\ Append(wire[c], Head(frames[c])) \in Seq(Msg)
      /\ Items(Append(wire[c], Head(frames[c]))) = Items(wire[c]) \cup {Head(frames[c])}
  BY <1>1, ItemsAppend DEF IInv, Types
<1>3. UNCHANGED <<store, file, fate, edit, loop, uplink, left, telling, view, cache>>
  BY DEF SendFrame, runtime
<1>4. \A x \in Clients :
        /\ wire'[x] = IF x = c THEN Append(wire[c], Head(frames[c])) ELSE wire[x]
        /\ frames'[x] = IF x = c THEN Tail(frames[c]) ELSE frames[x]
  BY DEF SendFrame, IInv, Types
<1>5. wire' \in [Clients -> Seq(Msg)] /\ frames' \in [Clients -> Seq(Msg)]
  BY <1>1, <1>2 DEF IInv, Types, SendFrame
<1>6. Types'
  BY <1>3, <1>5 DEF IInv, Types
<1>7. ASSUME NEW x \in Clients, NEW msg \in Items(wire[x])' \cup Items(frames[x])'
      PROVE  msg \in Items(wire[x]) \cup Items(frames[x])
  BY <1>1, <1>2, <1>4
<1> QED BY <1>3, <1>6, <1>7, MessageStep

LEMMA ReceiveSettingsIInv ==
  ASSUME IInv, NEW c \in Clients, ReceiveSettings(c)
  PROVE  IInv'
<1> DEFINE msg == Head(wire[c])
<1>1. /\ msg \in Msg /\ msg \in Items(wire[c])
      /\ Tail(wire[c]) \in Seq(Msg) /\ Items(Tail(wire[c])) \subseteq Items(wire[c])
  BY ItemsTail DEF IInv, Types, ReceiveSettings
<1>2. msg.type = "settings" /\ msg.doc \in Doc /\ Genuine(msg.doc)
  BY <1>1, MessageTypes DEF IInv, Truth, Good, ReceiveSettings
<1>3. /\ wire' = [wire EXCEPT ![c] = Tail(@)]
      /\ view' = [view EXCEPT ![c] = msg.doc]
      /\ cache' = [cache EXCEPT ![c] = msg.doc] \/ UNCHANGED cache
      /\ UNCHANGED <<bridge, uplink, left, loop, edit>>
  BY DEF ReceiveSettings
<1> HIDE DEF msg
<1>4. Types'
  BY <1>1, <1>2, <1>3 DEF IInv, Types, bridge
<1>5. \A x \in Clients :
        /\ Items(wire'[x]) \subseteq Items(wire[x])
        /\ view'[x] \in {view[x], msg.doc} /\ cache'[x] \in {cache[x], msg.doc}
  BY <1>1, <1>3 DEF IInv, Types
<1> QED BY <1>2, <1>3, <1>4, <1>5, MessageStep DEF bridge

-----------------------------------------------------------------------------
(* Editors that move on.                                                   *)

\* A record that ends, with and without a revision.
OverAt(r, code, rev) == [r EXCEPT !.pc = "over", !.code = code, !.rev = rev]
Over(r, code) == [r EXCEPT !.pc = "over", !.code = code]

LEMMA EditedEnds ==
  ASSUME NEW r \in Edited, NEW code \in Codes, NEW rev \in Nat
  PROVE  /\ OverAt(r, code, rev) \in Edited
         /\ OverAt(r, code, rev).base = r.base /\ OverAt(r, code, rev).via = r.via
         /\ OverAt(r, code, rev).pc = "over"
         /\ OverAt(r, code, rev).code = code /\ OverAt(r, code, rev).rev = rev
  BY DEF Edited, OverAt

WaitingOn(r) == [r EXCEPT !.pc = "waiting"]

LEMMA EditedWaits ==
  ASSUME NEW r \in Edited
  PROVE  /\ WaitingOn(r) \in Edited /\ WaitingOn(r).pc = "waiting"
         /\ WaitingOn(r).base = r.base /\ WaitingOn(r).via = r.via /\ WaitingOn(r).code = r.code
  BY DEF Edited, WaitingOn

LEMMA EndedIs ==
  ASSUME Types, NEW e \in Edits, NEW code \in Codes, NEW rev \in Nat
  PROVE  /\ Ended(e, code, rev) \in [Edits -> Edited]
         /\ \A x \in Edits : /\ Ended(e, code, rev)[x].base = edit[x].base
                             /\ Ended(e, code, rev)[x].via = edit[x].via
                             /\ x # e => Ended(e, code, rev)[x] = edit[x]
         /\ Ended(e, code, rev)[e].pc = "over"
         /\ Ended(e, code, rev)[e].code = code /\ Ended(e, code, rev)[e].rev = rev
<1> DEFINE over == OverAt(edit[e], code, rev)
<1>1. edit \in [Edits -> Edited] /\ edit[e] \in Edited
  BY DEF Types
<1>2. /\ over \in Edited /\ over.base = edit[e].base /\ over.via = edit[e].via
      /\ over.pc = "over" /\ over.code = code /\ over.rev = rev
  BY <1>1, EditedEnds
<1>3. Ended(e, code, rev) = [edit EXCEPT ![e] = over]
  BY Zenon DEF Ended, OverAt
<1> HIDE DEF over
<1> QED BY <1>1, <1>2, <1>3

\* A request that ends with the truth moves on.
LEMMA EndedMoves ==
  ASSUME Types, NEW e \in Edits, NEW code \in Codes, NEW rev \in Nat,
         UNCHANGED fate, edit' = Ended(e, code, rev),
         edit[e].pc \in {"draft", "waiting"}, code # 0,
         code = 200 => fate[e] = "saved" /\ rev = edit[e].base.rev + 1
  PROVE  MoveOn
<1> DEFINE new == Ended(e, code, rev)
<1>1. /\ new \in [Edits -> Edited]
      /\ \A x \in Edits : /\ new[x].base = edit[x].base /\ new[x].via = edit[x].via
                          /\ x # e => new[x] = edit[x]
      /\ new[e].pc = "over" /\ new[e].code = code /\ new[e].rev = rev
  BY EndedIs
<1> HIDE DEF new
<1>2. edit' = new
  BY DEF new
<1>3. /\ edit' \in [Edits -> Edited]
      /\ \A x \in Edits : /\ edit'[x].base = edit[x].base /\ edit'[x].via = edit[x].via
                          /\ x # e => edit'[x] = edit[x]
      /\ edit'[e].pc = "over" /\ edit'[e].code = code /\ edit'[e].rev = rev
  BY <1>1, <1>2, Zenon
<1> QED BY <1>3 DEF MoveOn

LEMMA EditedOver ==
  ASSUME NEW r \in Edited, NEW code \in Codes
  PROVE  /\ Over(r, code) \in Edited
         /\ Over(r, code).base = r.base /\ Over(r, code).via = r.via
         /\ Over(r, code).pc = "over" /\ Over(r, code).code = code
  BY DEF Edited, Over

LEMMA FailedOverMoves ==
  ASSUME Types, NEW some \in SUBSET Clients, NEW code \in {500, 503},
         UNCHANGED fate, edit' = FailedOver(some, code)
  PROVE  MoveOn
<1> DEFINE over(x) == Over(edit[x], code)
           fails(x) == edit[x].pc = "waiting" /\ edit[x].via \in some
<1>1. \A x \in Edits : edit'[x] = IF fails(x) THEN over(x) ELSE edit[x]
  BY Zenon DEF FailedOver, Over
<1>2. \A x \in Edits : edit[x] \in Edited
  BY DEF Types
<1>3. \A x \in Edits : /\ over(x) \in Edited
                       /\ over(x).base = edit[x].base /\ over(x).via = edit[x].via
                       /\ over(x).pc = "over" /\ over(x).code = code
  <2> SUFFICES ASSUME NEW x \in Edits
               PROVE  /\ over(x) \in Edited
                      /\ over(x).base = edit[x].base /\ over(x).via = edit[x].via
                      /\ over(x).pc = "over" /\ over(x).code = code
    OBVIOUS
  <2>1. code \in Codes
    BY DEF Codes
  <2> QED BY <1>2, <2>1, EditedOver
<1>4. edit' = [x \in Edits |-> IF fails(x) THEN over(x) ELSE edit[x]]
  BY Zenon DEF FailedOver, Over
<1>5. \A x \in Edits : fails(x) => edit[x].pc = "waiting"
  OBVIOUS
<1> HIDE DEF over, fails
<1>6. edit' \in [Edits -> Edited]
  BY <1>2, <1>3, <1>4
<1>7. ASSUME NEW x \in Edits
      PROVE  /\ edit'[x].base = edit[x].base /\ edit'[x].via = edit[x].via
             /\ \/ edit'[x] = edit[x]
                \/ edit[x].pc = "waiting" /\ edit'[x].pc = "over" /\ edit'[x].code = code
  <2>1. CASE fails(x)
    <3>1. edit'[x] = over(x)
      BY <1>1, <2>1
    <3> QED BY <1>3, <1>5, <2>1, <3>1
  <2>2. CASE ~fails(x)
    <3>1. edit'[x] = edit[x]
      BY <1>1, <2>2
    <3> QED BY <3>1
  <2> QED BY <2>1, <2>2
<1> QED BY <1>6, <1>7 DEF MoveOn

\* A step of the editors and the queues: no document and no message is new.
LEMMA EditorStep ==
  ASSUME IInv, Types', MoveOn, UNCHANGED <<store, file>>,
         \A c \in Clients :
           /\ Once(c)' /\ OnTheWay(c)' \subseteq OnTheWay(c)
           /\ view'[c] \in {view[c], cache[c]} /\ cache'[c] = cache[c]
           /\ Items(wire[c])' \subseteq Items(wire[c])
           /\ Items(frames[c])' \subseteq Items(frames[c])
  PROVE  IInv'
<1>1. Progress' /\ Settled
  BY MoveOnProgress DEF IInv
<1>2. Travel'
  BY TravelKept DEF IInv
<1>3. UNCHANGED <<store, file, fate>> /\ \A e \in Edits : edit'[e].base = edit[e].base
  BY DEF MoveOn
<1>4. \A c \in Clients : view'[c] = view[c] \/ Genuine(view'[c])
  BY DEF IInv, Truth
<1>5. Truth' /\ History'
  BY <1>1, <1>3, <1>4, TruthKept DEF IInv
<1> QED BY <1>1, <1>2, <1>5 DEF IInv

LEMMA TimeOutIInv ==
  ASSUME IInv, NEW e \in Edits, TimeOut(e)
  PROVE  IInv'
<1>1. /\ UNCHANGED <<store, file, fate, telling, frames, wire, uplink, left, view, cache, loop>>
      /\ edit[e].pc = "waiting" /\ edit' = Ended(e, 504, 0)
  BY DEF TimeOut, bridge, link
<1>2. MoveOn
  BY <1>1, EndedMoves DEF IInv, Codes
<1>3. Types'
  BY <1>1, <1>2 DEF IInv, Types, MoveOn
<1>4. \A c \in Clients : Once(c)' /\ OnTheWay(c)' \subseteq OnTheWay(c)
  BY <1>1, QueuesKept DEF IInv
<1> QED BY <1>1, <1>2, <1>3, <1>4, EditorStep

LEMMA ReceiveResultIInv ==
  ASSUME IInv, NEW c \in Clients, ReceiveResult(c)
  PROVE  IInv'
<1> DEFINE msg == Head(wire[c])
<1>1. /\ msg \in Msg /\ msg \in Items(wire[c])
      /\ Tail(wire[c]) \in Seq(Msg) /\ Items(Tail(wire[c])) \subseteq Items(wire[c])
  BY ItemsTail DEF IInv, Types, ReceiveResult
<1>2. /\ msg.type = "result" /\ Good(msg)
      /\ msg.edit \in Edits /\ msg.code \in Codes /\ msg.rev \in Nat
  BY <1>1, MessageTypes DEF IInv, Truth, ReceiveResult
<1>3. /\ wire' = [wire EXCEPT ![c] = Tail(@)]
      /\ edit' = IF edit[msg.edit].pc = "waiting" THEN Ended(msg.edit, msg.code, msg.rev) ELSE edit
      /\ UNCHANGED <<store, file, fate, telling, frames, uplink, left, view, cache, loop>>
  BY DEF ReceiveResult, bridge
<1> HIDE DEF msg
<1>4. MoveOn
  <2>1. CASE edit[msg.edit].pc = "waiting"
    BY <1>2, <1>3, <2>1, EndedMoves DEF IInv, Good
  <2>2. CASE edit[msg.edit].pc # "waiting"
    BY <1>3, <2>2, Unmoved DEF IInv
  <2> QED BY <2>1, <2>2
<1>5. Types'
  BY <1>1, <1>3, <1>4 DEF IInv, Types, MoveOn
<1>6. \A x \in Clients : Items(wire'[x]) \subseteq Items(wire[x])
  BY <1>1, <1>3 DEF IInv, Types
<1>7. \A x \in Clients : Once(x)' /\ OnTheWay(x)' \subseteq OnTheWay(x)
  BY <1>3, QueuesKept DEF IInv
<1> QED BY <1>3, <1>4, <1>5, <1>6, <1>7, EditorStep

LEMMA PostIInv ==
  ASSUME IInv, NEW e \in Edits, Post(e)
  PROVE  IInv'
<1>1. /\ UNCHANGED <<store, file, fate, telling, frames, wire, uplink, left, view, cache>>
      /\ edit[e].pc = "draft"
  BY DEF Post, bridge, link
<1>2. CASE edit' = Ended(e, 503, 0) /\ UNCHANGED loop
  <2>1. MoveOn
    BY <1>1, <1>2, EndedMoves DEF IInv, Codes
  <2>2. Types'
    BY <1>1, <1>2, <2>1 DEF IInv, Types, MoveOn
  <2>3. \A c \in Clients : Once(c)' /\ OnTheWay(c)' \subseteq OnTheWay(c)
    BY <1>1, <1>2, QueuesKept DEF IInv
  <2> QED BY <1>1, <2>1, <2>2, <2>3, EditorStep
<1>3. CASE /\ edit' = [edit EXCEPT ![e].pc = "waiting"]
           /\ loop' = [loop EXCEPT ![edit[e].via] = Append(@, e)]
  <2> DEFINE c == edit[e].via
  <2>1. c \in Clients /\ fate[e] = "asked"
    BY <1>1 DEF IInv, Progress
  <2>2. \A x \in Clients : e \notin OnTheWay(x)
    BY <1>1 DEF IInv, Travel
  <2>3. /\ Append(loop[c], e) \in Seq(Edits)
        /\ Items(Append(loop[c], e)) = Items(loop[c]) \cup {e}
        /\ Distinct(loop[c]) /\ e \notin Items(loop[c]) => Distinct(Append(loop[c], e))
    BY <2>1, ItemsAppend DEF IInv, Types
  <2>4. \A x \in Clients : loop'[x] = IF x = c THEN Append(loop[c], e) ELSE loop[x]
    BY <1>3, <2>1 DEF IInv, Types
  <2>5. /\ edit' \in [Edits -> Edited]
        /\ \A x \in Edits : x # e => edit'[x] = edit[x]
        /\ edit'[e].pc = "waiting" /\ edit'[e].base = edit[e].base
        /\ edit'[e].via = c /\ edit'[e].code = edit[e].code
    <3>1. edit \in [Edits -> Edited]
      BY DEF IInv, Types
    <3>2. edit' = [edit EXCEPT ![e] = WaitingOn(edit[e])]
      BY <1>3, Zenon DEF WaitingOn
    <3> QED BY <3>1, <3>2, EditedWaits
  <2>6. loop' \in [Clients -> Seq(Edits)]
    BY <1>3, <2>1, <2>3 DEF IInv, Types
  <2>7. Types'
    BY <1>1, <2>5, <2>6 DEF IInv, Types
  <2>8. MoveOn
    BY <1>1, <2>5 DEF MoveOn
  <2>9. Progress' /\ Settled
    BY <2>8, MoveOnProgress DEF IInv
  <2> HIDE DEF c
  <2>10. ASSUME NEW x \in Clients
         PROVE  Once(x)' /\ OnTheWay(x)' \subseteq OnTheWay(x) \cup (IF x = c THEN {e} ELSE {})
    <3>1. Once(x) /\ e \notin Items(loop[x]) \cup Items(uplink[x]) \cup Items(left[x])
      BY <2>2 DEF IInv, Travel, OnTheWay
    <3>2. uplink'[x] = uplink[x] /\ left'[x] = left[x]
      BY <1>1
    <3>3. CASE x = c
      <4>1. loop'[x] = Append(loop[c], e)
        BY <2>4, <3>3
      <4> QED BY <2>3, <3>1, <3>2, <3>3, <4>1 DEF Once, OnTheWay
    <3>4. CASE x # c
      <4>1. loop'[x] = loop[x]
        BY <2>4, <3>4
      <4> QED BY <3>1, <3>2, <4>1 DEF Once, OnTheWay
    <3> QED BY <3>3, <3>4
  <2>11. Travel'
    <3> SUFFICES ASSUME NEW x \in Clients, NEW y \in OnTheWay(x)'
                 PROVE  (edit[y].via = x /\ fate[y] = "asked" /\ edit[y].pc \in {"waiting", "over"})'
      BY <2>10 DEF Travel
    <3>1. CASE y \in OnTheWay(x)
      <4>1. y \in Edits /\ edit[y].via = x /\ fate[y] = "asked" /\ edit[y].pc \in {"waiting", "over"}
        BY <3>1, WayOfEdits DEF IInv, Travel
      <4> QED BY <4>1, <1>1, <2>5
    <3>2. CASE y \notin OnTheWay(x)
      <4>1. x = c /\ y = e
        BY <2>10, <3>2
      <4> QED BY <4>1, <1>1, <2>1, <2>5
    <3> QED BY <3>1, <3>2
  <2>12. Truth' /\ History'
    BY <1>1, <2>5, <2>7, <2>9, TruthKept DEF IInv
  <2> QED BY <2>7, <2>9, <2>11, <2>12 DEF IInv
<1> QED BY <1>2, <1>3 DEF Post

LEMMA SendPutIInv ==
  ASSUME IInv, NEW c \in Clients, SendPut(c)
  PROVE  IInv'
<1> DEFINE e == Head(loop[c])
           up2 == Append(uplink[c], e)
<1>1. /\ e \in Edits /\ e \in Items(loop[c])
      /\ Tail(loop[c]) \in Seq(Edits) /\ Items(Tail(loop[c])) \subseteq Items(loop[c])
      /\ Distinct(loop[c]) => Distinct(Tail(loop[c])) /\ e \notin Items(Tail(loop[c]))
  BY ItemsTail DEF IInv, Types, SendPut
<1> HIDE DEF e
<1>2. /\ up2 \in Seq(Edits) /\ Items(up2) = Items(uplink[c]) \cup {e}
      /\ Distinct(uplink[c]) /\ e \notin Items(uplink[c]) => Distinct(up2)
  BY <1>1, ItemsAppend DEF IInv, Types
<1> HIDE DEF up2
<1>3. UNCHANGED <<store, file, fate, telling, frames, wire, left, view, cache, edit>>
  BY DEF SendPut, bridge
<1>4. \A x \in Clients :
        /\ loop'[x] = IF x = c THEN Tail(loop[c]) ELSE loop[x]
        /\ uplink'[x] = uplink[x] \/ (x = c /\ uplink'[x] = up2)
  BY DEF SendPut, IInv, Types, e, up2
<1>5. loop' \in [Clients -> Seq(Edits)] /\ uplink' \in [Clients -> Seq(Edits)]
  <2>1. loop' \in [Clients -> Seq(Edits)]
    BY <1>1 DEF SendPut, IInv, Types
  <2>2. uplink' = uplink \/ uplink' = [uplink EXCEPT ![c] = up2]
    BY DEF SendPut, IInv, Types, e, up2
  <2>3. uplink' \in [Clients -> Seq(Edits)]
    BY <1>2, <2>2 DEF IInv, Types
  <2> QED BY <2>1, <2>3
<1>6. Types'
  BY <1>3, <1>5 DEF IInv, Types
<1>7. MoveOn
  BY <1>3, Unmoved DEF IInv
<1>8. ASSUME NEW x \in Clients PROVE Once(x)' /\ OnTheWay(x)' \subseteq OnTheWay(x)
  <2>1. Once(x) /\ left'[x] = left[x]
    BY <1>3 DEF IInv, Travel
  <2>2. CASE x = c
    <3>1. loop'[c] = Tail(loop[c]) /\ uplink'[c] \in {uplink[c], up2}
      BY <1>4
    <3> QED BY <1>1, <1>2, <2>1, <2>2, <3>1 DEF Once, OnTheWay
  <2>3. CASE x # c
    <3>1. loop'[x] = loop[x] /\ uplink'[x] = uplink[x]
      BY <1>4, <2>3
    <3> QED BY <2>1, <3>1 DEF Once, OnTheWay
  <2> QED BY <2>2, <2>3
<1> QED BY <1>3, <1>6, <1>7, <1>8, EditorStep

\* A connection that ends takes what is on it; the bridge may keep some puts.
LEMMA LeavesKeeps ==
  ASSUME IInv, NEW c \in Clients, LeavesBridge(c),
         UNCHANGED <<store, file, fate>>, MoveOn,
         loop' = loop \/ loop' = [loop EXCEPT ![c] = << >>],
         view' = view \/ view' = [view EXCEPT ![c] = cache[c]],
         UNCHANGED cache
  PROVE  IInv'
<1>1. PICK n \in 0..Len(uplink[c]) : left' = [left EXCEPT ![c] = @ \o SubSeq(uplink[c], 1, n)]
  BY DEF LeavesBridge
<1> DEFINE kept == left[c] \o SubSeq(uplink[c], 1, n)
<1>2. \A x \in Clients : left[x] \in Seq(Edits) /\ uplink[x] \in Seq(Edits) /\ loop[x] \in Seq(Edits)
  BY DEF IInv, Types
<1>3. /\ kept \in Seq(Edits)
      /\ Items(kept) \subseteq Items(left[c]) \cup Items(uplink[c])
      /\ Distinct(left[c]) /\ Distinct(uplink[c]) /\ Items(left[c]) \cap Items(uplink[c]) = {}
           => Distinct(kept)
  BY <1>2, ItemsPrefix
<1>4. left' = [left EXCEPT ![c] = kept]
  BY <1>1
<1> HIDE DEF kept
<1>5. \A x \in Clients :
        /\ wire'[x] = IF x = c THEN << >> ELSE wire[x]
        /\ uplink'[x] = IF x = c THEN << >> ELSE uplink[x]
        /\ frames'[x] = IF x = c THEN << >> ELSE frames[x]
        /\ left'[x] = IF x = c THEN kept ELSE left[x]
        /\ loop'[x] = loop[x] \/ (x = c /\ loop'[x] = << >>)
        /\ view'[x] \in {view[x], cache[x]}
  <2> SUFFICES ASSUME NEW x \in Clients
               PROVE  /\ wire'[x] = IF x = c THEN << >> ELSE wire[x]
                      /\ uplink'[x] = IF x = c THEN << >> ELSE uplink[x]
                      /\ frames'[x] = IF x = c THEN << >> ELSE frames[x]
                      /\ left'[x] = IF x = c THEN kept ELSE left[x]
                      /\ loop'[x] = loop[x] \/ (x = c /\ loop'[x] = << >>)
                      /\ view'[x] \in {view[x], cache[x]}
    OBVIOUS
  <2>1. /\ wire'[x] = IF x = c THEN << >> ELSE wire[x]
        /\ uplink'[x] = IF x = c THEN << >> ELSE uplink[x]
        /\ frames'[x] = IF x = c THEN << >> ELSE frames[x]
    BY DEF LeavesBridge, Closed, Without
  <2>2. left'[x] = IF x = c THEN kept ELSE left[x]
    BY <1>4 DEF IInv, Types
  <2>3. loop'[x] = loop[x] \/ (x = c /\ loop'[x] = << >>)
    <3>1. loop \in [Clients -> Seq(Edits)]
      BY DEF IInv, Types
    <3>2. CASE loop' = loop
      BY <3>2
    <3>3. CASE loop' = [loop EXCEPT ![c] = << >>]
      BY <3>1, <3>3
    <3> QED BY <3>2, <3>3
  <2>4. view'[x] \in {view[x], cache[x]}
    <3>1. view \in [Clients -> Doc]
      BY DEF IInv, Types
    <3>2. CASE view' = view
      BY <3>2
    <3>3. CASE view' = [view EXCEPT ![c] = cache[c]]
      BY <3>1, <3>3
    <3> QED BY <3>2, <3>3
  <2> QED BY <2>1, <2>2, <2>3, <2>4
<1>6. /\ wire' \in [Clients -> Seq(Msg)] /\ frames' \in [Clients -> Seq(Msg)]
      /\ uplink' \in [Clients -> Seq(Edits)] /\ left' \in [Clients -> Seq(Edits)]
      /\ loop' \in [Clients -> Seq(Edits)] /\ view' \in [Clients -> Doc]
  <2>1. wire' \in [Clients -> Seq(Msg)] /\ frames' \in [Clients -> Seq(Msg)]
    BY EmptySeq DEF LeavesBridge, Closed, Without, IInv, Types
  <2>2. uplink' \in [Clients -> Seq(Edits)]
    BY EmptySeq DEF LeavesBridge, Closed, Without, IInv, Types
  <2>3. left' \in [Clients -> Seq(Edits)]
    BY <1>3, <1>4 DEF IInv, Types
  <2>4. loop' \in [Clients -> Seq(Edits)]
    <3>1. loop \in [Clients -> Seq(Edits)] /\ << >> \in Seq(Edits)
      BY EmptySeq DEF IInv, Types
    <3>2. CASE loop' = loop
      BY <3>1, <3>2
    <3>3. CASE loop' = [loop EXCEPT ![c] = << >>]
      BY <3>1, <3>3
    <3> QED BY <3>2, <3>3
  <2>5. view' \in [Clients -> Doc]
    BY DEF IInv, Types
  <2> QED BY <2>1, <2>2, <2>3, <2>4, <2>5
<1>7. telling' \in [Edits -> Clients \cup {None, Orphan}]
  BY DEF LeavesBridge, Orphaned, IInv, Types
<1>8. edit' \in [Edits -> Edited]
  BY DEF MoveOn
<1>9. Types'
  BY <1>6, <1>7, <1>8 DEF IInv, Types
<1>10. ASSUME NEW x \in Clients
       PROVE  /\ Once(x)' /\ OnTheWay(x)' \subseteq OnTheWay(x)
              /\ Items(wire[x])' \subseteq Items(wire[x])
              /\ Items(frames[x])' \subseteq Items(frames[x])
  <2>1. Once(x)
    BY DEF IInv, Travel
  <2>2. CASE x = c
    <3>1. wire'[c] = << >> /\ uplink'[c] = << >> /\ frames'[c] = << >> /\ left'[c] = kept
      BY <1>5
    <3>2. loop'[c] \in {loop[c], << >>}
      BY <1>5
    <3> QED BY <1>3, <2>1, <2>2, <3>1, <3>2, ItemsEmpty DEF Once, OnTheWay
  <2>3. CASE x # c
    <3>1. /\ wire'[x] = wire[x] /\ uplink'[x] = uplink[x] /\ frames'[x] = frames[x]
          /\ left'[x] = left[x] /\ loop'[x] = loop[x]
      BY <1>5, <2>3
    <3> QED BY <2>1, <3>1 DEF Once, OnTheWay
  <2> QED BY <2>2, <2>3
<1>11. \A x \in Clients : view'[x] \in {view[x], cache[x]} /\ cache'[x] = cache[x]
  BY <1>5
<1> QED BY <1>9, <1>10, <1>11, EditorStep

LEMMA FaultIInv ==
  ASSUME IInv, NEW c \in Clients, Drop(c) \/ RestartRuntime(c)
  PROVE  IInv'
<1>1. /\ LeavesBridge(c) /\ UNCHANGED <<store, file, fate, cache>>
      /\ loop' = loop \/ loop' = [loop EXCEPT ![c] = << >>]
      /\ view' = view \/ view' = [view EXCEPT ![c] = cache[c]]
      /\ edit' = FailedOver({c}, 503) \/ edit' = FailedOver({c}, 500)
  BY DEF Drop, RestartRuntime
<1>2. MoveOn
  BY <1>1, FailedOverMoves DEF IInv
<1> QED BY <1>1, <1>2, LeavesKeeps

LEMMA StopIInv ==
  ASSUME IInv, Stop
  PROVE  IInv'
<1>1. UNCHANGED <<store, file, fate, view, cache, loop>> /\ edit' = FailedOver(Clients, 503)
  BY DEF Stop
<1>2. MoveOn
  BY <1>1, FailedOverMoves DEF IInv
<1>3. \A x \in Clients :
        /\ wire'[x] = << >> /\ uplink'[x] = << >> /\ frames'[x] = << >> /\ left'[x] = << >>
        /\ loop'[x] = loop[x]
  BY <1>1 DEF Stop, Closed, Without
<1>4. /\ wire' \in [Clients -> Seq(Msg)] /\ frames' \in [Clients -> Seq(Msg)]
      /\ uplink' \in [Clients -> Seq(Edits)] /\ left' \in [Clients -> Seq(Edits)]
      /\ telling' \in [Edits -> Clients \cup {None, Orphan}]
  BY EmptySeq DEF Stop, Closed, Without
<1>5. edit' \in [Edits -> Edited]
  BY <1>2 DEF MoveOn
<1>6. Types'
  BY <1>1, <1>4, <1>5 DEF IInv, Types
<1>7. ASSUME NEW x \in Clients
      PROVE  /\ Once(x)' /\ OnTheWay(x)' \subseteq OnTheWay(x)
             /\ Items(wire[x])' \subseteq Items(wire[x])
             /\ Items(frames[x])' \subseteq Items(frames[x])
  <2>1. Once(x)
    BY DEF IInv, Travel
  <2> QED BY <1>3, <2>1, ItemsEmpty DEF Once, OnTheWay
<1> QED BY <1>1, <1>2, <1>6, <1>7, EditorStep

\* Here the file has to be readable.
LEMMA StartIInv ==
  ASSUME IInv, ~FileMayFail, Start
  PROVE  IInv'
<1>1. UNCHANGED <<store, file, fate, telling, frames, wire, uplink, left, view, cache, loop, edit>>
  BY DEF Start, IInv, History, link, runtime
<1>2. Types'
  BY <1>1 DEF IInv, Types
<1> QED BY <1>1, <1>2, MessageStep

LEMMA ConfirmedGenuine ==
  ASSUME IInv, NEW c, NEW d \in Confirmed(c)
  PROVE  d \in Doc /\ Genuine(d)
<1>1. PICK e \in Edits : edit[e].code = 200 /\ d = Document(edit[e].rev, e)
  BY DEF Confirmed
<1>2. edit[e].rev \in Nat /\ e \in Docs
  BY DEF IInv, Types, Edited, Docs
<1>3. d \in Doc /\ d.rev = edit[e].rev /\ d.doc = e
  BY <1>1, <1>2, DocTypes
<1>4. fate[e] = "saved" /\ edit[e].rev = edit[e].base.rev + 1
  BY <1>1 DEF IInv, Progress
<1> QED BY <1>3, <1>4 DEF Genuine

\* What a draft starts from is genuine: the view or a save that was confirmed.
LEMMA BasesGenuine ==
  ASSUME IInv, NEW c \in Clients, NEW base \in Bases(c)
  PROVE  base \in Doc /\ Genuine(base)
<1>1. CASE base = view[c]
  BY <1>1 DEF IInv, Types, Truth
<1>2. CASE base \in Confirmed(c)
  BY <1>2, ConfirmedGenuine
<1> QED BY <1>1, <1>2 DEF Bases

LEMMA DraftIInv ==
  ASSUME IInv, NEW e \in Edits, NEW c \in Clients, Draft(e, c)
  PROVE  IInv'
<1>1. PICK base \in Bases(c) :
        edit' = [edit EXCEPT ![e] = [Fresh EXCEPT !.pc = "draft", !.via = c, !.base = base]]
  BY DEF Draft
<1> DEFINE draft == [Fresh EXCEPT !.pc = "draft", !.via = c, !.base = base]
<1>2. base \in Doc /\ Genuine(base)
  BY BasesGenuine
<1>3. /\ draft \in Edited /\ draft.pc = "draft" /\ draft.via = c
      /\ draft.base = base /\ draft.code = 0
  BY <1>2, DocTypes DEF Fresh, Edited, Codes
<1>4. edit' = [edit EXCEPT ![e] = draft]
  BY <1>1
<1> HIDE DEF draft
<1>5. /\ fate' = [fate EXCEPT ![e] = "asked"]
      /\ edit[e].pc = "idle" /\ fate[e] = "new"
      /\ UNCHANGED <<store, file, telling, frames, wire, uplink, left, view, cache, loop>>
  BY DEF Draft, link, IInv, Progress
<1>6. /\ edit' \in [Edits -> Edited]
      /\ edit'[e] = draft /\ fate'[e] = "asked"
      /\ \A x \in Edits : x # e => edit'[x] = edit[x] /\ fate'[x] = fate[x]
      /\ fate' \in [Edits -> {"new", "asked", "saved", "refused"}]
  BY <1>3, <1>4, <1>5 DEF IInv, Types
<1>7. Types'
  BY <1>5, <1>6 DEF IInv, Types
<1>8. Progress'
  <2> SUFFICES ASSUME NEW x \in Edits
               PROVE  /\ fate'[x] = "new" <=> edit'[x].pc = "idle"
                      /\ edit'[x].pc # "idle" => edit'[x].via \in Clients
                      /\ edit'[x].pc # "over" => edit'[x].code = 0
                      /\ edit'[x].pc = "over" => edit'[x].code # 0
                      /\ edit'[x].pc = "draft" => fate'[x] = "asked"
                      /\ edit'[x].code = 200 =>
                           fate'[x] = "saved" /\ edit'[x].rev = edit'[x].base.rev + 1
    BY DEF Progress
  <2>1. CASE x = e
    BY <1>3, <1>6, <2>1
  <2>2. CASE x # e
    <3>1. edit'[x] = edit[x] /\ fate'[x] = fate[x]
      BY <1>6, <2>2
    <3> QED BY <3>1 DEF IInv, Progress
  <2> QED BY <2>1, <2>2
<1>9. Settled
  BY <1>5, <1>6 DEF Settled
<1>10. Travel'
  <2>1. \A x \in Clients : Once(x)' /\ OnTheWay(x)' \subseteq OnTheWay(x)
    BY <1>5, QueuesKept DEF IInv
  <2> SUFFICES ASSUME NEW x \in Clients, NEW y \in OnTheWay(x)'
               PROVE  (edit[y].via = x /\ fate[y] = "asked" /\ edit[y].pc \in {"waiting", "over"})'
    BY <2>1 DEF Travel
  <2>2. y \in Edits /\ edit[y].via = x /\ fate[y] = "asked" /\ edit[y].pc \in {"waiting", "over"}
    BY <2>1, WayOfEdits DEF IInv, Travel
  <2>3. y # e
    BY <1>5, <2>2
  <2> QED BY <1>6, <2>2, <2>3
<1>11. /\ \A d \in Doc : Genuine(d) => Genuine(d)'
       /\ \A msg \in Msg : Good(msg) => Good(msg)'
  BY <1>9, SettledTruth DEF IInv
<1>12. Truth'
  <2>1. ASSUME NEW x \in Edits PROVE Genuine(edit[x].base)'
    <3>1. edit'[x].base \in Doc /\ Genuine(edit'[x].base)
      <4>1. CASE x = e
        BY <1>2, <1>3, <1>6, <4>1
      <4>2. CASE x # e
        <5>1. edit'[x] = edit[x]
          BY <1>6, <4>2
        <5> QED BY <5>1 DEF IInv, Types, Edited, Truth
      <4> QED BY <4>1, <4>2
    <3> QED BY <1>11, <3>1 DEF Genuine
  <2>2. ASSUME NEW x \in Clients
        PROVE  /\ Genuine(view[x])' /\ Genuine(cache[x])'
               /\ \A msg \in (Items(wire[x]) \cup Items(frames[x]))' : Good(msg)'
    <3>1. /\ view[x] \in Doc /\ cache[x] \in Doc /\ Genuine(view[x]) /\ Genuine(cache[x])
          /\ \A msg \in Items(wire[x]) \cup Items(frames[x]) : Good(msg)
      BY DEF IInv, Types, Truth
    <3>2. \A msg \in Items(wire[x]) \cup Items(frames[x]) : msg \in Msg
      BY MessagesTyped DEF IInv
    <3>3. Genuine(view[x])' /\ Genuine(cache[x])'
      BY <1>5, <1>11, <3>1 DEF Genuine
    <3>4. Items(wire'[x]) \cup Items(frames'[x]) = Items(wire[x]) \cup Items(frames[x])
      BY <1>5
    <3> QED BY <1>11, <3>1, <3>2, <3>3, <3>4
  <2> QED BY <2>1, <2>2 DEF Truth
<1>13. History'
  <2>1. Genuine(store)'
    BY <1>5, <1>11 DEF IInv, Types, History, Genuine
  <2>2. \A x \in Edits : fate'[x] = "saved" => x # e
    BY <1>6
  <2> QED BY <1>5, <1>6, <2>1, <2>2 DEF IInv, History
<1> QED BY <1>7, <1>8, <1>10, <1>12, <1>13 DEF IInv

\* A put that the bridge takes: what it does apart from its queue.
LEMMA PutStep ==
  ASSUME IInv, Types', NEW c \in Clients, NEW e \in OnTheWay(c), NEW handler, NEW code \in Outcomes(e),
         NEW rev \in Nat, Put(e, handler, code), rev = store'.rev, UNCHANGED <<edit, view, cache>>,
         \A x \in Clients :
           /\ Once(x)' /\ OnTheWay(x)' \subseteq OnTheWay(x) /\ e \notin OnTheWay(x)'
           /\ Items(wire[x])' \subseteq Items(wire[x]) \cup {Result(e, code, rev)}
           /\ Items(frames[x])' \subseteq Items(frames[x])
  PROVE  IInv'
<1>1. /\ e \in Edits /\ fate[e] = "asked" /\ edit[e].pc \in {"waiting", "over"}
      /\ edit[e].code # 200
  BY WayOfEdits DEF IInv, Travel, Progress
<1>2. /\ fate'[e] \in {"saved", "refused"}
      /\ \A x \in Edits : x # e => fate'[x] = fate[x]
      /\ code = 200 <=> fate'[e] = "saved"
      /\ code \in {200, 409, 422, 502}
  BY <1>1 DEF Put, Outcomes, IInv, Types
<1>3. code # 200 => UNCHANGED <<store, file>>
  BY DEF Put
<1>4. code = 200 => /\ store' = Document(store.rev + 1, e) /\ file' = store'
                    /\ edit[e].base.rev = store.rev
  BY DEF Put, Written, Outcomes, Current
<1>5. /\ store \in Doc /\ store.rev \in Nat /\ store' \in Doc /\ store'.rev \in Nat
      /\ Document(store.rev + 1, e).rev = store.rev + 1 /\ Document(store.rev + 1, e).doc = e
  <2>1. store \in Doc /\ store' \in Doc
    BY DEF IInv, Types
  <2>2. \A d \in Doc : d.rev \in Nat
    BY DEF Doc
  <2>3. e \in Docs
    BY <1>1 DEF Docs
  <2> QED BY <2>1, <2>2, <2>3, DocTypes
<1>6. Progress'
  BY <1>1, <1>2 DEF IInv, Progress
<1>7. Settled
  BY <1>1, <1>2 DEF Settled
<1>8. Travel'
  <2> SUFFICES ASSUME NEW x \in Clients, NEW y \in OnTheWay(x)'
               PROVE  (edit[y].via = x /\ fate[y] = "asked" /\ edit[y].pc \in {"waiting", "over"})'
    BY DEF Travel
  <2>1. y \in Edits /\ edit[y].via = x /\ fate[y] = "asked" /\ edit[y].pc \in {"waiting", "over"}
    BY WayOfEdits DEF IInv, Travel
  <2> QED BY <1>2, <2>1
<1>9. /\ \A d \in Doc : Genuine(d) => Genuine(d)'
      /\ \A msg \in Msg : Good(msg) => Good(msg)'
  BY <1>7, SettledTruth DEF IInv
<1>10. Good(Result(e, code, rev))'
  <2> DEFINE reply == Result(e, code, rev)
  <2>1. /\ reply.type = "result" /\ reply.edit = e /\ reply.code = code /\ reply.rev = rev
    BY <1>1, <1>2, <1>5, MessageTypes DEF Codes
  <2> HIDE DEF reply
  <2>2. code = 200 => fate'[e] = "saved" /\ rev = edit'[e].base.rev + 1
    BY <1>2, <1>4, <1>5
  <2>3. code # 200 => code \in {409, 422, 502} /\ fate'[e] = "refused"
    BY <1>2
  <2>4. Good(reply)'
    BY <2>1, <2>2, <2>3 DEF Good
  <2> QED BY <2>4 DEF reply
<1>11. Truth'
  <2>1. \A x \in Edits : Genuine(edit[x].base)'
    BY <1>9 DEF IInv, Types, Edited, Truth, Genuine
  <2>2. ASSUME NEW x \in Clients
        PROVE  /\ Genuine(view[x])' /\ Genuine(cache[x])'
               /\ \A msg \in (Items(wire[x]) \cup Items(frames[x]))' : Good(msg)'
    <3>1. /\ view[x] \in Doc /\ cache[x] \in Doc /\ Genuine(view[x]) /\ Genuine(cache[x])
          /\ \A msg \in Items(wire[x]) \cup Items(frames[x]) : Good(msg)
      BY DEF IInv, Types, Truth
    <3>2. \A msg \in Items(wire[x]) \cup Items(frames[x]) : msg \in Msg
      BY MessagesTyped DEF IInv
    <3>3. Genuine(view[x])' /\ Genuine(cache[x])'
      BY <1>9, <3>1 DEF Genuine
    <3>4. \A msg \in Items(wire[x]) \cup Items(frames[x]) : Good(msg)'
      BY <1>9, <3>1, <3>2
    <3>5. (Items(wire[x]) \cup Items(frames[x]))'
            \subseteq Items(wire[x]) \cup Items(frames[x]) \cup {Result(e, code, rev)}
      OBVIOUS
    <3> QED BY <1>10, <3>3, <3>4, <3>5
  <2> QED BY <2>1, <2>2 DEF Truth
<1>12. History'
  <2>1. CASE code # 200
    <3>1. /\ UNCHANGED <<store, file>>
          /\ \A x \in Edits : fate'[x] = "saved" => fate[x] = "saved"
      BY <1>2, <1>3, <2>1
    <3>2. Genuine(store)'
      BY <1>5, <1>9, <3>1 DEF IInv, History, Genuine
    <3> QED BY <3>1, <3>2 DEF IInv, History
  <2>2. CASE code = 200
    <3>1. store'.rev = store.rev + 1 /\ store'.doc = e /\ file' = store' /\ edit[e].base.rev = store.rev
      BY <1>4, <1>5, <2>2
    <3>2. Genuine(store)'
      BY <1>1, <1>2, <2>2, <3>1 DEF Genuine
    <3>3. \A x \in Edits : /\ edit[x].base.rev \in Nat
                           /\ fate'[x] = "saved" => x = e \/ edit[x].base.rev < store.rev
      <4>1. \A x \in Edits : edit[x].base.rev \in Nat
        BY DEF IInv, Types, Edited, Doc
      <4>2. \A x \in Edits : fate[x] = "saved" => edit[x].base.rev < store.rev
        BY DEF IInv, History
      <4> QED BY <1>2, <4>1, <4>2
    <3>4. \A x \in Edits : fate'[x] = "saved" => edit[x].base.rev < store'.rev
      BY <1>5, <3>1, <3>3
    <3>5. ASSUME NEW x \in Edits, NEW y \in Edits, fate'[x] = "saved", fate'[y] = "saved",
                 edit[x].base.rev = edit[y].base.rev
          PROVE  x = y
      <4>1. CASE x = e \/ y = e
        BY <1>5, <3>1, <3>3, <3>5, <4>1
      <4>2. CASE x # e /\ y # e
        BY <1>2, <3>5, <4>2 DEF IInv, History
      <4> QED BY <4>1, <4>2
    <3> QED BY <3>1, <3>2, <3>4, <3>5 DEF History
  <2> QED BY <2>1, <2>2
<1> QED BY <1>6, <1>8, <1>11, <1>12 DEF IInv

LEMMA PutTypes ==
  ASSUME Types, NEW e \in Edits, NEW handler \in Clients \cup {Orphan}, NEW code, Put(e, handler, code)
  PROVE  /\ store' \in Doc /\ file' \in Doc
         /\ fate' \in [Edits -> {"new", "asked", "saved", "refused"}]
         /\ telling' \in [Edits -> Clients \cup {None, Orphan}]
<1>1. /\ store \in Doc /\ file \in Doc /\ store.rev + 1 \in Nat /\ e \in Docs
      /\ fate \in [Edits -> {"new", "asked", "saved", "refused"}]
      /\ telling \in [Edits -> Clients \cup {None, Orphan}]
  BY DEF Types, Doc, Docs
<1>2. CASE code = 200
  <2>1. /\ store' = Document(store.rev + 1, e) /\ file' = Document(store.rev + 1, e)
        /\ fate' = [fate EXCEPT ![e] = "saved"] /\ telling' = [telling EXCEPT ![e] = handler]
    BY <1>2 DEF Put, Written
  <2>2. Document(store.rev + 1, e) \in Doc
    BY <1>1, DocTypes
  <2> QED BY <1>1, <2>1, <2>2
<1>3. CASE code # 200
  <2>1. /\ fate' = [fate EXCEPT ![e] = "refused"]
        /\ store' = store /\ file' = file /\ telling' = telling
    BY <1>3 DEF Put
  <2> QED BY <1>1, <2>1
<1> QED BY <1>2, <1>3

LEMMA HandlePutIInv ==
  ASSUME IInv, NEW c \in Clients, HandlePut(c)
  PROVE  IInv'
<1> DEFINE e == Head(uplink[c])
<1>1. /\ e \in Edits /\ e \in Items(uplink[c])
      /\ Tail(uplink[c]) \in Seq(Edits) /\ Items(Tail(uplink[c])) \subseteq Items(uplink[c])
      /\ Distinct(uplink[c]) => Distinct(Tail(uplink[c])) /\ e \notin Items(Tail(uplink[c]))
  BY ItemsTail DEF IInv, Types, HandlePut
<1>2. PICK code \in Outcomes(e) :
        /\ Put(e, c, code)
        /\ wire' = [wire EXCEPT ![c] = Append(@, Result(e, code, store'.rev))]
  BY DEF HandlePut
<1>3. /\ uplink' = [uplink EXCEPT ![c] = Tail(@)]
      /\ UNCHANGED <<frames, left, view, cache, loop, edit>>
  BY DEF HandlePut, runtime
<1>4. code \in {200, 409, 422, 502}
  BY DEF Outcomes
<1> HIDE DEF e
<1>5. /\ store' \in Doc /\ file' \in Doc
      /\ fate' \in [Edits -> {"new", "asked", "saved", "refused"}]
      /\ telling' \in [Edits -> Clients \cup {None, Orphan}]
  BY <1>1, <1>2, PutTypes DEF IInv
<1>6. PICK rev \in Nat : rev = store'.rev
  BY <1>5 DEF Doc
<1>7. /\ Result(e, code, rev) \in Msg
  BY <1>1, <1>4, MessageTypes DEF Codes
<1>8. wire' = [wire EXCEPT ![c] = Append(@, Result(e, code, rev))]
  BY <1>2, <1>6
<1>9. /\ Append(wire[c], Result(e, code, rev)) \in Seq(Msg)
      /\ Items(Append(wire[c], Result(e, code, rev))) = Items(wire[c]) \cup {Result(e, code, rev)}
  BY <1>7, ItemsAppend DEF IInv, Types
<1>10. wire' \in [Clients -> Seq(Msg)] /\ uplink' \in [Clients -> Seq(Edits)]
  BY <1>1, <1>3, <1>8, <1>9 DEF IInv, Types
<1>11. Types'
  BY <1>3, <1>5, <1>10 DEF IInv, Types
<1>12. e \in OnTheWay(c)
  BY <1>1 DEF OnTheWay
<1>13. ASSUME NEW x \in Clients
       PROVE  /\ Once(x)' /\ OnTheWay(x)' \subseteq OnTheWay(x) /\ e \notin OnTheWay(x)'
              /\ Items(wire[x])' \subseteq Items(wire[x]) \cup {Result(e, code, rev)}
              /\ Items(frames[x])' \subseteq Items(frames[x])
  <2>1. Once(x) /\ loop'[x] = loop[x] /\ left'[x] = left[x] /\ frames'[x] = frames[x]
    BY <1>3 DEF IInv, Travel
  <2>2. CASE x = c
    <3>1. uplink'[c] = Tail(uplink[c]) /\ wire'[c] = Append(wire[c], Result(e, code, rev))
      BY <1>3, <1>8 DEF IInv, Types
    <3> QED BY <1>1, <1>9, <2>1, <2>2, <3>1 DEF Once, OnTheWay
  <2>3. CASE x # c
    <3>1. uplink'[x] = uplink[x] /\ wire'[x] = wire[x]
      BY <1>3, <1>8, <2>3 DEF IInv, Types
    <3>2. e \notin OnTheWay(x)
      BY <1>1, <1>12, <2>3 DEF IInv, Travel
    <3> QED BY <2>1, <3>1, <3>2 DEF Once, OnTheWay
  <2> QED BY <2>2, <2>3
<1> QED BY <1>2, <1>3, <1>6, <1>11, <1>12, <1>13, PutStep

LEMMA HandleLeftIInv ==
  ASSUME IInv, NEW c \in Clients, HandleLeft(c)
  PROVE  IInv'
<1> DEFINE e == Head(left[c])
<1>1. /\ e \in Edits /\ e \in Items(left[c])
      /\ Tail(left[c]) \in Seq(Edits) /\ Items(Tail(left[c])) \subseteq Items(left[c])
      /\ Distinct(left[c]) => Distinct(Tail(left[c])) /\ e \notin Items(Tail(left[c]))
  BY ItemsTail DEF IInv, Types, HandleLeft
<1>2. PICK code \in Outcomes(e) : Put(e, Orphan, code)
  BY DEF HandleLeft
<1>3. /\ left' = [left EXCEPT ![c] = Tail(@)]
      /\ UNCHANGED <<frames, wire, uplink, view, cache, loop, edit>>
  BY DEF HandleLeft, runtime
<1> HIDE DEF e
<1>4. /\ store' \in Doc /\ file' \in Doc
      /\ fate' \in [Edits -> {"new", "asked", "saved", "refused"}]
      /\ telling' \in [Edits -> Clients \cup {None, Orphan}]
  BY <1>1, <1>2, PutTypes DEF IInv
<1>5. PICK rev \in Nat : rev = store'.rev
  BY <1>4 DEF Doc
<1>6. left' \in [Clients -> Seq(Edits)]
  BY <1>1, <1>3 DEF IInv, Types
<1>7. Types'
  BY <1>3, <1>4, <1>6 DEF IInv, Types
<1>8. e \in OnTheWay(c)
  BY <1>1 DEF OnTheWay
<1>9. ASSUME NEW x \in Clients
       PROVE  /\ Once(x)' /\ OnTheWay(x)' \subseteq OnTheWay(x) /\ e \notin OnTheWay(x)'
              /\ Items(wire[x])' \subseteq Items(wire[x]) \cup {Result(e, code, rev)}
              /\ Items(frames[x])' \subseteq Items(frames[x])
  <2>1. /\ Once(x) /\ loop'[x] = loop[x] /\ uplink'[x] = uplink[x]
        /\ frames'[x] = frames[x] /\ wire'[x] = wire[x]
    BY <1>3 DEF IInv, Travel
  <2>2. CASE x = c
    <3>1. left'[c] = Tail(left[c])
      BY <1>3 DEF IInv, Types
    <3> QED BY <1>1, <2>1, <2>2, <3>1 DEF Once, OnTheWay
  <2>3. CASE x # c
    <3>1. left'[x] = left[x]
      BY <1>3, <2>3 DEF IInv, Types
    <3>2. e \notin OnTheWay(x)
      BY <1>1, <1>8, <2>3 DEF IInv, Travel
    <3> QED BY <2>1, <3>1, <3>2 DEF Once, OnTheWay
  <2> QED BY <2>2, <2>3
<1> QED BY <1>2, <1>3, <1>5, <1>7, <1>8, <1>9, PutStep

LEMMA StutterIInv ==
  ASSUME IInv, UNCHANGED vars
  PROVE  IInv'
<1>1. UNCHANGED <<store, file, fate, telling, frames, wire, uplink, left, view, cache, loop, edit>>
  BY DEF vars, bridge, link, runtime
<1>2. Types'
  BY <1>1 DEF IInv, Types
<1> QED BY <1>1, <1>2, MessageStep

LEMMA StepIInv == ~FileMayFail /\ IInv /\ [Next]_vars => IInv'
<1> SUFFICES ASSUME ~FileMayFail, IInv, [Next]_vars PROVE IInv'
  OBVIOUS
<1>1. ASSUME NEW e \in Edits, Editor(e) \/ Broadcast(e) PROVE IInv'
  BY <1>1, PostIInv, TimeOutIInv, DraftIInv, BroadcastIInv DEF Editor
<1>2. ASSUME NEW c \in Clients, Connect(c) \/ SendPut(c) \/ SendFrame(c) PROVE IInv'
  BY <1>2, ConnectIInv, SendPutIInv, SendFrameIInv
<1>3. ASSUME NEW c \in Clients, Serve(c) \/ HandleLeft(c) PROVE IInv'
  BY <1>3, ConnectIInv, SendFirstIInv, HandlePutIInv, HandleLeftIInv DEF Serve
<1>4. ASSUME NEW c \in Clients, Receive(c) \/ Fault(c) PROVE IInv'
  BY <1>4, ReceiveResultIInv, ReceiveSettingsIInv, FaultIInv DEF Receive, Fault
<1>5. CASE Stop \/ Start
  BY <1>5, StopIInv, StartIInv
<1>6. CASE UNCHANGED vars
  BY <1>6, StutterIInv
<1> QED BY <1>1, <1>2, <1>3, <1>4, <1>5, <1>6 DEF Next

LEMMA SpecIInv == ASSUME ~FileMayFail PROVE Spec => []IInv
BY InitIInv, StepIInv, PTL DEF Spec

-----------------------------------------------------------------------------
(* What follows.                                                           *)

LEMMA SameRevision ==
  ASSUME Types, History, NEW x, NEW y, Genuine(x), Genuine(y), x.rev = y.rev
  PROVE  x.doc = y.doc
<1>1. Unset.rev = 0 /\ Unset.doc = None
  BY DEF Unset, Document
<1>2. \A e \in Edits : edit[e].base.rev \in Nat
  BY DEF Types, Edited, Doc
<1>3. CASE x = Unset \/ y = Unset
  BY <1>1, <1>2, <1>3 DEF Genuine
<1>4. CASE x # Unset /\ y # Unset
  <2>1. /\ x.doc \in Edits /\ fate[x.doc] = "saved" /\ x.rev = edit[x.doc].base.rev + 1
        /\ y.doc \in Edits /\ fate[y.doc] = "saved" /\ y.rev = edit[y.doc].base.rev + 1
    BY <1>4 DEF Genuine
  <2> DEFINE a == edit[x.doc].base.rev
             b == edit[y.doc].base.rev
  <2>2. a \in Nat /\ b \in Nat /\ x.rev = a + 1 /\ y.rev = b + 1
    BY <1>2, <2>1
  <2> HIDE DEF a, b
  <2>3. a = b
    <3>1. a + 1 = b + 1
      BY <2>2, Zenon
    <3> QED BY <2>2, <3>1
  <2> QED BY <2>1, <2>3 DEF History, a, b
<1> QED BY <1>3, <1>4

LEMMA TransitGenuine ==
  ASSUME NEW s, \A msg \in Items(s) : msg \in Msg /\ Good(msg), NEW d \in InTransit(s)
  PROVE  Genuine(d)
<1>1. PICK i \in DOMAIN s : /\ s[i].type = "settings" \/ s[i].code = 200
                           /\ d = IF s[i].type = "settings" THEN s[i].doc
                                  ELSE Document(s[i].rev, s[i].edit)
  BY DEF InTransit
<1> DEFINE msg == s[i]
<1>2. msg \in Msg /\ Good(msg)
  BY DEF Items
<1> HIDE DEF msg
<1>3. CASE msg.type = "settings"
  BY <1>1, <1>2, <1>3 DEF Good, msg
<1>4. CASE msg.type # "settings"
  <2>1. msg.type = "result" /\ msg.code = 200 /\ msg.edit \in Edits /\ msg.rev \in Nat
    BY <1>1, <1>2, <1>4, MessageTypes DEF msg
  <2>2. fate[msg.edit] = "saved" /\ msg.rev = edit[msg.edit].base.rev + 1
    BY <1>2, <2>1 DEF Good
  <2>3. d = Document(msg.rev, msg.edit)
    BY <1>1, <1>4 DEF msg
  <2>4. d.rev = msg.rev /\ d.doc = msg.edit
    BY <2>3 DEF Document
  <2> QED BY <2>1, <2>2, <2>4 DEF Genuine
<1> QED BY <1>3, <1>4

LEMMA CopiesGenuine == ASSUME IInv, NEW d \in Copies PROVE Genuine(d)
<1>1. CASE d \in {store, file}
  BY <1>1 DEF IInv, History
<1>2. CASE d \in {edit[e].base : e \in Edits}
  BY <1>2 DEF IInv, Truth
<1>3. ASSUME NEW c \in Clients,
             d \in {view[c], cache[c]} \cup Confirmed(c) \cup InTransit(wire[c]) \cup InTransit(frames[c])
      PROVE  Genuine(d)
  <2>1. CASE d \in {view[c], cache[c]}
    BY <2>1 DEF IInv, Truth
  <2>2. CASE d \in Confirmed(c)
    BY <2>2, ConfirmedGenuine
  <2>3. \A msg \in Items(wire[c]) \cup Items(frames[c]) : msg \in Msg /\ Good(msg)
    BY MessagesTyped DEF IInv, Truth
  <2>4. CASE d \in InTransit(wire[c]) \cup InTransit(frames[c])
    BY <2>3, <2>4, TransitGenuine
  <2> QED BY <1>3, <2>1, <2>2, <2>4
<1> QED BY <1>1, <1>2, <1>3 DEF Copies

\* A revision names one document in whatever copy of it, for any runtimes,
\* saves, faults and restarts, while the bridge can read its file: the answer
\* a stale put gets (bridge_settings.put compares revisions alone) is right.
THEOREM RevisionsAgree == ASSUME ~FileMayFail PROVE Spec => []RevisionNamesDocument
<1>1. IInv => RevisionNamesDocument
  BY CopiesGenuine, SameRevision DEF IInv, RevisionNamesDocument
<1> QED BY <1>1, SpecIInv, PTL

\* The steps by the save they decide, if any.
LEMMA WhichPut ==
  ASSUME IInv, NEW c \in Clients, HandlePut(c) \/ HandleLeft(c)
  PROVE  \E e \in Edits, handler \in Clients \cup {Orphan} : \E code \in Outcomes(e) :
           /\ Put(e, handler, code)
           /\ fate[e] = "asked"
           /\ UNCHANGED edit
<1>1. CASE HandlePut(c)
  <2>1. Head(uplink[c]) \in Items(uplink[c])
    BY <1>1, ItemsTail DEF IInv, Types, HandlePut
  <2>2. Head(uplink[c]) \in Edits /\ fate[Head(uplink[c])] = "asked"
    BY <2>1, WayOfEdits DEF IInv, Travel, OnTheWay
  <2> QED BY <1>1, <2>2 DEF HandlePut, runtime
<1>2. CASE HandleLeft(c)
  <2>1. Head(left[c]) \in Items(left[c])
    BY <1>2, ItemsTail DEF IInv, Types, HandleLeft
  <2>2. Head(left[c]) \in Edits /\ fate[Head(left[c])] = "asked"
    BY <2>1, WayOfEdits DEF IInv, Travel, OnTheWay
  <2> QED BY <1>2, <2>2 DEF HandleLeft, runtime
<1> QED BY <1>1, <1>2

\* A put that is current replaces the document its editor started from.
LEMMA PutReplaces ==
  ASSUME IInv, NEW e \in Edits, NEW handler, Put(e, handler, 200), 200 \in Outcomes(e)
  PROVE  store.doc = edit[e].base.doc
<1>1. edit[e].base.rev = store.rev
  BY DEF Outcomes, Current
<1>2. Genuine(store) /\ Genuine(edit[e].base)
  BY DEF IInv, Truth, History
<1> QED BY <1>1, <1>2, SameRevision DEF IInv

LEMMA OthersDecideNothing ==
  ASSUME IInv, [Next]_vars, ~ \E c \in Clients : HandlePut(c) \/ HandleLeft(c)
  PROVE  \A e \in Edits : fate'[e] = "saved" => fate[e] = "saved"
<1>1. ASSUME NEW e \in Edits, NEW c \in Clients, Draft(e, c)
      PROVE  \A x \in Edits : fate'[x] = "saved" => fate[x] = "saved"
  BY <1>1 DEF Draft, IInv, Types
<1>2. CASE UNCHANGED fate
  BY <1>2
<1>3. (\E e \in Edits, c \in Clients : Draft(e, c)) \/ UNCHANGED fate
  BY DEF Next, Editor, Serve, Receive, Fault, Post, TimeOut, Broadcast, Connect, SendPut, Register,
         SendFirst, SendFrame, ReceiveResult, ReceiveSettings, Drop, RestartRuntime, Stop, Start,
         vars, bridge
<1> QED BY <1>1, <1>2, <1>3

\* "A lost race shows the other editor's values instead of overwriting them":
\* a save replaces the document its editor started from, for any runtimes,
\* saves, faults and restarts, while the bridge can read its file.
THEOREM NothingLost == ASSUME ~FileMayFail PROVE Spec => NoLostUpdate
<1>1. ASSUME IInv, [Next]_vars, NEW e \in Edits, fate'[e] = "saved", fate[e] # "saved"
      PROVE  store.doc = edit[e].base.doc
  <2>1. PICK c \in Clients : HandlePut(c) \/ HandleLeft(c)
    BY <1>1, OthersDecideNothing
  <2>2. PICK x \in Edits, handler \in Clients \cup {Orphan} : \E code \in Outcomes(x) :
               Put(x, handler, code) /\ UNCHANGED edit
    BY <1>1, <2>1, WhichPut
  <2>3. PICK code \in Outcomes(x) : Put(x, handler, code)
    BY <2>2
  <2>4. fate \in [Edits -> {"new", "asked", "saved", "refused"}]
    BY <1>1 DEF IInv, Types
  <2>5. x = e /\ code = 200
    BY <1>1, <2>3, <2>4 DEF Put
  <2> QED BY <1>1, <2>3, <2>5, PutReplaces
<1>2. IInv /\ [Next]_vars =>
        [\A e \in Edits :
           fate'[e] = "saved" /\ fate[e] # "saved" => store.doc = edit[e].base.doc]_vars
  BY <1>1
<1> QED BY <1>2, SpecIInv, PTL DEF Spec, NoLostUpdate

-----------------------------------------------------------------------------
(* SharedSettings implements SettingsRegister.                             *)

Saw == [e \in Edits |-> IF fate[e] = "new" THEN None ELSE edit[e].base.doc]
ToldAll == [e \in Edits |-> Told(e)]

LEMMA ToldIs ==
  /\ \A e \in Edits :
       /\ edit[e].code = 0 => Told(e) = "nothing"
       /\ edit[e].code = 200 => Told(e) = "saved"
       /\ edit[e].code \in {409, 422, 502} => Told(e) = "refused"
       /\ edit[e].code \in {500, 503, 504} => Told(e) = "unknown"
  BY DEF Told

LEMMA ToldIsNext ==
  /\ \A e \in Edits :
       /\ edit'[e].code = 0 => Told(e)' = "nothing"
       /\ edit'[e].code = 200 => Told(e)' = "saved"
       /\ edit'[e].code \in {409, 422, 502} => Told(e)' = "refused"
       /\ edit'[e].code \in {500, 503, 504} => Told(e)' = "unknown"
  BY DEF Told

LEMMA ToldSame ==
  ASSUME NEW e \in Edits, edit'[e].code = edit[e].code
  PROVE  Told(e)' = Told(e)
  BY DEF Told

LEMMA InitRefines == Init => Promise!Init
<1> SUFFICES ASSUME Init PROVE Promise!Init
  OBVIOUS
<1>1. file.doc = None
  BY DEF Init, Unset, Document
<1>2. \A e \in Edits : fate[e] = "new" /\ edit[e].code = 0
  BY DEF Init, Fresh
<1>3. \A e \in Edits : Told(e) = "nothing"
  BY <1>2, ToldIs
<1> QED BY <1>1, <1>2, <1>3 DEF Init, Promise!Init

\* Steps the editors do not hear of.
LEMMA QuietStep ==
  ASSUME UNCHANGED <<file, fate>>,
         \A e \in Edits : edit'[e].base = edit[e].base /\ edit'[e].code = edit[e].code
  PROVE  UNCHANGED Promise!registerVars
<1>1. \A e \in Edits : Told(e)' = Told(e)
  BY ToldSame
<1>2. UNCHANGED <<file.doc, fate, Saw, ToldAll>>
  BY <1>1 DEF Saw, ToldAll
<1> QED BY <1>2 DEF Promise!registerVars, Saw, ToldAll

\* Editors that hear that nobody knows.
LEMMA UnknownStep ==
  ASSUME IInv, UNCHANGED <<file, fate>>, NEW some \in SUBSET Edits,
         \A e \in Edits : edit'[e].base = edit[e].base,
         \A e \in some : edit[e].pc \in {"draft", "waiting"} /\ edit'[e].code \in {500, 503, 504},
         \A e \in Edits \ some : edit'[e].code = edit[e].code
  PROVE  Promise!Next
<1>1. \A e \in some : fate[e] # "new" /\ edit[e].code = 0
  BY DEF IInv, Progress
<1>2. \A e \in some : Told(e) = "nothing" /\ Told(e)' = "unknown"
  BY <1>1, ToldIs, ToldIsNext
<1>3. \A e \in Edits \ some : Told(e)' = Told(e)
  BY ToldSame
<1>4. Promise!TellUnknown(some)
  BY <1>1, <1>2, <1>3 DEF Promise!TellUnknown
<1> QED BY <1>4 DEF Promise!Next

LEMMA DraftRefines ==
  ASSUME IInv, IInv', NEW e \in Edits, NEW c \in Clients, Draft(e, c)
  PROVE  Promise!Next
<1>1. PICK base \in Bases(c) :
        edit' = [edit EXCEPT ![e] = [Fresh EXCEPT !.pc = "draft", !.via = c, !.base = base]]
  BY DEF Draft
<1>2. base.doc \in Edits \cup {None} /\ fate[e] = "new" /\ edit[e].code = 0
  BY BasesGenuine DEF Draft, Doc, Docs, IInv, Progress
<1>3. /\ fate' = [fate EXCEPT ![e] = "asked"] /\ file' = file
      /\ edit'[e].base = base /\ edit'[e].code = 0
      /\ \A x \in Edits : x # e => edit'[x] = edit[x] /\ fate'[x] = fate[x]
      /\ fate'[e] = "asked"
  BY <1>1 DEF Draft, Fresh, IInv, Types
<1>4. \A x \in Edits : Told(x)' = Told(x)
  BY <1>2, <1>3, ToldSame
<1>5. Saw' = [Saw EXCEPT ![e] = base.doc]
  BY <1>3 DEF Saw
<1>6. Promise!Ask(e, base.doc)
  BY <1>2, <1>3, <1>4, <1>5 DEF Promise!Ask, Saw
<1> QED BY <1>2, <1>6 DEF Promise!Next

LEMMA PostRefines ==
  ASSUME IInv, NEW e \in Edits, Post(e) \/ TimeOut(e)
  PROVE  Promise!Next \/ UNCHANGED Promise!registerVars
<1>1. /\ UNCHANGED <<file, fate>> /\ edit[e].pc \in {"draft", "waiting"}
      /\ \/ edit' = [edit EXCEPT ![e].pc = "waiting"]
         \/ edit' = Ended(e, 503, 0) \/ edit' = Ended(e, 504, 0)
  BY DEF Post, TimeOut, bridge
<1>2. CASE edit' = [edit EXCEPT ![e].pc = "waiting"]
  <2>1. edit' = [edit EXCEPT ![e] = WaitingOn(edit[e])] /\ edit \in [Edits -> Edited]
    BY <1>2 DEF WaitingOn, IInv, Types
  <2>2. \A x \in Edits : edit'[x].base = edit[x].base /\ edit'[x].code = edit[x].code
    BY <2>1, EditedWaits
  <2> QED BY <1>1, <2>2, QuietStep
<1>3. ASSUME NEW code \in {503, 504}, edit' = Ended(e, code, 0) PROVE Promise!Next
  <2>1. /\ \A x \in Edits : /\ Ended(e, code, 0)[x].base = edit[x].base
                            /\ x # e => Ended(e, code, 0)[x] = edit[x]
        /\ Ended(e, code, 0)[e].code = code
    <3>1. code \in Codes /\ 0 \in Nat
      BY DEF Codes
    <3> QED BY <3>1, EndedIs DEF IInv
  <2>2. /\ \A x \in Edits : edit'[x].base = edit[x].base /\ (x # e => edit'[x] = edit[x])
        /\ edit'[e].code = code
    BY <1>3, <2>1, Zenon
  <2>3. /\ {e} \in SUBSET Edits
        /\ \A x \in {e} : edit[x].pc \in {"draft", "waiting"} /\ edit'[x].code \in {500, 503, 504}
        /\ \A x \in Edits \ {e} : edit'[x].code = edit[x].code
    BY <1>1, <2>2
  <2>4. UNCHANGED <<file, fate>> /\ \A x \in Edits : edit'[x].base = edit[x].base
    BY <1>1, <2>2
  <2> DEFINE some == {e}
  <2>5. /\ some \in SUBSET Edits
        /\ \A x \in some : edit[x].pc \in {"draft", "waiting"} /\ edit'[x].code \in {500, 503, 504}
        /\ \A x \in Edits \ some : edit'[x].code = edit[x].code
    BY <2>3
  <2> HIDE DEF some
  <2> QED BY <2>4, <2>5, UnknownStep
<1> QED BY <1>1, <1>2, <1>3

LEMMA FaultRefines ==
  ASSUME IInv, Stop \/ \E c \in Clients : Fault(c)
  PROVE  Promise!Next
<1>1. /\ UNCHANGED <<file, fate>>
      /\ \E some \in SUBSET Clients, code \in {500, 503} : edit' = FailedOver(some, code)
  <2>1. CASE Stop
    BY <2>1 DEF Stop
  <2>2. ASSUME NEW c \in Clients, Fault(c)
        PROVE  /\ UNCHANGED <<file, fate>>
               /\ edit' = FailedOver({c}, 503) \/ edit' = FailedOver({c}, 500)
    BY <2>2, Zenon DEF Fault, Drop, RestartRuntime
  <2>3. ASSUME NEW c \in Clients, Fault(c)
        PROVE  \E some \in SUBSET Clients, code \in {500, 503} : edit' = FailedOver(some, code)
    <3> DEFINE some == {c}
    <3>1. some \in SUBSET Clients
      OBVIOUS
    <3>2. edit' = FailedOver(some, 503) \/ edit' = FailedOver(some, 500)
      BY <2>2, <2>3
    <3> HIDE DEF some
    <3> QED BY <3>1, <3>2
  <2>4. ASSUME NEW c \in Clients, Fault(c) PROVE UNCHANGED <<file, fate>>
    BY <2>2, <2>4
  <2> QED BY <2>1, <2>3, <2>4
<1>2. PICK some \in SUBSET Clients, code \in {500, 503} : edit' = FailedOver(some, code)
  BY <1>1
<1> DEFINE failed == {e \in Edits : edit[e].pc = "waiting" /\ edit[e].via \in some}
<1>3. \A e \in Edits : edit'[e] = IF e \in failed THEN Over(edit[e], code) ELSE edit[e]
  BY <1>2, Zenon DEF FailedOver, Over
<1>4. \A e \in Edits : Over(edit[e], code).base = edit[e].base /\ Over(edit[e], code).code = code
  <2>1. code \in Codes
    BY DEF Codes
  <2> QED BY <2>1, EditedOver DEF IInv, Types
<1>5. failed \in SUBSET Edits /\ \A e \in failed : edit[e].pc = "waiting"
  OBVIOUS
<1> HIDE DEF failed
<1>6. /\ \A e \in failed : edit'[e].base = edit[e].base /\ edit'[e].code = code
      /\ \A e \in Edits \ failed : edit'[e] = edit[e]
  BY <1>3, <1>4, <1>5
<1> QED BY <1>1, <1>5, <1>6, UnknownStep

LEMMA ReceiveRefines ==
  ASSUME IInv, NEW c \in Clients, ReceiveResult(c)
  PROVE  Promise!Next \/ UNCHANGED Promise!registerVars
<1> DEFINE msg == Head(wire[c])
<1>1. msg \in Msg /\ msg \in Items(wire[c])
  BY ItemsTail DEF IInv, Types, ReceiveResult
<1>2. PICK e \in Edits, code \in Codes, rev \in Nat :
        /\ msg.type = "result" /\ Good(msg)
        /\ msg.edit = e /\ msg.code = code /\ msg.rev = rev
  BY <1>1, MessageTypes DEF IInv, Truth, ReceiveResult
<1>3. /\ edit' = IF edit[e].pc = "waiting" THEN Ended(e, code, rev) ELSE edit
      /\ UNCHANGED <<file, fate>>
  BY <1>2 DEF ReceiveResult, bridge
<1>4. \/ code = 200 /\ fate[e] = "saved"
      \/ code \in {409, 422, 502} /\ fate[e] = "refused"
  BY <1>2 DEF Good
<1> HIDE DEF msg
<1>5. CASE edit[e].pc # "waiting"
  BY <1>3, <1>5, QuietStep
<1>6. CASE edit[e].pc = "waiting"
  <2>1. /\ \A x \in Edits : /\ Ended(e, code, rev)[x].base = edit[x].base
                            /\ x # e => Ended(e, code, rev)[x] = edit[x]
        /\ Ended(e, code, rev)[e].code = code
    BY <1>2, EndedIs DEF IInv
  <2>2. edit' = Ended(e, code, rev)
    BY <1>3, <1>6
  <2>3. /\ \A x \in Edits : edit'[x].base = edit[x].base /\ (x # e => edit'[x] = edit[x])
        /\ edit'[e].code = code
    BY <2>1, <2>2, Zenon
  <2>4. edit[e].code = 0
    BY <1>2, <1>6 DEF IInv, Progress
  <2>5. Told(e) = "nothing" /\ Told(e)' = fate[e]
    BY <1>2, <1>4, <2>3, <2>4, ToldIs, ToldIsNext
  <2>6. \A x \in Edits : x # e => Told(x)' = Told(x)
    BY <2>3, ToldSame
  <2>7. fate[e] \in {"saved", "refused"}
    BY <1>4
  <2>8. /\ ToldAll[e] = "nothing"
        /\ ToldAll' = [ToldAll EXCEPT ![e] = fate[e]]
        /\ UNCHANGED <<file.doc, fate, Saw>>
    BY <1>2, <1>3, <2>3, <2>5, <2>6 DEF ToldAll, Saw
  <2>9. Promise!Tell(e, fate[e])
    BY <2>7, <2>8 DEF Promise!Tell, ToldAll, Saw
  <2> QED BY <1>2, <2>7, <2>9 DEF Promise!Next
<1> QED BY <1>5, <1>6

LEMMA PutRefines ==
  ASSUME IInv, IInv', NEW c \in Clients, HandlePut(c) \/ HandleLeft(c)
  PROVE  Promise!Next
<1>1. PICK e \in Edits, handler \in Clients \cup {Orphan} : \E code \in Outcomes(e) :
             Put(e, handler, code) /\ fate[e] = "asked" /\ UNCHANGED edit
  BY WhichPut
<1>2. PICK code \in Outcomes(e) : Put(e, handler, code)
  BY <1>1
<1>3. fate[e] = "asked" /\ edit' = edit
  BY <1>1
<1>4. \A x \in Edits : Told(x)' = Told(x)
  BY <1>3, ToldSame
<1>5. ASSUME NEW outcome \in {"saved", "refused"}, fate' = [fate EXCEPT ![e] = outcome]
      PROVE  UNCHANGED <<Saw, ToldAll>>
  <2>1. \A x \in Edits : fate'[x] = "new" <=> fate[x] = "new"
    BY <1>3, <1>5 DEF IInv, Types
  <2> QED BY <1>3, <1>4, <2>1 DEF Saw, ToldAll
<1>6. CASE code = 200
  <2>1. file.doc = edit[e].base.doc
    BY <1>2, <1>6, PutReplaces DEF IInv, History
  <2>2. file' = Document(store.rev + 1, e) /\ fate' = [fate EXCEPT ![e] = "saved"]
    BY <1>2, <1>6 DEF Put, Written
  <2>3. file'.doc = e
    BY <2>2 DEF Document
  <2>4. Promise!Replace(e)
    BY <1>3, <1>5, <2>1, <2>2, <2>3 DEF Promise!Replace, Saw, ToldAll
  <2> QED BY <2>4 DEF Promise!Next
<1>7. CASE code # 200
  <2>1. UNCHANGED file /\ fate' = [fate EXCEPT ![e] = "refused"]
    BY <1>2, <1>7 DEF Put
  <2>2. Promise!Refuse(e)
    BY <1>3, <1>5, <2>1 DEF Promise!Refuse, Saw, ToldAll
  <2> QED BY <2>2 DEF Promise!Next
<1> QED BY <1>6, <1>7

LEMMA OthersRefine ==
  ASSUME IInv, UNCHANGED <<file, fate, edit>>
  PROVE  UNCHANGED Promise!registerVars
  BY QuietStep

LEMMA NextRefines ==
  ASSUME IInv, IInv', [Next]_vars
  PROVE  [Promise!Next]_Promise!registerVars
<1>1. ASSUME NEW e \in Edits, Editor(e) PROVE [Promise!Next]_Promise!registerVars
  BY <1>1, PostRefines, DraftRefines DEF Editor
<1>2. ASSUME NEW e \in Edits, Broadcast(e) PROVE UNCHANGED <<file, fate, edit>>
  BY <1>2 DEF Broadcast, runtime
<1>3. ASSUME NEW c \in Clients, Connect(c) \/ SendPut(c) \/ SendFrame(c) \/ Register(c) \/ SendFirst(c)
      PROVE  UNCHANGED <<file, fate, edit>>
  BY <1>3 DEF Connect, SendPut, SendFrame, Register, SendFirst, bridge, runtime
<1>4. ASSUME NEW c \in Clients, Receive(c) PROVE [Promise!Next]_Promise!registerVars
  <2>1. CASE ReceiveSettings(c)
    <3>1. UNCHANGED <<file, fate, edit>>
      BY <2>1 DEF ReceiveSettings, bridge
    <3> QED BY <3>1, OthersRefine
  <2> QED BY <1>4, <2>1, ReceiveRefines DEF Receive
<1>5. ASSUME NEW c \in Clients, HandlePut(c) \/ HandleLeft(c) PROVE [Promise!Next]_Promise!registerVars
  BY <1>5, PutRefines
<1>6. CASE Stop \/ \E c \in Clients : Fault(c)
  BY <1>6, FaultRefines
<1>7. CASE Start \/ UNCHANGED vars
  <2>1. UNCHANGED <<file, fate, edit>>
    BY <1>7 DEF Start, vars, bridge, runtime
  <2> QED BY <2>1, OthersRefine
<1> QED BY <1>1, <1>2, <1>3, <1>4, <1>5, <1>6, <1>7, OthersRefine DEF Next, Serve

\* The store, its relays and their faults implement the register, for any
\* runtimes, saves and faults, while the bridge can read its file: a save
\* replaces what its editor saw, at most once, across restarts of everything,
\* and the outcome the editor reads is the outcome the save had.
THEOREM Implements == ASSUME ~FileMayFail PROVE Spec => ImplementsRegister
<1>1. Init => Promise!Init
  BY InitRefines
<1>2. IInv /\ IInv' /\ [Next]_vars => [Promise!Next]_Promise!registerVars
  BY NextRefines
<1> QED BY <1>1, <1>2, SpecIInv, PTL DEF Spec, ImplementsRegister, Promise!Spec

-----------------------------------------------------------------------------
(* The types, with their bound on revisions.  A save counts once and takes *)
(* the store one revision on, so no revision is above the number of saves; *)
(* a reply tells the revision the store had, which only grew since.        *)

Saved == {e \in Edits : fate[e] = "saved"}

Spoken(c) == Items(wire[c]) \cup Items(frames[c])

\* No reply, on its way or read, tells a revision the store has not reached.
Reached ==
  /\ \A e \in Edits : edit[e].rev <= store.rev
  /\ \A c \in Clients : \A msg \in Spoken(c) : msg.type = "result" => msg.rev <= store.rev

\* The handler that is still to broadcast is the connection's own.
Attached ==
  /\ up \in BOOLEAN
  /\ conn \in [Clients -> {"down", "joining", "registered", "up"}]
  /\ connects \in 0..MaxConnects
  /\ stops \in 0..MaxStops
  /\ \A e \in Edits : telling[e] \in Clients => conn[telling[e]] = "up" /\ edit[e].via = telling[e]
  /\ \A e \in Edits : telling[e] \in Clients => edit[e].pc # "idle"

TInv == IInv /\ Reached /\ Attached /\ store.rev <= Cardinality(Saved)

LEMMA StoreRevision ==
  ASSUME IInv
  PROVE  store.rev \in Nat /\ \A e \in Edits : edit[e].rev \in Nat /\ edit[e].base.rev \in Nat
  BY DEF IInv, Types, Doc, Edited

LEMMA InitTInv == ASSUME IsFiniteSet(Edits), Init PROVE TInv
<1>1. IInv
  BY InitIInv
<1>2. Reached
  BY ItemsEmpty DEF Init, Reached, Spoken, Fresh, Unset, Document
<1>3. Attached
  <2>1. None \notin Clients /\ \A e \in Edits : telling[e] = None
    BY DEF Init
  <2>2. /\ up \in BOOLEAN
        /\ conn \in [Clients -> {"down", "joining", "registered", "up"}]
        /\ connects \in 0..MaxConnects
        /\ stops \in 0..MaxStops
    BY DEF Init
  <2> QED BY <2>1, <2>2 DEF Attached
<1>4. Saved = {}
  BY DEF Init, Saved
<1>5. store.rev = 0
  BY DEF Init, Unset, Document
<1>6. Cardinality({}) = 0
  BY FS_EmptySet
<1> QED BY <1>1, <1>2, <1>3, <1>4, <1>5, <1>6 DEF TInv

\* Who decides a put, and with which code and reply.
LEMMA PutOf ==
  ASSUME IInv, NEW c \in Clients, HandlePut(c) \/ HandleLeft(c)
  PROVE  \E e \in Edits, handler \in Clients \cup {Orphan} : \E code \in Outcomes(e) :
           /\ Put(e, handler, code)
           /\ fate[e] = "asked" /\ edit[e].via = c /\ edit[e].pc # "idle"
           /\ handler \in Clients => handler = c /\ conn[c] = "up"
           /\ UNCHANGED <<up, conn, connects, stops, edit, frames>>
           /\ \/ wire' = wire
              \/ wire' = [wire EXCEPT ![c] = Append(@, Result(e, code, store'.rev))]
<1>1. CASE HandlePut(c)
  <2> DEFINE e == Head(uplink[c])
  <2>1. e \in Items(uplink[c])
    BY <1>1, ItemsTail DEF IInv, Types, HandlePut
  <2>2. e \in OnTheWay(c) /\ e \in Edits
    BY <2>1, WayOfEdits DEF IInv, OnTheWay
  <2>3. fate[e] = "asked" /\ edit[e].via = c /\ edit[e].pc # "idle"
    BY <2>2 DEF IInv, Travel
  <2>4. PICK code \in Outcomes(e) :
           /\ Put(e, c, code)
           /\ wire' = [wire EXCEPT ![c] = Append(@, Result(e, code, store'.rev))]
    BY <1>1, Zenon DEF HandlePut
  <2>5. conn[c] = "up" /\ UNCHANGED <<up, conn, connects, stops, edit, frames>>
    BY <1>1 DEF HandlePut, runtime
  <2> HIDE DEF e
  <2> QED BY <2>2, <2>3, <2>4, <2>5
<1>2. CASE HandleLeft(c)
  <2> DEFINE e == Head(left[c])
  <2>1. e \in Items(left[c])
    BY <1>2, ItemsTail DEF IInv, Types, HandleLeft
  <2>2. e \in OnTheWay(c) /\ e \in Edits
    BY <2>1, WayOfEdits DEF IInv, OnTheWay
  <2>3. fate[e] = "asked" /\ edit[e].via = c /\ edit[e].pc # "idle"
    BY <2>2 DEF IInv, Travel
  <2>4. PICK code \in Outcomes(e) : Put(e, Orphan, code)
    BY <1>2, Zenon DEF HandleLeft
  <2>5. wire' = wire /\ UNCHANGED <<up, conn, connects, stops, edit, frames>>
    BY <1>2 DEF HandleLeft, runtime
  <2>6. Orphan \notin Clients
    OBVIOUS
  <2> HIDE DEF e
  <2> QED BY <2>2, <2>3, <2>4, <2>5, <2>6, Zenon
<1> QED BY <1>1, <1>2

LEMMA PutTInv ==
  ASSUME IsFiniteSet(Edits), TInv, IInv', NEW c \in Clients, HandlePut(c) \/ HandleLeft(c)
  PROVE  TInv'
<1>1. PICK e \in Edits, handler \in Clients \cup {Orphan} : \E code \in Outcomes(e) :
           /\ Put(e, handler, code)
           /\ fate[e] = "asked" /\ edit[e].via = c /\ edit[e].pc # "idle"
           /\ handler \in Clients => handler = c /\ conn[c] = "up"
           /\ UNCHANGED <<up, conn, connects, stops, edit, frames>>
           /\ \/ wire' = wire
              \/ wire' = [wire EXCEPT ![c] = Append(@, Result(e, code, store'.rev))]
  BY PutOf, Zenon DEF TInv
<1>2. PICK code \in Outcomes(e) :
           /\ Put(e, handler, code)
           /\ fate[e] = "asked" /\ edit[e].via = c /\ edit[e].pc # "idle"
           /\ handler \in Clients => handler = c /\ conn[c] = "up"
           /\ UNCHANGED <<up, conn, connects, stops, edit, frames>>
           /\ \/ wire' = wire
              \/ wire' = [wire EXCEPT ![c] = Append(@, Result(e, code, store'.rev))]
  BY <1>1, Zenon
<1>3. store.rev \in Nat /\ store'.rev \in Nat /\ \A x \in Edits : edit[x].rev \in Nat
  BY StoreRevision DEF TInv, IInv, Types, Doc
<1>4. code \in Codes
  BY DEF Outcomes, Codes
<1>5. /\ fate \in [Edits -> {"new", "asked", "saved", "refused"}]
      /\ telling \in [Edits -> Clients \cup {None, Orphan}]
  BY DEF TInv, IInv, Types
<1>6. /\ store'.rev >= store.rev
      /\ store'.rev <= Cardinality(Saved')
      /\ \/ telling' = telling
         \/ telling' = [telling EXCEPT ![e] = handler]
  <2>1. CASE code = 200
    <3>1. /\ store'.rev = store.rev + 1
          /\ fate' = [fate EXCEPT ![e] = "saved"]
          /\ telling' = [telling EXCEPT ![e] = handler]
      BY <1>2, <2>1 DEF Put, Document
    <3>2. Saved' = Saved \cup {e} /\ e \notin Saved
      BY <1>2, <1>5, <3>1 DEF Saved
    <3>3. IsFiniteSet(Saved)
      BY FS_Subset DEF Saved
    <3>4. Cardinality(Saved') = Cardinality(Saved) + 1 /\ Cardinality(Saved) \in Nat
      BY <3>2, <3>3, FS_AddElement, FS_CardinalityType
    <3> QED BY <1>3, <3>1, <3>4 DEF TInv
  <2>2. CASE code # 200
    <3>1. /\ fate' = [fate EXCEPT ![e] = "refused"]
          /\ store' = store /\ telling' = telling
      BY <1>2, <2>2 DEF Put
    <3>2. Saved' = Saved
      BY <1>2, <1>5, <3>1 DEF Saved
    <3> QED BY <1>3, <3>1, <3>2 DEF TInv
  <2> QED BY <2>1, <2>2
<1>7. Reached'
  <2>1. \A x \in Edits : (edit[x].rev <= store.rev)'
    BY <1>2, <1>3, <1>6 DEF TInv, Reached
  <2>2. ASSUME NEW x \in Clients, NEW msg \in Spoken(x)', msg.type = "result"
        PROVE  msg.rev <= store'.rev
    <3>1. wire \in [Clients -> Seq(Msg)] /\ frames' = frames
      BY <1>2 DEF TInv, IInv, Types
    <3> DEFINE reply == Result(e, code, store'.rev)
    <3>2. reply \in Msg /\ reply.rev = store'.rev
      BY <1>3, <1>4, MessageTypes
    <3>3. Items(Append(wire[c], reply)) = Items(wire[c]) \cup {reply}
      BY <3>1, <3>2, ItemsAppend
    <3>4. Items(wire'[x]) \subseteq Items(wire[x]) \cup {reply}
      <4> HIDE DEF reply
      <4>1. CASE wire' = wire
        BY <4>1
      <4>2. CASE wire' = [wire EXCEPT ![c] = Append(@, reply)]
        BY <3>1, <3>3, <4>2
      <4> QED BY <1>2, <4>1, <4>2 DEF reply
    <3>5. msg \in Spoken(x) \/ msg = reply
      BY <3>1, <3>4 DEF Spoken
    <3>6. CASE msg \in Spoken(x)
      <4>1. msg.rev <= store.rev
        BY <2>2, <3>6 DEF TInv, Reached
      <4>2. msg \in Msg
        BY <3>6, MessagesTyped DEF TInv, IInv, Spoken
      <4>3. msg.rev \in Nat
        BY <2>2, <4>2, MessageTypes
      <4> QED BY <1>3, <1>6, <4>1, <4>3
    <3>7. CASE msg = reply
      BY <1>3, <3>2, <3>7
    <3> QED BY <3>5, <3>6, <3>7
  <2> QED BY <2>1, <2>2 DEF Reached
<1>8. Attached'
  BY <1>2, <1>5, <1>6 DEF TInv, Attached
<1> QED BY <1>6, <1>7, <1>8 DEF TInv

\* The other steps decide nothing: no revision is new, and every reply was
\* there before.
LEMMA OtherTInv ==
  ASSUME TInv, IInv', UNCHANGED store, Saved' = Saved, Attached',
         \A e \in Edits : edit'[e].rev \in {0, edit[e].rev}
                        \/ \E c \in Clients : \E msg \in Spoken(c) :
                             msg.type = "result" /\ edit'[e].rev = msg.rev,
         \A c \in Clients : \A msg \in Spoken(c)' : msg.type = "settings" \/ msg \in Spoken(c)
  PROVE  TInv'
<1>1. store.rev \in Nat /\ \A e \in Edits : edit[e].rev \in Nat
  BY StoreRevision DEF TInv
<1>2. \A e \in Edits : (edit[e].rev <= store.rev)'
  BY <1>1 DEF TInv, Reached
<1>3. \A c \in Clients : \A msg \in Spoken(c)' : msg.type = "result" => msg.rev <= store'.rev
  BY DEF TInv, Reached
<1> QED BY <1>2, <1>3 DEF TInv, Reached

\* One client's messages: everything else stays as it was.
LEMMA OneSpeaks ==
  ASSUME TInv, NEW c \in Clients, NEW w \in Seq(Msg), NEW f \in Seq(Msg),
         wire' = [wire EXCEPT ![c] = w], frames' = [frames EXCEPT ![c] = f],
         \A msg \in Items(w) \cup Items(f) : msg.type = "settings" \/ msg \in Spoken(c)
  PROVE  \A x \in Clients : \A msg \in Spoken(x)' : msg.type = "settings" \/ msg \in Spoken(x)
<1> SUFFICES ASSUME NEW x \in Clients, NEW msg \in Spoken(x)'
             PROVE  msg.type = "settings" \/ msg \in Spoken(x)
  OBVIOUS
<1>1. wire \in [Clients -> Seq(Msg)] /\ frames \in [Clients -> Seq(Msg)]
  BY DEF TInv, IInv, Types
<1>2. CASE x = c
  <2>1. wire'[x] = w /\ frames'[x] = f
    BY <1>1, <1>2
  <2> QED BY <1>2, <2>1 DEF Spoken
<1>3. CASE x # c
  <2>1. wire'[x] = wire[x] /\ frames'[x] = frames[x]
    BY <1>1, <1>3
  <2> QED BY <2>1 DEF Spoken
<1> QED BY <1>2, <1>3

\* Editors and queues apart, a step of messages keeps the connections.
LEMMA StillAttached ==
  ASSUME TInv, UNCHANGED <<up, conn, connects, stops, telling>>,
         \A e \in Edits : edit'[e].via = edit[e].via /\ (edit'[e].pc = "idle" => edit[e].pc = "idle")
  PROVE  Attached'
<1>1. telling' = telling /\ conn' = conn
  OBVIOUS
<1> QED BY <1>1 DEF TInv, Attached

LEMMA QuietTInv ==
  ASSUME TInv, IInv', UNCHANGED <<up, conn, connects, stops, telling, store, fate>>,
         UNCHANGED <<wire, frames>>,
         \A e \in Edits : /\ edit'[e].via = edit[e].via
                          /\ edit'[e].pc = "idle" => edit[e].pc = "idle"
                          /\ edit'[e].rev \in {0, edit[e].rev}
  PROVE  TInv'
<1>1. Attached'
  BY StillAttached
<1>2. Saved' = Saved
  BY DEF Saved
<1>3. \A c \in Clients : Spoken(c)' = Spoken(c)
  BY DEF Spoken
<1> QED BY <1>1, <1>2, <1>3, OtherTInv

LEMMA DraftTInv ==
  ASSUME TInv, IInv', NEW e \in Edits, NEW c \in Clients, Draft(e, c)
  PROVE  TInv'
<1>1. PICK base \in Bases(c) :
        edit' = [edit EXCEPT ![e] = [Fresh EXCEPT !.pc = "draft", !.via = c, !.base = base]]
  BY DEF Draft
<1>2. /\ UNCHANGED <<up, conn, connects, stops, telling, store, wire, frames>>
      /\ edit[e].pc = "idle" /\ fate' = [fate EXCEPT ![e] = "asked"]
  BY DEF Draft, link
<1>3. /\ edit \in [Edits -> Edited] /\ fate \in [Edits -> {"new", "asked", "saved", "refused"}]
      /\ fate[e] = "new"
  BY <1>2 DEF TInv, IInv, Types, Progress
<1>4. /\ edit'[e].rev = 0
      /\ \A x \in Edits : x # e => edit'[x] = edit[x]
  BY <1>1, <1>3 DEF Fresh
<1>5. telling[e] \notin Clients
  BY <1>2 DEF TInv, Attached
<1>6. Attached'
  <2>1. ASSUME NEW x \in Edits, telling'[x] \in Clients
        PROVE  conn'[telling'[x]] = "up" /\ edit'[x].via = telling'[x] /\ edit'[x].pc # "idle"
    <3>1. x # e /\ telling[x] \in Clients
      BY <1>2, <1>5, <2>1
    <3> QED BY <1>2, <1>4, <3>1 DEF TInv, Attached
  <2> QED BY <1>2, <2>1 DEF TInv, Attached
<1>7. Saved' = Saved
  BY <1>2, <1>3 DEF Saved
<1>8. \A x \in Clients : Spoken(x)' = Spoken(x)
  BY <1>2 DEF Spoken
<1> QED BY <1>2, <1>4, <1>6, <1>7, <1>8, OtherTInv

\* A request that ends keeps its runtime.
LEMMA EndedTInv ==
  ASSUME Types, NEW e \in Edits, NEW code \in Codes, NEW rev \in Nat, edit' = Ended(e, code, rev)
  PROVE  \A x \in Edits : /\ edit'[x].via = edit[x].via
                          /\ edit'[x].pc = "idle" => edit[x].pc = "idle"
                          /\ edit'[x].rev = IF x = e THEN rev ELSE edit[x].rev
<1> DEFINE new == Ended(e, code, rev)
<1>1. /\ \A x \in Edits : new[x].via = edit[x].via /\ (x # e => new[x] = edit[x])
      /\ new[e].pc = "over" /\ new[e].rev = rev
  BY EndedIs
<1>2. edit' = new
  OBVIOUS
<1> HIDE DEF new
<1> QED BY <1>1, <1>2

LEMMA FailedTInv ==
  ASSUME Types, NEW some \in SUBSET Clients, NEW code \in Codes, edit' = FailedOver(some, code)
  PROVE  \A x \in Edits : /\ edit'[x].via = edit[x].via
                          /\ edit'[x].pc = "idle" => edit[x].pc = "idle"
                          /\ edit'[x].rev = edit[x].rev
<1> SUFFICES ASSUME NEW x \in Edits
             PROVE  /\ edit'[x].via = edit[x].via
                    /\ edit'[x].pc = "idle" => edit[x].pc = "idle"
                    /\ edit'[x].rev = edit[x].rev
  OBVIOUS
<1>1. edit[x] \in Edited
  BY DEF Types
<1>2. edit'[x] = edit[x] \/ edit'[x] = Over(edit[x], code)
  BY Zenon DEF FailedOver, Over
<1>3. /\ Over(edit[x], code).via = edit[x].via /\ Over(edit[x], code).rev = edit[x].rev
      /\ Over(edit[x], code).pc = "over"
  BY <1>1 DEF Over, Edited
<1> QED BY <1>2, <1>3

LEMMA EditorTInv ==
  ASSUME TInv, IInv', NEW e \in Edits, Editor(e)
  PROVE  TInv'
<1>1. CASE Post(e)
  <2>1. UNCHANGED <<up, conn, connects, stops, telling, store, fate, wire, frames>>
    BY <1>1 DEF Post, bridge, link
  <2>2. CASE edit' = [edit EXCEPT ![e].pc = "waiting"]
    <3>1. edit' = [edit EXCEPT ![e] = WaitingOn(edit[e])]
      BY <2>2 DEF WaitingOn
    <3>2. edit \in [Edits -> Edited] /\ edit[e] \in Edited
      BY DEF TInv, IInv, Types
    <3>3. /\ WaitingOn(edit[e]).via = edit[e].via /\ WaitingOn(edit[e]).pc = "waiting"
          /\ WaitingOn(edit[e]).rev = edit[e].rev
      BY <3>2 DEF WaitingOn, Edited
    <3>4. \A x \in Edits : /\ edit'[x].via = edit[x].via
                           /\ edit'[x].pc = "idle" => edit[x].pc = "idle"
                           /\ edit'[x].rev \in {0, edit[x].rev}
      BY <3>1, <3>2, <3>3
    <3> QED BY <2>1, <3>4, QuietTInv
  <2>3. CASE edit' = Ended(e, 503, 0)
    <3>1. 503 \in Codes
      BY DEF Codes
    <3> QED BY <2>1, <2>3, <3>1, EndedTInv, QuietTInv DEF TInv, IInv
  <2> QED BY <1>1, <2>2, <2>3 DEF Post
<1>2. CASE TimeOut(e)
  <2>1. /\ UNCHANGED <<up, conn, connects, stops, telling, store, fate, wire, frames>>
        /\ edit' = Ended(e, 504, 0)
    BY <1>2 DEF TimeOut, bridge, link
  <2>2. 504 \in Codes
    BY DEF Codes
  <2> QED BY <2>1, <2>2, EndedTInv, QuietTInv DEF TInv, IInv
<1>3. ASSUME NEW c \in Clients, Draft(e, c) PROVE TInv'
  BY <1>3, DraftTInv
<1> QED BY <1>1, <1>2, <1>3 DEF Editor

\* Broadcasts, first frames and what a runtime reads.
LEMMA MessageTInv ==
  ASSUME TInv, IInv', NEW c \in Clients,
         SendFirst(c) \/ SendFrame(c) \/ ReceiveResult(c) \/ ReceiveSettings(c)
  PROVE  TInv'
<1>1. /\ wire \in [Clients -> Seq(Msg)] /\ frames \in [Clients -> Seq(Msg)]
      /\ wire[c] \in Seq(Msg) /\ frames[c] \in Seq(Msg)
      /\ frames = [frames EXCEPT ![c] = frames[c]]
  BY DEF TInv, IInv, Types
<1>2. CASE SendFirst(c)
  <2> DEFINE w == Append(wire[c], SettingsFrame(store))
  <2>1. store \in Doc
    BY DEF TInv, IInv, Types
  <2>2. /\ SettingsFrame(store) \in Msg /\ SettingsFrame(store).type = "settings"
    BY <2>1, MessageTypes
  <2>3. w \in Seq(Msg) /\ Items(w) = Items(wire[c]) \cup {SettingsFrame(store)}
    BY <1>1, <2>2, ItemsAppend
  <2>4. /\ wire' = [wire EXCEPT ![c] = w]
        /\ conn' = [conn EXCEPT ![c] = "up"]
        /\ UNCHANGED <<up, connects, stops, telling, store, fate, frames, edit>>
    BY <1>2 DEF SendFirst, bridge, runtime
  <2> HIDE DEF w
  <2>5. \A msg \in Items(w) \cup Items(frames[c]) : msg.type = "settings" \/ msg \in Spoken(c)
    BY <2>2, <2>3 DEF Spoken
  <2>6. \A x \in Clients : \A msg \in Spoken(x)' : msg.type = "settings" \/ msg \in Spoken(x)
    BY <1>1, <2>3, <2>4, <2>5, OneSpeaks
  <2>7. Attached'
    BY <2>4 DEF TInv, Attached
  <2>8. Saved' = Saved
    BY <2>4 DEF Saved
  <2> QED BY <2>4, <2>6, <2>7, <2>8, OtherTInv
<1>3. CASE SendFrame(c)
  <2> DEFINE w == Append(wire[c], Head(frames[c]))
             f == Tail(frames[c])
  <2>1. /\ Head(frames[c]) \in Msg /\ Head(frames[c]) \in Items(frames[c])
        /\ f \in Seq(Msg) /\ Items(f) \subseteq Items(frames[c])
    BY <1>1, <1>3, ItemsTail DEF SendFrame
  <2>2. w \in Seq(Msg) /\ Items(w) = Items(wire[c]) \cup {Head(frames[c])}
    BY <1>1, <2>1, ItemsAppend
  <2>3. /\ wire' = [wire EXCEPT ![c] = w] /\ frames' = [frames EXCEPT ![c] = f]
        /\ UNCHANGED <<up, conn, connects, stops, telling, store, fate, edit>>
    BY <1>3 DEF SendFrame, runtime
  <2> HIDE DEF w, f
  <2>4. \A msg \in Items(w) \cup Items(f) : msg.type = "settings" \/ msg \in Spoken(c)
    BY <2>1, <2>2 DEF Spoken
  <2>5. \A x \in Clients : \A msg \in Spoken(x)' : msg.type = "settings" \/ msg \in Spoken(x)
    BY <2>1, <2>2, <2>3, <2>4, OneSpeaks
  <2>6. Attached'
    BY <2>3, StillAttached
  <2>7. Saved' = Saved
    BY <2>3 DEF Saved
  <2> QED BY <2>3, <2>5, <2>6, <2>7, OtherTInv
<1>4. CASE ReceiveResult(c) \/ ReceiveSettings(c)
  <2> DEFINE w == Tail(wire[c])
             msg == Head(wire[c])
  <2>1. /\ msg \in Msg /\ msg \in Items(wire[c])
        /\ w \in Seq(Msg) /\ Items(w) \subseteq Items(wire[c])
    BY <1>1, <1>4, ItemsTail DEF ReceiveResult, ReceiveSettings
  <2>2. /\ wire' = [wire EXCEPT ![c] = w]
        /\ UNCHANGED <<up, conn, connects, stops, telling, store, fate, frames>>
        /\ \/ UNCHANGED edit
           \/ msg.type = "result" /\ edit' = Ended(msg.edit, msg.code, msg.rev)
    BY <1>4 DEF ReceiveResult, ReceiveSettings, bridge
  <2> HIDE DEF w, msg
  <2>3. \A m \in Items(w) \cup Items(frames[c]) : m.type = "settings" \/ m \in Spoken(c)
    BY <2>1 DEF Spoken
  <2>4. \A x \in Clients : \A m \in Spoken(x)' : m.type = "settings" \/ m \in Spoken(x)
    BY <1>1, <2>1, <2>2, <2>3, OneSpeaks
  <2>5. \A x \in Edits : /\ edit'[x].via = edit[x].via
                         /\ edit'[x].pc = "idle" => edit[x].pc = "idle"
                         /\ edit'[x].rev \in {edit[x].rev} \/ (msg.type = "result" /\ edit'[x].rev = msg.rev)
    <3>1. CASE UNCHANGED edit
      BY <3>1
    <3>2. CASE msg.type = "result" /\ edit' = Ended(msg.edit, msg.code, msg.rev)
      <4>1. msg.edit \in Edits /\ msg.code \in Codes /\ msg.rev \in Nat
        BY <2>1, <3>2, MessageTypes
      <4>2. \A x \in Edits : /\ edit'[x].via = edit[x].via
                             /\ edit'[x].pc = "idle" => edit[x].pc = "idle"
                             /\ edit'[x].rev = IF x = msg.edit THEN msg.rev ELSE edit[x].rev
        BY <3>2, <4>1, EndedTInv DEF TInv, IInv
      <4> QED BY <3>2, <4>2
    <3> QED BY <2>2, <3>1, <3>2
  <2>6. Attached'
    BY <2>2, <2>5, StillAttached
  <2>7. Saved' = Saved
    BY <2>2 DEF Saved
  <2>8. msg \in Spoken(c)
    BY <2>1 DEF Spoken
  <2> QED BY <2>2, <2>4, <2>5, <2>6, <2>7, <2>8, OtherTInv
<1> QED BY <1>2, <1>3, <1>4

\* Who loses its connection loses its handlers' hold on it.
LEMMA LeavesTInv ==
  ASSUME TInv, IInv', NEW c \in Clients, Drop(c) \/ RestartRuntime(c)
  PROVE  TInv'
<1>1. /\ LeavesBridge(c) /\ UNCHANGED <<up, store, fate, connects>>
      /\ edit' = FailedOver({c}, 503) \/ edit' = FailedOver({c}, 500)
      /\ stops' = stops \/ (stops < MaxStops /\ stops' = stops + 1)
  BY DEF Drop, RestartRuntime
<1>2. 503 \in Codes /\ 500 \in Codes
  BY DEF Codes
<1>3. \A x \in Edits : /\ edit'[x].via = edit[x].via
                       /\ edit'[x].pc = "idle" => edit[x].pc = "idle"
                       /\ edit'[x].rev = edit[x].rev
  BY <1>1, <1>2, FailedTInv DEF TInv, IInv
<1>4. /\ conn' = Without(conn, {c}, "down")
      /\ wire' = Without(wire, {c}, << >>) /\ frames' = Without(frames, {c}, << >>)
      /\ telling' = Orphaned(c)
  BY <1>1 DEF LeavesBridge, Closed
<1>5. /\ conn \in [Clients -> {"down", "joining", "registered", "up"}]
      /\ stops \in 0..MaxStops /\ connects \in 0..MaxConnects /\ up \in BOOLEAN
  BY DEF TInv, Attached
<1>6. conn' \in [Clients -> {"down", "joining", "registered", "up"}]
  BY <1>4, <1>5 DEF Without
<1>7. ASSUME NEW x \in Edits, telling'[x] \in Clients
      PROVE  conn'[telling'[x]] = "up" /\ edit'[x].via = telling'[x] /\ edit'[x].pc # "idle"
  <2>1. telling'[x] = telling[x] /\ telling[x] # c /\ telling[x] \in Clients
    BY <1>4, <1>7 DEF Orphaned
  <2>2. conn'[telling[x]] = conn[telling[x]]
    BY <1>4, <2>1 DEF Without
  <2>3. conn[telling[x]] = "up" /\ edit[x].via = telling[x] /\ edit[x].pc # "idle"
    BY <2>1 DEF TInv, Attached
  <2> QED BY <1>3, <2>1, <2>2, <2>3
<1>8. stops' \in 0..MaxStops
  BY <1>1, <1>5
<1>9. Attached'
  BY <1>1, <1>5, <1>6, <1>7, <1>8 DEF Attached
<1>10. Saved' = Saved
  BY <1>1 DEF Saved
<1>11. \A x \in Clients : \A msg \in Spoken(x)' : msg \in Spoken(x)
  <2> SUFFICES ASSUME NEW x \in Clients PROVE Spoken(x)' \subseteq Spoken(x)
    OBVIOUS
  <2>1. /\ wire'[x] = wire[x] \/ wire'[x] = << >>
        /\ frames'[x] = frames[x] \/ frames'[x] = << >>
    BY <1>4 DEF Without
  <2> QED BY <2>1, ItemsEmpty DEF Spoken
<1> QED BY <1>1, <1>3, <1>9, <1>10, <1>11, OtherTInv

LEMMA StopTInv ==
  ASSUME TInv, IInv', Stop
  PROVE  TInv'
<1>1. /\ UNCHANGED <<store, fate, connects>> /\ up' = FALSE
      /\ edit' = FailedOver(Clients, 503)
      /\ stops < MaxStops /\ stops' = stops + 1
      /\ telling' = [e \in Edits |-> None]
  BY DEF Stop
<1>2. \A x \in Clients : conn'[x] = "down" /\ wire'[x] = << >> /\ frames'[x] = << >>
  BY DEF Stop, Closed, Without
<1>3. conn' \in [Clients -> {"down", "joining", "registered", "up"}]
  BY DEF Stop, Closed, Without
<1>4. \A x \in Edits : edit'[x].rev = edit[x].rev
  <2>1. 503 \in Codes
    BY DEF Codes
  <2> QED BY <1>1, <2>1, FailedTInv DEF TInv, IInv
<1>5. stops' \in 0..MaxStops /\ connects' \in 0..MaxConnects /\ up' \in BOOLEAN
  <2>1. stops \in 0..MaxStops /\ connects \in 0..MaxConnects
    BY DEF TInv, Attached
  <2>2. stops < MaxStops /\ stops' = stops + 1
    BY <1>1
  <2>3. stops' \in 0..MaxStops
    BY <2>1, <2>2
  <2>4. connects' \in 0..MaxConnects
    BY <1>1, <2>1
  <2>5. up' \in BOOLEAN
    BY <1>1
  <2> QED BY <2>3, <2>4, <2>5
<1>6. \A x \in Edits : telling'[x] \notin Clients
  BY <1>1
<1>7. Attached'
  BY <1>3, <1>5, <1>6 DEF Attached
<1>8. Saved' = Saved
  BY <1>1 DEF Saved
<1>9. \A x \in Clients : Spoken(x)' = {}
  BY <1>2, ItemsEmpty DEF Spoken
<1> QED BY <1>1, <1>4, <1>7, <1>8, <1>9, OtherTInv

\* Connecting, registering, sending a put and starting again say nothing.
LEMMA SilentTInv ==
  ASSUME TInv, IInv', ~FileMayFail,
         \/ Start \/ UNCHANGED vars
         \/ \E c \in Clients : Connect(c) \/ Register(c) \/ SendPut(c)
  PROVE  TInv'
<1>1. UNCHANGED <<store, fate, telling, wire, frames, edit, stops>>
  BY DEF Start, Connect, Register, SendPut, vars, bridge, link, runtime, TInv, IInv, History
<1>2. /\ up \in BOOLEAN /\ conn \in [Clients -> {"down", "joining", "registered", "up"}]
      /\ connects \in 0..MaxConnects /\ stops \in 0..MaxStops
  BY DEF TInv, Attached
<1>3. /\ up' \in BOOLEAN
      /\ conn' \in [Clients -> {"down", "joining", "registered", "up"}]
      /\ connects' \in 0..MaxConnects
      /\ \A x \in Clients : conn[x] = "up" => conn'[x] = "up"
  <2>1. CASE Start \/ UNCHANGED vars
    BY <1>2, <2>1 DEF Start, vars, bridge, link
  <2>2. ASSUME NEW c \in Clients, Connect(c) \/ Register(c)
        PROVE  /\ up' = up
               /\ conn' \in [Clients -> {"down", "joining", "registered", "up"}]
               /\ connects' \in 0..MaxConnects
               /\ \A x \in Clients : conn[x] = "up" => conn'[x] = "up"
    BY <1>2, <2>2 DEF Connect, Register, bridge
  <2>3. ASSUME NEW c \in Clients, SendPut(c) PROVE UNCHANGED <<up, conn, connects>>
    BY <2>3 DEF SendPut, bridge
  <2> QED BY <1>2, <2>1, <2>2, <2>3
<1>4. \A e \in Edits : telling[e] \in Clients =>
        conn[telling[e]] = "up" /\ edit[e].via = telling[e] /\ edit[e].pc # "idle"
  BY DEF TInv, Attached
<1>5. Attached'
  BY <1>1, <1>2, <1>3, <1>4 DEF Attached
<1>6. Saved' = Saved
  BY <1>1 DEF Saved
<1>7. \A c \in Clients : Spoken(c)' = Spoken(c)
  BY <1>1 DEF Spoken
<1> QED BY <1>1, <1>5, <1>6, <1>7, OtherTInv

LEMMA BroadcastTInv ==
  ASSUME TInv, IInv', NEW e \in Edits, Broadcast(e)
  PROVE  TInv'
<1>1. /\ UNCHANGED <<up, store, fate, wire, conn, connects, stops, edit>>
      /\ telling' = [telling EXCEPT ![e] = None]
      /\ frames' = [c \in Clients |-> IF Hears(c) THEN Append(frames[c], FrameOfStore(e)) ELSE frames[c]]
  BY DEF Broadcast, link, runtime
<1>2. /\ frames \in [Clients -> Seq(Msg)] /\ store \in Doc
      /\ telling \in [Edits -> Clients \cup {None, Orphan}]
  BY DEF TInv, IInv, Types
<1>3. FrameOfStore(e) \in Msg /\ FrameOfStore(e).type = "settings"
  BY <1>2, MessageTypes DEF FrameOfStore
<1>4. \A c \in Clients : \A msg \in Spoken(c)' : msg.type = "settings" \/ msg \in Spoken(c)
  <2> SUFFICES ASSUME NEW c \in Clients
               PROVE  Items(frames'[c]) \subseteq Items(frames[c]) \cup {FrameOfStore(e)}
    BY <1>1, <1>3 DEF Spoken
  <2>1. frames'[c] = Append(frames[c], FrameOfStore(e)) \/ frames'[c] = frames[c]
    BY <1>1
  <2>2. Items(Append(frames[c], FrameOfStore(e))) = Items(frames[c]) \cup {FrameOfStore(e)}
    BY <1>2, <1>3, ItemsAppend
  <2> QED BY <2>1, <2>2
<1>5. \A x \in Edits : telling'[x] \in Clients => telling'[x] = telling[x]
  BY <1>1, <1>2
<1>6. Attached'
  BY <1>1, <1>5 DEF TInv, Attached
<1>7. Saved' = Saved
  BY <1>1 DEF Saved
<1> QED BY <1>1, <1>4, <1>6, <1>7, OtherTInv

LEMMA StepTInv ==
  ASSUME IsFiniteSet(Edits), ~FileMayFail, TInv, IInv', [Next]_vars
  PROVE  TInv'
<1>1. ASSUME NEW e \in Edits, Editor(e) \/ Broadcast(e) PROVE TInv'
  BY <1>1, EditorTInv, BroadcastTInv
<1>2. ASSUME NEW c \in Clients, Connect(c) \/ SendPut(c) \/ Register(c) PROVE TInv'
  BY <1>2, SilentTInv
<1>3. ASSUME NEW c \in Clients, HandlePut(c) \/ HandleLeft(c) PROVE TInv'
  BY <1>3, PutTInv
<1>4. ASSUME NEW c \in Clients, SendFirst(c) \/ SendFrame(c) \/ Receive(c) PROVE TInv'
  BY <1>4, MessageTInv DEF Receive
<1>5. ASSUME NEW c \in Clients, Fault(c) PROVE TInv'
  BY <1>5, LeavesTInv DEF Fault
<1>6. CASE Stop
  BY <1>6, StopTInv
<1>7. CASE Start \/ UNCHANGED vars
  BY <1>7, SilentTInv
<1> QED BY <1>1, <1>2, <1>3, <1>4, <1>5, <1>6, <1>7 DEF Next, Serve

LEMMA DocIsDocument ==
  ASSUME IsFiniteSet(Edits), TInv, NEW d \in Doc, Genuine(d)
  PROVE  d \in Documents
<1>1. store.rev \in Nat /\ \A e \in Edits : edit[e].base.rev \in Nat
  BY StoreRevision DEF TInv
<1>2. IsFiniteSet(Saved) /\ Cardinality(Saved) \in Nat
      /\ Cardinality(Edits) \in Nat /\ Cardinality(Saved) <= Cardinality(Edits)
  BY FS_Subset, FS_CardinalityType DEF Saved
<1>3. d.rev \in Nat /\ d.rev <= store.rev
  <2>1. CASE d = Unset
    BY <1>1, <2>1 DEF Unset, Document
  <2>2. CASE d # Unset
    <3>1. d.doc \in Edits /\ fate[d.doc] = "saved" /\ d.rev = edit[d.doc].base.rev + 1
      BY <2>2 DEF Genuine
    <3>2. edit[d.doc].base.rev < store.rev /\ edit[d.doc].base.rev \in Nat
      BY <1>1, <3>1 DEF TInv, IInv, History
    <3> QED BY <1>1, <3>1, <3>2
  <2> QED BY <2>1, <2>2
<1>4. d.rev \in Revisions
  BY <1>1, <1>2, <1>3 DEF TInv, Revisions
<1> QED BY <1>4 DEF Doc, Documents

LEMMA TypesFollow == ASSUME IsFiniteSet(Edits), TInv PROVE TypeOK
<1>1. Types /\ Truth /\ History /\ Attached
  BY DEF TInv, IInv
<1>2. store \in Documents /\ file \in Documents
  BY <1>1, DocIsDocument DEF Types, History
<1>3. view \in [Clients -> Documents] /\ cache \in [Clients -> Documents]
  <2>1. \A c \in Clients : view[c] \in Documents /\ cache[c] \in Documents
    BY <1>1, DocIsDocument DEF Types, Truth
  <2> QED BY <1>1, <2>1 DEF Types
<1>4. Revisions = 0..Cardinality(Edits) /\ Cardinality(Edits) \in Nat /\ store.rev \in Revisions
  <2> QED BY <1>2, FS_CardinalityType DEF Documents, Revisions
<1>5. edit \in [Edits -> [pc : {"idle", "draft", "waiting", "over"}, via : Clients \cup {None},
                          base : Documents, code : Codes, rev : Revisions]]
  <2>1. ASSUME NEW e \in Edits
        PROVE  edit[e] \in [pc : {"idle", "draft", "waiting", "over"}, via : Clients \cup {None},
                            base : Documents, code : Codes, rev : Revisions]
    <3>1. edit[e] \in Edited
      BY <1>1 DEF Types
    <3>2. edit[e].base \in Documents
      <4>1. edit[e].base \in Doc /\ Genuine(edit[e].base)
        BY <1>1, <3>1 DEF Truth, Edited
      <4> QED BY <4>1, DocIsDocument
    <3>3. edit[e].rev \in Nat /\ edit[e].rev <= store.rev
      BY <3>1 DEF Edited, TInv, Reached
    <3>4. edit[e].rev \in Revisions
      BY <1>4, <3>3
    <3> QED BY <3>1, <3>2, <3>4 DEF Edited
  <2> QED BY <1>1, <2>1 DEF Types
<1>6. ASSUME NEW c \in Clients
      PROVE  wire[c] \in Seq(Messages) /\ frames[c] \in Seq(Messages)
  <2>1. ASSUME NEW msg \in Spoken(c)
        PROVE  msg \in Messages
    <3>1. msg \in Msg /\ Good(msg)
      BY <1>1, MessagesTyped DEF Spoken, Truth
    <3>2. CASE msg.type = "settings"
      <4>1. msg \in [type : {"settings"}, doc : Doc] /\ Genuine(msg.doc)
        BY <3>1, <3>2 DEF Msg, Good
      <4>2. msg.doc \in Documents
        BY <4>1, DocIsDocument
      <4> QED BY <4>1, <4>2 DEF Messages
    <3>3. CASE msg.type # "settings"
      <4>1. /\ msg \in [type : {"result"}, edit : Edits, code : Codes, rev : Nat]
            /\ msg.type = "result" /\ msg.rev \in Nat
        BY <3>1, <3>3 DEF Msg
      <4>2. msg.rev <= store.rev
        BY <4>1 DEF TInv, Reached
      <4>3. msg.rev \in Revisions
        BY <1>4, <4>1, <4>2
      <4> QED BY <4>1, <4>3 DEF Messages
    <3> QED BY <3>2, <3>3
  <2>2. wire[c] \in Seq(Msg) /\ frames[c] \in Seq(Msg)
    BY <1>1 DEF Types
  <2>3. ASSUME NEW s \in Seq(Msg), Items(s) \subseteq Messages
        PROVE  s \in Seq(Messages)
    <3>1. Len(s) \in Nat /\ DOMAIN s = 1..Len(s) /\ s = [i \in 1..Len(s) |-> s[i]]
      OBVIOUS
    <3>2. \A i \in 1..Len(s) : s[i] \in Messages
      BY <2>3, <3>1 DEF Items
    <3>3. s \in [1..Len(s) -> Messages]
      BY <3>1, <3>2
    <3> QED BY <3>1, <3>3, SeqDef
  <2> QED BY <2>1, <2>2, <2>3 DEF Spoken
<1>7. \A c \in Clients : {uplink[c], left[c], loop[c]} \subseteq Seq(Edits)
  BY <1>1 DEF Types
<1>8. /\ fate \in [Edits -> {"new", "asked", "saved", "refused"}]
      /\ telling \in [Edits -> Clients \cup {None, Orphan}]
  BY <1>1 DEF Types
<1>9. /\ up \in BOOLEAN
      /\ conn \in [Clients -> {"down", "joining", "registered", "up"}]
      /\ connects \in 0..MaxConnects
      /\ stops \in 0..MaxStops
      /\ \A e \in Edits : telling[e] \in Clients => conn[telling[e]] = "up" /\ edit[e].via = telling[e]
  BY <1>1 DEF Attached
<1> QED BY <1>2, <1>3, <1>5, <1>6, <1>7, <1>8, <1>9 DEF TypeOK

\* Every variable keeps its type: in particular no document, draft or reply
\* tells a revision above the number of saves (a save is accepted once,
\* whatever is sent again, stopped or restarted), and a handler that is still
\* to broadcast belongs to a connection that is up.
THEOREM TypesHold == ASSUME ~FileMayFail, IsFiniteSet(Edits) PROVE Spec => []TypeOK
<1>1. Init => TInv
  BY InitTInv
<1>2. TInv /\ [Next]_vars => TInv'
  BY StepTInv, StepIInv DEF TInv
<1>3. TInv => TypeOK
  BY TypesFollow
<1> QED BY <1>1, <1>2, <1>3, PTL DEF Spec

=============================================================================
