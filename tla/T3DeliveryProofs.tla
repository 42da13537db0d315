-------------------------- MODULE T3DeliveryProofs --------------------------
(***************************************************************************)
(* Proofs about T3Delivery: whatever is lost, late or repeated, a press    *)
(* runs once, for any actions and bounds.                                  *)
(***************************************************************************)
EXTENDS T3Delivery, FiniteSetTheorems, TLAPS

-----------------------------------------------------------------------------
\* What is assumed of the constants: T3 refuses no ticket it granted before, and
\* a thread offers no more different actions than deliveries are remembered
\* (t3.py remembers 256).
Sizes ==
  /\ MaxVersion \in Nat \ {0} /\ MaxEpoch \in Nat \ {0} /\ Memory \in Nat
  /\ OfActions
  /\ IsFiniteSet(Actions) /\ Cardinality(Actions) <= Memory
  /\ ~Refusals

\* Revisions in the order in which T3 comes to them.
Before(a, b) ==
  \/ a[1] < b[1]
  \/ a[1] = b[1] /\ (a[2] < b[2] \/ (a[2] = b[2] /\ a[3] < b[3]))
NotAfter(a, b) == a = b \/ Before(a, b)

\* No fresh read can bring a revision before r: that epoch is over, or shell
\* and detail of the thread are as new as r says, where they are remembered too.
Reached(r) ==
  \/ r[1] < link.epoch
  \/ /\ r[1] = link.epoch
     /\ r[2] <= thread.v /\ r[3] <= thread.v
     /\ job.pc = "detail" => r[2] <= job.sv
     /\ cache.key = r[2] => r[3] <= cache.detail

-----------------------------------------------------------------------------
(* The inductive invariant.                                                *)

Commandments == [key : Keys, mode : BOOLEAN]
Delivered == [key : Keys, ids : Seq(Nat)]

Jobs ==
  [pc : {"idle", "shell", "detail", "check", "send"}, who : {"poll", "press", "after"},
   rev : Revisions \cup {None}, action : Actions \cup {None}, sv : 0..MaxVersion,
   ids : Seq(Nat), i : {1, 2}, attempt : {1, 2}]

Types ==
  /\ thread \in [v : Versions, ran : SUBSET Nat, refused : SUBSET Nat]
  /\ late \subseteq Nat
  /\ link \in [epoch : 1..MaxEpoch, online : BOOLEAN]
  /\ cache \in [key : 0..MaxVersion, detail : 0..MaxVersion]
  /\ offer = None \/ offer \in [rev : Revisions, acts : SUBSET Actions]
  /\ tile = None \/ tile \in [rev : Revisions, mode : {"live", "stale", "uncertain", "denied"}]
  /\ deliveries \in Seq(Delivered) /\ Len(deliveries) <= Memory
  /\ job \in Jobs
  /\ held \subseteq Revisions
  /\ minted \in Seq(Commandments)
  /\ thread.ran \cup thread.refused \cup late \subseteq DOMAIN minted

\* A job that is past the shell knows its version; a press says of what it is.
JobIsWhole ==
  /\ job.pc = "detail" => job.sv \in 1..thread.v
  /\ job.who = "press" => job.rev \in Revisions /\ job.action \in Actions
  /\ job.pc \in {"check", "send"} => job.who = "press"
  /\ job.pc # "send" => job.i = 1 /\ job.attempt = 1

\* The detail that is remembered is at least as new as its shell.
CacheIsWhole ==
  /\ cache.key <= thread.v /\ cache.detail <= thread.v
  /\ cache.key <= cache.detail

\* Commands are made for ever newer revisions.
Grows ==
  /\ offer # None => Reached(offer.rev)
  /\ \A k \in DOMAIN minted :
       /\ Reached(minted[k].key[1])
       /\ offer # None => NotAfter(minted[k].key[1], offer.rev)

\* Has command m run, or may it still run?
Alive(m) == m \in thread.ran \/ (m \in late /\ m \notin thread.refused)

IdsOf(m) == IF minted[m].key[2] \in Plans THEN <<m - 1, m>> ELSE <<m>>

\* Are they the commands of a delivery with this key?
Made(ids, key) ==
  \E m \in DOMAIN minted :
    /\ Message(m) /\ minted[m].key = key /\ ids = IdsOf(m)
    /\ key[2] \in Plans => m - 1 \in DOMAIN minted /\ ~Message(m - 1) 

\* What is remembered: each key once, in the order of the revisions.
MemoryIsWhole ==
  /\ \A n \in DOMAIN deliveries : Made(deliveries[n].ids, deliveries[n].key)
  /\ \A a, b \in DOMAIN deliveries : a < b =>
       /\ deliveries[a].key # deliveries[b].key
       /\ NotAfter(deliveries[a].key[1], deliveries[b].key[1])

Holds(key, ids) == \E n \in DOMAIN deliveries : deliveries[n] = [key |-> key, ids |-> ids]

\* A message that runs is remembered, or the thread is past its revision.
Passed(m) == \E k \in DOMAIN minted : Before(minted[m].key[1], minted[k].key[1])
AliveIsKnown ==
  \A m \in DOMAIN minted : Message(m) /\ Alive(m) =>
    /\ Holds(minted[m].key, IdsOf(m)) \/ Passed(m)
    /\ minted[m].key[2] \in Plans => m - 1 \in thread.ran

\* Of the commands made for one press, one message runs.
OneIsAlive ==
  \A i, j \in DOMAIN minted :
    Message(i) /\ Message(j) /\ Alive(i) /\ Alive(j) /\ minted[i].key = minted[j].key => i = j

\* What is being sent is remembered, its mode before its message.
SendingIsKnown ==
  job.pc = "send" =>
    /\ offer # None /\ offer.rev = job.rev
    /\ Holds(<<job.rev, job.action>>, job.ids)
    /\ job.i \in DOMAIN job.ids
    /\ job.i = 2 => job.ids[1] \in thread.ran

IInv ==
  /\ Types /\ JobIsWhole /\ CacheIsWhole /\ TilesAreWhole /\ Grows /\ MemoryIsWhole /\ AliveIsKnown
  /\ OneIsAlive /\ SendingIsKnown

-----------------------------------------------------------------------------
(* Revisions.                                                              *)

LEMMA RevisionTypes ==
  ASSUME Sizes, NEW r \in Revisions
  PROVE  r[1] \in 1..MaxEpoch /\ r[2] \in Versions /\ r[3] \in 0..MaxVersion
         /\ r = <<r[1], r[2], r[3]>> /\ r # None
BY DEF Revisions, None

LEMMA RevisionOrder ==
  ASSUME Sizes, NEW a \in Revisions, NEW b \in Revisions, NEW c \in Revisions
  PROVE  /\ ~Before(a, a)
         /\ Before(a, b) => ~NotAfter(b, a)
         /\ NotAfter(a, b) /\ NotAfter(b, c) => NotAfter(a, c)
         /\ NotAfter(a, b) /\ a # b => Before(a, b)
<1>1. /\ a[1] \in Int /\ a[2] \in Int /\ a[3] \in Int /\ b[1] \in Int /\ b[2] \in Int /\ b[3] \in Int
      /\ c[1] \in Int /\ c[2] \in Int /\ c[3] \in Int
  BY RevisionTypes DEF Versions, Sizes
<1>2. ~Before(a, a)
  BY <1>1 DEF Before
<1>3. Before(a, b) => ~Before(b, a)
  BY <1>1 DEF Before
<1>4. Before(a, b) /\ Before(b, c) => Before(a, c)
  BY <1>1 DEF Before
<1> QED BY <1>2, <1>3, <1>4 DEF NotAfter

\* What was reached stays reached while link and cache do and time goes on.
LEMMA StaysReached ==
  ASSUME Sizes, Types, link'.epoch = link.epoch, UNCHANGED cache,
         thread'.v \in Versions, thread'.v >= thread.v,
         job'.pc = "detail" => job'.sv \in Versions
                               /\ (job'.sv >= thread.v \/ (job.pc = "detail" /\ job'.sv = job.sv)),
         NEW r \in Revisions, Reached(r)
  PROVE  Reached(r)'
<1>1. r[1] \in Int /\ r[2] \in Int /\ r[3] \in Int /\ thread.v \in Int
  BY RevisionTypes DEF Versions, Sizes, Types
<1> QED BY <1>1 DEF Reached, Versions, Sizes

LEMMA MintedKeys ==
  ASSUME Types, NEW k \in DOMAIN minted
  PROVE  /\ minted[k] \in Commandments /\ minted[k].key \in Keys
         /\ minted[k].key[1] \in Revisions /\ minted[k].key[2] \in Actions
         /\ minted[k].key = <<minted[k].key[1], minted[k].key[2]>>
<1>1. minted[k] \in Commandments
  BY DEF Types
<1>2. minted[k].key \in Keys
  BY <1>1 DEF Commandments
<1> QED BY <1>1, <1>2 DEF Keys

LEMMA StillGrows ==
  ASSUME Sizes, Types, Grows, UNCHANGED <<offer, minted, cache>>, link'.epoch = link.epoch,
         thread'.v \in Versions, thread'.v >= thread.v,
         job'.pc = "detail" => job'.sv \in Versions
                               /\ (job'.sv >= thread.v \/ (job.pc = "detail" /\ job'.sv = job.sv))
  PROVE  Grows'
<1>1. offer # None => offer.rev \in Revisions
  BY DEF Types
<1>2. \A k \in DOMAIN minted : minted[k].key[1] \in Revisions
  BY MintedKeys
<1>3. \A r \in Revisions : Reached(r) => Reached(r)'
  BY StaysReached
<1> QED BY <1>1, <1>2, <1>3 DEF Grows

\* Nothing was made, sent or forgotten.
LEMMA StillKnown ==
  ASSUME IInv, UNCHANGED <<minted, deliveries, late>>,
         thread'.ran = thread.ran, thread'.refused = thread.refused
  PROVE  MemoryIsWhole' /\ AliveIsKnown' /\ OneIsAlive'
<1>1. \A m \in DOMAIN minted : Alive(m)' = Alive(m) /\ Message(m)' = Message(m) /\ IdsOf(m)' = IdsOf(m)
  BY DEF Alive, Message, IdsOf
<1>2. MemoryIsWhole'
  BY DEF IInv, MemoryIsWhole, Made, Message, IdsOf
<1>3. AliveIsKnown'
  BY <1>1 DEF IInv, AliveIsKnown, Holds, Passed
<1>4. OneIsAlive'
  BY <1>1 DEF IInv, OneIsAlive
<1> QED BY <1>2, <1>3, <1>4

LEMMA InitIInv ==
  ASSUME Sizes, Init
  PROVE  IInv
<1>1. job = Idle /\ job \in Jobs
  BY DEF Init, Idle, Jobs, Sizes
<1>2. Types
  BY <1>1 DEF Init, Types, Sizes, Versions, NoDetail
<1>3. JobIsWhole
  BY <1>1 DEF JobIsWhole, Idle
<1> QED BY <1>1, <1>2, <1>3
     DEF IInv, Init, Idle, CacheIsWhole, NoDetail, TilesAreWhole, Grows, MemoryIsWhole, AliveIsKnown,
         OneIsAlive, SendingIsKnown, Alive

-----------------------------------------------------------------------------
(* Steps that read.                                                        *)

LEMMA ChangesIInv ==
  ASSUME Sizes, IInv, Changes
  PROVE  IInv'
<1>1. /\ thread' \in [v : Versions, ran : SUBSET Nat, refused : SUBSET Nat]
      /\ thread'.v = thread.v + 1 /\ thread'.ran = thread.ran /\ thread'.refused = thread.refused
  BY DEF Changes, IInv, Types, Versions, Sizes
<1>2. thread.v \in Int /\ thread'.v \in Versions
  BY <1>1 DEF IInv, Types, Versions
<1>3. Types'
  BY <1>1 DEF Changes, IInv, Types
<1>4. Grows'
  <2>1. job.sv \in Int /\ (job.pc = "detail" => job.sv \in Versions)
    BY <1>2 DEF IInv, Types, Jobs, JobIsWhole, Versions, Sizes
  <2> QED BY <1>1, <1>2, <2>1, StillGrows DEF Changes, IInv
<1>5. JobIsWhole' /\ CacheIsWhole'
  BY <1>1, <1>2 DEF Changes, IInv, Types, JobIsWhole, CacheIsWhole, Jobs, Sizes
<1>6. MemoryIsWhole' /\ AliveIsKnown' /\ OneIsAlive'
  BY <1>1, StillKnown DEF Changes
<1>7. TilesAreWhole' /\ SendingIsKnown'
  BY <1>1 DEF Changes, IInv, TilesAreWhole, SendingIsKnown, Holds
<1> QED BY <1>3, <1>4, <1>5, <1>6, <1>7 DEF IInv

\* A step that only moves the job, and bounds.
LEMMA JobStepIInv ==
  ASSUME Sizes, IInv, UNCHANGED <<thread, late, cache, offer, tile, deliveries, held, minted>>,
         link' \in [epoch : 1..MaxEpoch, online : BOOLEAN], link'.epoch = link.epoch,
         job' \in Jobs, job'.pc # "send",
         job'.pc = "detail" => job'.sv = thread.v,
         job'.who = "press" => job'.rev \in Revisions /\ job'.action \in Actions,
         job'.pc = "check" => job'.who = "press",
         job'.i = 1 /\ job'.attempt = 1
  PROVE  IInv'
<1>1. Types'
  BY DEF IInv, Types
<1>2. JobIsWhole'
  BY DEF IInv, Types, JobIsWhole, Versions
<1>3. thread.v \in Versions /\ thread.v \in Int
  BY DEF IInv, Types, Versions
<1>4. Grows'
  BY <1>3, StillGrows DEF IInv
<1>5. MemoryIsWhole' /\ AliveIsKnown' /\ OneIsAlive'
  BY StillKnown
<1> QED BY <1>1, <1>2, <1>4, <1>5 DEF IInv, CacheIsWhole, TilesAreWhole, SendingIsKnown

LEMMA IdleJob ==
  ASSUME Sizes
  PROVE  Idle \in Jobs /\ Idle.pc = "idle" /\ Idle.who = "poll" /\ Idle.i = 1 /\ Idle.attempt = 1
BY DEF Idle, Jobs, Sizes

LEMMA PollJob ==
  ASSUME Sizes, NEW poll, poll = [Idle EXCEPT !.pc = "shell"]
  PROVE  poll \in Jobs /\ poll.pc = "shell" /\ poll.who = "poll" /\ poll.i = 1 /\ poll.attempt = 1
<1>1. Idle \in Jobs /\ Idle.who = "poll" /\ Idle.i = 1 /\ Idle.attempt = 1
  BY IdleJob
<1> QED BY <1>1 DEF Jobs

LEMMA AfterJob ==
  ASSUME Sizes, NEW after, after = [Idle EXCEPT !.pc = "shell", !.who = "after"]
  PROVE  after \in Jobs /\ after.pc = "shell" /\ after.who = "after" /\ after.i = 1 /\ after.attempt = 1
<1>1. Idle \in Jobs /\ Idle.i = 1 /\ Idle.attempt = 1
  BY IdleJob
<1> QED BY <1>1 DEF Jobs

LEMMA StartsIInv ==
  ASSUME Sizes, IInv,
         PollStarts \/ \E rev \in held, action \in Actions : PressStarts(rev, action)
  PROVE  IInv'
<1>1. CASE PollStarts
  BY <1>1, PollJob, JobStepIInv DEF PollStarts, Rest, IInv, Types
<1>2. ASSUME NEW rev \in held, NEW action \in Actions, PressStarts(rev, action)
      PROVE  IInv'
  <2>1. rev \in Revisions
    BY DEF IInv, Types
  <2>2. job' = [Idle EXCEPT !.pc = "shell", !.who = "press", !.rev = rev, !.action = action]
    BY <1>2 DEF PressStarts
  <2>3. /\ job' \in Jobs /\ job'.pc = "shell" /\ job'.who = "press" /\ job'.rev = rev
        /\ job'.action = action /\ job'.i = 1 /\ job'.attempt = 1
    BY <2>1, <2>2, IdleJob DEF Jobs
  <2>4. UNCHANGED <<thread, late, link, cache, offer, tile, deliveries, held, minted>>
    BY <1>2 DEF PressStarts, Rest
  <2>5. link' \in [epoch : 1..MaxEpoch, online : BOOLEAN]
    BY <2>4 DEF IInv, Types
  <2> QED BY <2>1, <2>3, <2>4, <2>5, JobStepIInv
<1> QED BY <1>1, <1>2

LEMMA ReadShellIInv ==
  ASSUME Sizes, IInv, ReadShell
  PROVE  IInv'
<1>1. job' = [job EXCEPT !.pc = "detail", !.sv = thread.v] /\ job \in Jobs /\ job.pc = "shell"
      /\ thread.v \in 0..MaxVersion
  BY DEF ReadShell, IInv, Types, Versions
<1>2. job' \in Jobs /\ job'.pc = "detail" /\ job'.sv = thread.v /\ job'.who = job.who
      /\ job'.rev = job.rev /\ job'.action = job.action /\ job'.i = job.i /\ job'.attempt = job.attempt
  BY <1>1 DEF Jobs
<1> QED BY <1>1, <1>2, JobStepIInv DEF ReadShell, Rest, IInv, JobIsWhole, Types

LEMMA RefuseIInv ==
  ASSUME Sizes, IInv, Refuse
  PROVE  IInv'
BY IdleJob, JobStepIInv DEF Refuse, Rest, IInv, Types

LEMMA ReadFailsIInv ==
  ASSUME Sizes, IInv, ReadFails
  PROVE  IInv'
<1>1. CASE UNCHANGED cache /\ link' \in [epoch : 1..MaxEpoch, online : BOOLEAN]
           /\ link'.epoch = link.epoch
  BY <1>1, IdleJob, JobStepIInv DEF ReadFails, Rest
<1>2. CASE job.who = "poll" /\ link.online
  <2>1. /\ link' = [epoch |-> link.epoch + 1, online |-> FALSE] /\ cache' = NoDetail
        /\ link.epoch \in 1..MaxEpoch /\ link.epoch < MaxEpoch /\ job' = Idle
        /\ UNCHANGED <<thread, late, minted, offer, tile, deliveries, held>>
    BY <1>2 DEF ReadFails, Rest, IInv, Types
  <2>2. Types'
    BY <2>1, IdleJob DEF IInv, Types, NoDetail, Sizes
  <2>3. JobIsWhole'
    BY <2>1, IdleJob DEF JobIsWhole
  <2>4. CacheIsWhole'
    BY <2>1 DEF IInv, Types, CacheIsWhole, NoDetail, Versions
  <2>5. \A r \in Revisions : Reached(r) => Reached(r)'
    <3> TAKE r \in Revisions
    <3>1. r[1] \in Int
      BY RevisionTypes DEF Sizes
    <3> QED BY <2>1, <3>1 DEF Reached
  <2>6. Grows'
    BY <2>1, <2>5, MintedKeys DEF IInv, Types, Grows
  <2>7. MemoryIsWhole' /\ AliveIsKnown' /\ OneIsAlive'
    BY <2>1, StillKnown
  <2> QED BY <2>1, <2>2, <2>3, <2>4, <2>6, <2>7, IdleJob DEF IInv, TilesAreWhole, SendingIsKnown
<1>3. CASE job.who = "poll" /\ ~link.online
  BY <1>1, <1>3 DEF ReadFails, IInv, Types
<1>4. CASE job.who # "poll"
  BY <1>1, <1>4 DEF ReadFails, IInv, Types
<1> QED BY <1>2, <1>3, <1>4

\* A read that brings the detail dv.
LEMMA BuildsIInv ==
  ASSUME Sizes, IInv, job.pc = "detail",
         NEW dv \in 0..MaxVersion, NEW stale \in BOOLEAN, Builds(dv, stale),
         UNCHANGED <<thread, late, minted, deliveries>>,
         cache' \in [key : 0..MaxVersion, detail : 0..MaxVersion],
         stale => UNCHANGED cache,
         ~stale => /\ cache'.key = job.sv /\ cache'.detail = dv
                   /\ job.sv <= dv /\ dv <= thread.v
                   /\ cache.key = job.sv => cache.detail <= dv
                   /\ dv = thread.v \/ cache.key = job.sv
  PROVE  IInv'
<1>1. /\ link.epoch \in 1..MaxEpoch /\ job.sv \in Versions /\ thread.v \in Versions
      /\ job.sv <= thread.v /\ link.epoch \in Int /\ job.sv \in Int /\ thread.v \in Int /\ dv \in Int
  <2>1. link.epoch \in 1..MaxEpoch /\ thread.v \in 1..MaxVersion
    BY DEF IInv, Types, Versions
  <2>2. job.sv \in 1..thread.v
    BY DEF IInv, JobIsWhole
  <2> QED BY <2>1, <2>2 DEF Versions, Sizes
<1>2. PICK rev \in Revisions : rev = Revision(dv) /\ rev = <<link.epoch, job.sv, dv>>
  BY <1>1 DEF Revision, Revisions
<1>3. rev[1] = link.epoch /\ rev[2] = job.sv /\ rev[3] = dv
  BY <1>2
<1>4. /\ offer' = IF stale THEN None ELSE [rev |-> rev, acts |-> Offered(dv)]
      /\ \E mode \in {"live", "stale", "uncertain", "denied"} :
           tile' = [rev |-> rev, mode |-> mode] /\ (mode = "live" => ~stale)
      /\ held' \subseteq held \cup {rev}
      /\ job' = IF job.who = "press" THEN [job EXCEPT !.pc = "check"] ELSE Idle
      /\ link' = IF job.who = "poll" THEN [link EXCEPT !.online = TRUE] ELSE link
  BY <1>2 DEF Builds
<1>5. Offered(dv) \subseteq Actions
  BY DEF Offered, OffersAt
<1>6. link' \in [epoch : 1..MaxEpoch, online : BOOLEAN] /\ link'.epoch = link.epoch
  BY <1>4 DEF IInv, Types
<1>7. /\ job' \in Jobs /\ job'.pc \in {"idle", "check"} /\ job'.i = 1 /\ job'.attempt = 1
      /\ job'.pc = "check" => job'.who = "press"
      /\ job'.who = "press" => job'.rev \in Revisions /\ job'.action \in Actions
  <2>1. job \in Jobs /\ job.i = 1 /\ job.attempt = 1
    BY DEF IInv, Types, JobIsWhole
  <2>2. CASE job.who = "press"
    BY <1>4, <2>1, <2>2 DEF Jobs, IInv, JobIsWhole
  <2>3. CASE job.who # "press"
    BY <1>4, <2>3, IdleJob
  <2> QED BY <2>2, <2>3
<1>8. Types'
  <2>1. offer' = None \/ offer' \in [rev : Revisions, acts : SUBSET Actions]
    BY <1>2, <1>4, <1>5
  <2>2. tile' \in [rev : Revisions, mode : {"live", "stale", "uncertain", "denied"}]
    BY <1>2, <1>4
  <2>3. held' \subseteq Revisions
    BY <1>2, <1>4 DEF IInv, Types
  <2> QED BY <1>6, <1>7, <2>1, <2>2, <2>3 DEF IInv, Types
<1>9. JobIsWhole'
  BY <1>7 DEF JobIsWhole
<1>10. CacheIsWhole'
  BY <1>1, <1>3 DEF IInv, CacheIsWhole
<1>11. TilesAreWhole'
  BY <1>3, <1>4 DEF TilesAreWhole
<1>12. Grows'
  <2>1. CASE stale
    <3>1. thread'.v = thread.v /\ thread'.v >= thread.v /\ job'.pc # "detail"
      BY <1>1, <1>7
    <3>2. \A r \in Revisions : Reached(r) => Reached(r)'
      BY <1>1, <1>6, <2>1, <3>1, StaysReached DEF IInv
    <3> QED BY <1>4, <2>1, <3>2, MintedKeys DEF Grows, IInv
  <2>2. CASE ~stale
    <3>1. ASSUME NEW r \in Revisions, Reached(r)
          PROVE  Reached(r)' /\ NotAfter(r, rev)
      <4>1. r[1] \in Int /\ r[2] \in Int /\ r[3] \in Int /\ dv \in Int /\ link.epoch \in Int
        BY <1>1, RevisionTypes DEF Versions, Sizes
      <4>2. CASE r[1] < link.epoch
        BY <1>3, <1>6, <4>2 DEF Reached, NotAfter, Before
      <4>3. CASE r[1] = link.epoch
        <5>1. r[2] <= job.sv /\ (r[2] = job.sv => r[3] <= dv) /\ r[3] <= thread.v /\ r[2] <= thread.v
          <6>1. /\ r[2] <= job.sv /\ r[2] <= thread.v /\ r[3] <= thread.v
                /\ cache.key = r[2] => r[3] <= cache.detail
            BY <3>1, <4>1, <4>3, <1>1 DEF Reached
          <6>2. cache.detail \in Int
            BY DEF IInv, Types
          <6> QED BY <1>1, <2>2, <4>1, <6>1, <6>2
        <5>2. Reached(r)'
          BY <1>6, <1>7, <2>2, <4>3, <5>1 DEF Reached
        <5>3. CASE r[2] < job.sv \/ r[3] < dv
          <6>1. r[1] = rev[1] /\ (r[2] < rev[2] \/ (r[2] = rev[2] /\ r[3] < rev[3]))
            BY <1>1, <1>3, <4>1, <4>3, <5>1, <5>3
          <6> QED BY <5>2, <6>1 DEF NotAfter, Before
        <5>4. CASE r[2] = job.sv /\ r[3] = dv
          <6>1. r = <<r[1], r[2], r[3]>>
            BY RevisionTypes
          <6>2. r = rev
            BY <1>2, <4>3, <5>4, <6>1
          <6> QED BY <5>2, <6>2 DEF NotAfter
        <5> QED BY <1>1, <4>1, <5>1, <5>2, <5>3, <5>4 DEF Versions
      <4> QED BY <3>1, <4>1, <4>2, <4>3 DEF Reached
    <3>2. offer'.rev = rev
      BY <1>4, <2>2
    <3>3. Reached(rev)'
      BY <1>1, <1>3, <1>6, <1>7, <2>2 DEF Reached
    <3>4. \A k \in DOMAIN minted : Reached(minted[k].key[1])' /\ NotAfter(minted[k].key[1], rev)
      BY <3>1, MintedKeys DEF Grows, IInv
    <3> QED BY <3>2, <3>3, <3>4 DEF Grows
  <2> QED BY <2>1, <2>2
<1>13. MemoryIsWhole' /\ AliveIsKnown' /\ OneIsAlive'
  BY StillKnown
<1>14. SendingIsKnown'
  BY <1>7 DEF SendingIsKnown
<1> QED BY <1>8, <1>9, <1>10, <1>11, <1>12, <1>13, <1>14 DEF IInv

LEMMA RefreshIInv ==
  ASSUME Sizes, IInv, Refresh
  PROVE  IInv'
<1>1. /\ job.pc = "detail" /\ UNCHANGED <<thread, late, minted, deliveries>>
      /\ cache \in [key : 0..MaxVersion, detail : 0..MaxVersion] /\ thread.v \in Versions
      /\ job.sv \in Versions /\ job.sv <= thread.v
      /\ cache.key <= cache.detail /\ cache.detail <= thread.v
  <2>1. job.pc = "detail" /\ UNCHANGED <<thread, late, minted, deliveries>>
    BY DEF Refresh, Rest
  <2>2. thread.v \in 1..MaxVersion /\ cache \in [key : 0..MaxVersion, detail : 0..MaxVersion]
    BY DEF IInv, Types, Versions
  <2>3. job.sv \in 1..thread.v
    BY <2>1 DEF IInv, JobIsWhole
  <2> QED BY <2>1, <2>2, <2>3 DEF IInv, CacheIsWhole, Versions, Sizes
<1>2. thread.v \in 0..MaxVersion /\ job.sv \in 0..MaxVersion
  BY <1>1 DEF Versions
<1>3. CASE ~Fetches /\ Builds(cache.detail, FALSE) /\ UNCHANGED cache
  <2>1. cache.key = job.sv
    BY <1>3 DEF Fetches
  <2>2. /\ cache.detail \in 0..MaxVersion /\ job.sv <= cache.detail /\ cache.detail <= thread.v
        /\ cache'.key = job.sv /\ cache'.detail = cache.detail /\ cache.detail <= cache.detail
        /\ cache' \in [key : 0..MaxVersion, detail : 0..MaxVersion]
    BY <1>1, <1>3, <2>1
  <2> QED BY <1>1, <1>3, <2>1, <2>2, BuildsIInv
<1>4. CASE cache' = [key |-> job.sv, detail |-> thread.v] /\ Builds(thread.v, FALSE)
  <2>1. /\ cache' \in [key : 0..MaxVersion, detail : 0..MaxVersion]
        /\ cache'.key = job.sv /\ cache'.detail = thread.v /\ thread.v <= thread.v
    BY <1>1, <1>2, <1>4 DEF Versions
  <2> QED BY <1>1, <1>2, <1>4, <2>1, BuildsIInv
<1>5. CASE Builds(cache.detail, TRUE) /\ UNCHANGED cache
  <2>1. cache.detail \in 0..MaxVersion
    BY <1>1
  <2> QED BY <1>1, <1>5, <2>1, BuildsIInv
<1> QED BY <1>3, <1>4, <1>5 DEF Refresh

-----------------------------------------------------------------------------
(* Steps that send.                                                        *)

\* Nothing was made or forgotten, and no message came alive.
LEMMA NoneCameAlive ==
  ASSUME IInv, UNCHANGED <<minted, deliveries>>, thread.ran \subseteq thread'.ran,
         \A m \in DOMAIN minted : Message(m) /\ Alive(m)' => Alive(m)
  PROVE  MemoryIsWhole' /\ AliveIsKnown' /\ OneIsAlive'
<1>1. \A m \in DOMAIN minted : Message(m)' = Message(m) /\ IdsOf(m)' = IdsOf(m)
  BY DEF Message, IdsOf
<1>2. MemoryIsWhole'
  BY DEF IInv, MemoryIsWhole, Made, Message, IdsOf
<1>3. AliveIsKnown'
  <2> SUFFICES ASSUME NEW m \in DOMAIN minted, Message(m)', Alive(m)'
               PROVE  /\ Holds(minted[m].key, IdsOf(m))' \/ Passed(m)'
                      /\ minted[m].key[2] \in Plans => m - 1 \in thread'.ran
    BY DEF AliveIsKnown
  <2>1. /\ Holds(minted[m].key, IdsOf(m)) \/ Passed(m)
        /\ minted[m].key[2] \in Plans => m - 1 \in thread.ran
    BY <1>1 DEF IInv, AliveIsKnown
  <2>2. Holds(minted[m].key, IdsOf(m))' <=> Holds(minted[m].key, IdsOf(m))
    BY <1>1 DEF Holds
  <2>3. Passed(m)' <=> Passed(m)
    BY DEF Passed
  <2> QED BY <2>1, <2>2, <2>3
<1>4. OneIsAlive'
  BY <1>1 DEF IInv, OneIsAlive
<1> QED BY <1>2, <1>3, <1>4

LEMMA ReadsLateIInv ==
  ASSUME Sizes, IInv, NEW id \in late, ReadsLate(id)
  PROVE  IInv'
<1>1. /\ UNCHANGED <<link, cache, offer, tile, deliveries, job, held, minted>>
      /\ late' = late \ {id}
  BY DEF ReadsLate
<1>2. thread \in [v : Versions, ran : SUBSET Nat, refused : SUBSET Nat] /\ id \in Nat /\ id \in DOMAIN minted
  BY DEF IInv, Types
<1>3. /\ thread' \in [v : Versions, ran : SUBSET Nat, refused : SUBSET Nat]
      /\ thread'.v = thread.v
      /\ thread.ran \subseteq thread'.ran /\ thread.refused \subseteq thread'.refused
      /\ thread'.ran \subseteq thread.ran \cup {id} /\ thread'.refused \subseteq thread.refused \cup {id}
      /\ id \in thread'.ran => id \notin thread.refused
  BY <1>2 DEF ReadsLate, Runs, Refuses
<1>4. \A m \in DOMAIN minted : Alive(m)' => Alive(m)
  BY <1>1, <1>3 DEF Alive
<1>5. MemoryIsWhole' /\ AliveIsKnown' /\ OneIsAlive'
  BY <1>1, <1>3, <1>4, NoneCameAlive
<1>6. Types'
  BY <1>1, <1>2, <1>3 DEF IInv, Types
<1>7. Grows'
  <2>1. thread.v \in Int /\ thread'.v >= thread.v /\ thread'.v \in Versions /\ link'.epoch = link.epoch
    BY <1>1, <1>2, <1>3 DEF Versions
  <2>2. job'.pc = "detail" => job'.sv \in Versions /\ job.pc = "detail" /\ job'.sv = job.sv
    BY <1>1, <1>2 DEF IInv, JobIsWhole, Versions, Sizes
  <2> QED BY <1>1, <2>1, <2>2, StillGrows DEF IInv
<1>8. JobIsWhole' /\ CacheIsWhole' /\ TilesAreWhole'
  BY <1>1, <1>3 DEF IInv, JobIsWhole, CacheIsWhole, TilesAreWhole
<1>9. SendingIsKnown'
  BY <1>1, <1>3 DEF IInv, SendingIsKnown, Holds
<1> QED BY <1>5, <1>6, <1>7, <1>8, <1>9 DEF IInv

\* What is being sent are the commands of one message, the only one of its key
\* that can be alive.
LEMMA Sent ==
  ASSUME Sizes, IInv, job.pc = "send"
  PROVE  \E m \in DOMAIN minted :
           /\ Message(m) /\ minted[m].key = KeyOf(job) /\ job.ids = IdsOf(m)
           /\ Holds(KeyOf(job), IdsOf(m))
           /\ job.action \in Plans => m - 1 \in DOMAIN minted /\ ~Message(m - 1)
           /\ \A x \in DOMAIN minted : Message(x) /\ minted[x].key = KeyOf(job) /\ Alive(x) => x = m
<1>1. /\ offer # None /\ offer.rev = job.rev /\ Holds(<<job.rev, job.action>>, job.ids)
  BY DEF IInv, SendingIsKnown
<1>2. KeyOf(job) = <<job.rev, job.action>> /\ KeyOf(job)[1] = job.rev /\ KeyOf(job)[2] = job.action
  BY DEF KeyOf
<1>3. PICK n \in DOMAIN deliveries : deliveries[n] = [key |-> KeyOf(job), ids |-> job.ids]
  BY <1>1, <1>2 DEF Holds
<1>4. deliveries[n].key = KeyOf(job) /\ deliveries[n].ids = job.ids
  BY <1>3
<1>5. Made(job.ids, KeyOf(job))
  BY <1>3, <1>4 DEF IInv, MemoryIsWhole
<1>6. PICK m \in DOMAIN minted :
        /\ Message(m) /\ minted[m].key = KeyOf(job) /\ job.ids = IdsOf(m)
        /\ KeyOf(job)[2] \in Plans => m - 1 \in DOMAIN minted /\ ~Message(m - 1)
  BY <1>5 DEF Made
<1>7. Holds(KeyOf(job), IdsOf(m))
  BY <1>1, <1>2, <1>6
<1>8. ASSUME NEW x \in DOMAIN minted, Message(x), minted[x].key = KeyOf(job), Alive(x)
      PROVE  x = m
  <2>1. Holds(KeyOf(job), IdsOf(x)) \/ Passed(x)
    BY <1>8 DEF IInv, AliveIsKnown
  <2>2. CASE Passed(x)
    <3>1. PICK k \in DOMAIN minted : Before(job.rev, minted[k].key[1])
      BY <1>2, <1>8, <2>2 DEF Passed
    <3>2. NotAfter(minted[k].key[1], job.rev)
      BY <1>1 DEF IInv, Grows
    <3>3. minted[k].key[1] \in Revisions /\ job.rev \in Revisions
      BY <1>2, <1>6, MintedKeys DEF IInv
    <3> QED BY <3>1, <3>2, <3>3, RevisionOrder
  <2>3. CASE Holds(KeyOf(job), IdsOf(x))
    <3>1. PICK k \in DOMAIN deliveries : deliveries[k] = [key |-> KeyOf(job), ids |-> IdsOf(x)]
      BY <2>3 DEF Holds
    <3>2. deliveries[k].key = deliveries[n].key /\ k \in Int /\ n \in Int
      BY <1>4, <3>1 DEF IInv, Types
    <3>3. k = n
      BY <3>2 DEF IInv, MemoryIsWhole
    <3>4. IdsOf(x) = IdsOf(m)
      BY <1>4, <1>6, <3>1, <3>3
    <3>5. x \in Int /\ m \in Int
      BY DEF IInv, Types
    <3> QED BY <1>6, <1>8, <3>4, <3>5 DEF IdsOf
  <2> QED BY <2>1, <2>2, <2>3
<1> QED BY <1>2, <1>6, <1>7, <1>8

\* The command that is sent is the message, or the mode before it.
LEMMA SentCommand ==
  ASSUME Sizes, IInv, job.pc = "send", NEW m \in DOMAIN minted, job.ids = IdsOf(m),
         minted[m].key = KeyOf(job), job.action \in Plans => m - 1 \in DOMAIN minted
  PROVE  /\ Command \in DOMAIN minted /\ job.i \in {1, 2} /\ Len(job.ids) \in {1, 2}
         /\ \/ Command = m /\ job.i = Len(job.ids)
            \/ Command = m - 1 /\ job.i = 1 /\ Len(job.ids) = 2
         /\ Len(job.ids) = 2 <=> job.action \in Plans
         /\ job.i = 2 => m - 1 \in thread.ran
         /\ job.ids[Len(job.ids)] = m
         /\ Len(job.ids) = 2 => job.ids[1] = m - 1
<1>1. KeyOf(job)[2] = job.action
  BY DEF KeyOf
<1>2. job.ids = IF job.action \in Plans THEN <<m - 1, m>> ELSE <<m>>
  BY <1>1 DEF IdsOf
<1>3. job.i \in DOMAIN job.ids /\ (job.i = 2 => job.ids[1] \in thread.ran) /\ job.i \in {1, 2}
  BY DEF IInv, Types, Jobs, SendingIsKnown
<1>4. CASE job.action \in Plans
  <2>1. job.ids = <<m - 1, m>>
    BY <1>2, <1>4
  <2>2. Len(job.ids) = 2 /\ job.ids[1] = m - 1 /\ job.ids[2] = m
    BY <2>1
  <2>3. CASE job.i = 1
    <3>1. Command = m - 1
      BY <2>2, <2>3 DEF Command
    <3> QED BY <1>3, <1>4, <2>2, <2>3, <3>1
  <2>4. CASE job.i = 2
    <3>1. Command = m
      BY <2>2, <2>4 DEF Command
    <3> QED BY <1>3, <1>4, <2>2, <2>4, <3>1
  <2> QED BY <1>3, <2>3, <2>4
<1>5. CASE job.action \notin Plans
  <2>1. job.ids = <<m>>
    BY <1>2, <1>5
  <2>2. Len(job.ids) = 1 /\ job.ids[1] = m /\ DOMAIN job.ids = {1}
    BY <2>1
  <2>3. Command = m /\ job.i = 1
    BY <1>3, <2>2 DEF Command
  <2> QED BY <1>3, <1>5, <2>2, <2>3
<1> QED BY <1>4, <1>5

\* T3 read the command that is sent, or may read it later: nothing is forgotten.
LEMMA SendingKeeps ==
  ASSUME Sizes, IInv, job.pc = "send", UNCHANGED <<minted, deliveries>>,
         thread.ran \subseteq thread'.ran, thread'.ran \subseteq thread.ran \cup {Command},
         thread.refused \subseteq thread'.refused, late' \subseteq late \cup {Command}
  PROVE  MemoryIsWhole' /\ AliveIsKnown' /\ OneIsAlive'
<1>1. PICK m \in DOMAIN minted :
        /\ Message(m) /\ minted[m].key = KeyOf(job) /\ job.ids = IdsOf(m)
        /\ Holds(KeyOf(job), IdsOf(m))
        /\ job.action \in Plans => m - 1 \in DOMAIN minted /\ ~Message(m - 1)
        /\ \A x \in DOMAIN minted : Message(x) /\ minted[x].key = KeyOf(job) /\ Alive(x) => x = m
  BY Sent
<1>2. /\ \/ Command = m /\ job.i = Len(job.ids)
         \/ Command = m - 1 /\ ~Message(m - 1)
      /\ Command = m /\ job.action \in Plans => m - 1 \in thread.ran
  <2>1. m \in Int
    BY DEF IInv, Types
  <2> QED BY <1>1, <2>1, SentCommand
<1>3. \A x \in DOMAIN minted : Message(x) /\ Alive(x)' => Alive(x) \/ x = m
  BY <1>2 DEF Alive
<1>4. \A x \in DOMAIN minted : Message(x)' = Message(x) /\ IdsOf(x)' = IdsOf(x)
  BY DEF Message, IdsOf
<1>5. \A key, ids : Holds(key, ids)' <=> Holds(key, ids)
  BY DEF Holds
<1>6. MemoryIsWhole'
  BY DEF IInv, MemoryIsWhole, Made, Message, IdsOf
<1>7. AliveIsKnown'
  <2> SUFFICES ASSUME NEW x \in DOMAIN minted, Message(x), Alive(x)'
               PROVE  /\ Holds(minted[x].key, IdsOf(x))' \/ Passed(x)'
                      /\ minted[x].key[2] \in Plans => x - 1 \in thread'.ran
    BY <1>4 DEF AliveIsKnown
  <2>1. CASE Alive(x)
    <3>1. Passed(x)' <=> Passed(x)
      BY DEF Passed
    <3>2. Holds(minted[x].key, IdsOf(x))' <=> Holds(minted[x].key, IdsOf(x))
      BY <1>4 DEF Holds
    <3> QED BY <2>1, <3>1, <3>2 DEF IInv, AliveIsKnown
  <2>2. CASE ~Alive(x) /\ x = m
    <3>1. Holds(minted[x].key, IdsOf(x))'
      BY <1>1, <1>4, <2>2 DEF Holds
    <3>2. Command = m
      BY <1>2, <2>2 DEF Alive
    <3>3. minted[x].key[2] = job.action
      BY <1>1, <2>2 DEF KeyOf
    <3> QED BY <1>2, <2>2, <3>1, <3>2, <3>3
  <2> QED BY <1>3, <2>1, <2>2
<1>8. OneIsAlive'
  <2> SUFFICES ASSUME NEW x \in DOMAIN minted, NEW y \in DOMAIN minted, Message(x), Message(y),
                      Alive(x)', Alive(y)', minted[x].key = minted[y].key
               PROVE  x = y
    BY <1>4 DEF OneIsAlive
  <2>1. (Alive(x) \/ x = m) /\ (Alive(y) \/ y = m)
    BY <1>3
  <2> QED BY <1>1, <2>1 DEF IInv, OneIsAlive
<1> QED BY <1>6, <1>7, <1>8

\* The sequence without the delivery of a key.
LEMMA Forgotten ==
  ASSUME Sizes, IInv, NEW key
  PROVE  /\ Without(key) \in Seq(Delivered) /\ Len(Without(key)) <= Memory
         /\ \A i \in DOMAIN Without(key) :
              \E k \in DOMAIN deliveries : Without(key)[i] = deliveries[k] /\ deliveries[k].key # key
         /\ \A i, j \in DOMAIN Without(key) : i < j =>
              \E k, n \in DOMAIN deliveries :
                k < n /\ Without(key)[i] = deliveries[k] /\ Without(key)[j] = deliveries[n]
         /\ \A k \in DOMAIN deliveries : deliveries[k].key # key =>
              \E i \in DOMAIN Without(key) : Without(key)[i] = deliveries[k]
<1>1. /\ deliveries \in Seq(Delivered) /\ Len(deliveries) \in Nat /\ Len(deliveries) <= Memory
      /\ DOMAIN deliveries = 1..Len(deliveries) /\ Memory \in Nat
  BY DEF IInv, Types, Sizes
<1>2. \A a, b \in DOMAIN deliveries : a # b => deliveries[a].key # deliveries[b].key
  BY <1>1 DEF IInv, MemoryIsWhole
<1>3. CASE Remembered(key) = {}
  <2>1. Without(key) = deliveries
    BY <1>3 DEF Without
  <2>2. \A k \in DOMAIN deliveries : deliveries[k].key # key
    BY <1>3 DEF Remembered
  <2> QED BY <1>1, <2>1, <2>2
<1>4. CASE Remembered(key) # {}
  <2> DEFINE n == CHOOSE x \in Remembered(key) : TRUE
             w == [i \in 1..Len(deliveries) - 1 |-> IF i < n THEN deliveries[i] ELSE deliveries[i + 1]]
  <2>1. Without(key) = w
    BY <1>4 DEF Without
  <2>2. n \in 1..Len(deliveries) /\ deliveries[n].key = key /\ n \in Nat
    BY <1>1, <1>4 DEF Remembered
  <2> HIDE DEF n
  <2>3. /\ w \in Seq(Delivered) /\ Len(w) = Len(deliveries) - 1 /\ DOMAIN w = 1..(Len(deliveries) - 1)
        /\ \A i \in DOMAIN w : w[i] = IF i < n THEN deliveries[i] ELSE deliveries[i + 1]
    <3>1. \A i \in 1..(Len(deliveries) - 1) :
            i \in DOMAIN deliveries /\ i + 1 \in DOMAIN deliveries
            /\ deliveries[i] \in Delivered /\ deliveries[i + 1] \in Delivered
      BY <1>1
    <3>2. Len(deliveries) - 1 \in Nat
      BY <1>1, <2>2
    <3> QED BY <3>1, <3>2
  <2> HIDE DEF w
  <2>4. ASSUME NEW i \in DOMAIN w
        PROVE  \E k \in DOMAIN deliveries : w[i] = deliveries[k] /\ deliveries[k].key # key
    <3>1. CASE i < n
      BY <1>1, <1>2, <2>2, <2>3, <3>1
    <3>2. CASE ~(i < n)
      <4>1. i + 1 \in DOMAIN deliveries /\ i + 1 # n /\ w[i] = deliveries[i + 1]
        BY <1>1, <2>2, <2>3, <3>2
      <4> QED BY <1>1, <1>2, <2>2, <4>1
    <3> QED BY <3>1, <3>2
  <2>5. ASSUME NEW i \in DOMAIN w, NEW j \in DOMAIN w, i < j
        PROVE  \E k, x \in DOMAIN deliveries : k < x /\ w[i] = deliveries[k] /\ w[j] = deliveries[x]
    <3> DEFINE a == IF i < n THEN i ELSE i + 1
               b == IF j < n THEN j ELSE j + 1
    <3>1. a \in DOMAIN deliveries /\ b \in DOMAIN deliveries /\ a < b
      BY <1>1, <2>2, <2>3, <2>5
    <3>2. w[i] = deliveries[a] /\ w[j] = deliveries[b]
      BY <2>3
    <3> QED BY <3>1, <3>2
  <2>6. ASSUME NEW k \in DOMAIN deliveries, deliveries[k].key # key
        PROVE  \E i \in DOMAIN w : w[i] = deliveries[k]
    <3>1. k # n
      BY <2>2, <2>6
    <3>2. CASE k < n
      BY <1>1, <2>2, <2>3, <3>2
    <3>3. CASE k > n
      <4>1. k - 1 \in DOMAIN w /\ ~(k - 1 < n) /\ (k - 1) + 1 = k
        BY <1>1, <2>2, <2>3, <3>3
      <4>2. w[k - 1] = deliveries[k]
        BY <2>3, <4>1
      <4> QED BY <4>1, <4>2
    <3> QED BY <1>1, <2>2, <3>1, <3>2, <3>3
  <2>7. Len(w) <= Memory
    BY <1>1, <2>3
  <2> QED BY <2>1, <2>3, <2>4, <2>5, <2>6, <2>7
<1> QED BY <1>3, <1>4

\* A delivery is forgotten that has no message alive.
LEMMA ForgettingKeeps ==
  ASSUME Sizes, IInv, NEW key, deliveries' = Without(key), UNCHANGED minted,
         thread.ran \subseteq thread'.ran,
         \A m \in DOMAIN minted : Message(m) /\ Alive(m)' => Alive(m) /\ minted[m].key # key
  PROVE  MemoryIsWhole' /\ AliveIsKnown' /\ OneIsAlive'
<1>1. \A x \in DOMAIN minted : Message(x)' = Message(x) /\ IdsOf(x)' = IdsOf(x)
  BY DEF Message, IdsOf
<1>2. \A ids, k : Made(ids, k)' <=> Made(ids, k)
  BY DEF Made, Message, IdsOf
<1>3. /\ \A i \in DOMAIN deliveries' :
           \E k \in DOMAIN deliveries : deliveries'[i] = deliveries[k] /\ deliveries[k].key # key
      /\ \A i, j \in DOMAIN deliveries' : i < j =>
           \E k, n \in DOMAIN deliveries :
             k < n /\ deliveries'[i] = deliveries[k] /\ deliveries'[j] = deliveries[n]
      /\ \A k \in DOMAIN deliveries : deliveries[k].key # key =>
           \E i \in DOMAIN deliveries' : deliveries'[i] = deliveries[k]
  BY Forgotten
<1>4. MemoryIsWhole'
  <2>1. ASSUME NEW i \in DOMAIN deliveries', NEW ids, NEW k, ids = deliveries'[i].ids, k = deliveries'[i].key
        PROVE  Made(ids, k)'
    <3>1. PICK n \in DOMAIN deliveries : deliveries'[i] = deliveries[n]
      BY <1>3
    <3>2. Made(deliveries[n].ids, deliveries[n].key)
      BY DEF IInv, MemoryIsWhole
    <3>3. Made(ids, k)
      BY <2>1, <3>1, <3>2
    <3> QED BY <1>2, <3>3
  <2>2. \A a, b \in DOMAIN deliveries' : a < b =>
          /\ deliveries'[a].key # deliveries'[b].key
          /\ NotAfter(deliveries'[a].key[1], deliveries'[b].key[1])
    <3> TAKE a, b \in DOMAIN deliveries'
    <3> SUFFICES ASSUME a < b
                 PROVE  /\ deliveries'[a].key # deliveries'[b].key
                        /\ NotAfter(deliveries'[a].key[1], deliveries'[b].key[1])
      OBVIOUS
    <3>1. PICK k \in DOMAIN deliveries, n \in DOMAIN deliveries :
            k < n /\ deliveries'[a] = deliveries[k] /\ deliveries'[b] = deliveries[n]
      BY <1>3
    <3> QED BY <3>1 DEF IInv, MemoryIsWhole
  <2> QED BY <2>1, <2>2 DEF MemoryIsWhole
<1>5. AliveIsKnown'
  <2> SUFFICES ASSUME NEW x \in DOMAIN minted, Message(x), Alive(x)'
               PROVE  /\ Holds(minted[x].key, IdsOf(x))' \/ Passed(x)'
                      /\ minted[x].key[2] \in Plans => x - 1 \in thread'.ran
    BY <1>1 DEF AliveIsKnown
  <2>1. /\ Holds(minted[x].key, IdsOf(x)) \/ Passed(x)
        /\ minted[x].key[2] \in Plans => x - 1 \in thread.ran
        /\ minted[x].key # key
    BY DEF IInv, AliveIsKnown
  <2>2. Passed(x)' <=> Passed(x)
    BY DEF Passed
  <2>3. ASSUME Holds(minted[x].key, IdsOf(x)) PROVE Holds(minted[x].key, IdsOf(x))'
    <3>1. PICK k \in DOMAIN deliveries : deliveries[k] = [key |-> minted[x].key, ids |-> IdsOf(x)]
      BY <2>3 DEF Holds
    <3>2. PICK i \in DOMAIN deliveries' : deliveries'[i] = deliveries[k]
      BY <1>3, <2>1, <3>1
    <3> QED BY <1>1, <3>1, <3>2 DEF Holds
  <2> QED BY <2>1, <2>2, <2>3
<1>6. OneIsAlive'
  BY <1>1 DEF IInv, OneIsAlive
<1> QED BY <1>4, <1>5, <1>6


\* What a step that sends leaves alone.
LEMMA SendStepIInv ==
  ASSUME Sizes, IInv, UNCHANGED <<link, cache, offer, tile, held, minted>>,
         thread' \in [v : Versions, ran : SUBSET Nat, refused : SUBSET Nat], thread'.v = thread.v,
         late' \subseteq Nat, thread'.ran \cup thread'.refused \cup late' \subseteq DOMAIN minted,
         deliveries' \in Seq(Delivered), Len(deliveries') <= Memory,
         MemoryIsWhole', AliveIsKnown', OneIsAlive', SendingIsKnown',
         job' \in Jobs, job'.pc \in {"shell", "send"},
         job'.who = "press" => job'.rev \in Revisions /\ job'.action \in Actions,
         job'.pc = "send" => job'.who = "press",
         job'.pc = "shell" => job'.i = 1 /\ job'.attempt = 1
  PROVE  IInv'
<1>1. Types'
  BY DEF IInv, Types
<1>2. JobIsWhole'
  BY DEF JobIsWhole
<1>3. thread.v \in Int /\ thread'.v >= thread.v /\ thread'.v \in Versions
  BY DEF IInv, Types, Versions
<1>4. Grows'
  BY <1>3, StillGrows DEF IInv
<1>5. CacheIsWhole' /\ TilesAreWhole'
  BY DEF IInv, CacheIsWhole, TilesAreWhole
<1> QED BY <1>1, <1>2, <1>4, <1>5 DEF IInv

\* A delivery that ended: the thread is read again.
LEMMA Ended ==
  ASSUME Sizes, NEW outcome, Ends(outcome)
  PROVE  /\ job' \in Jobs /\ job'.pc = "shell" /\ job'.who = "after" /\ job'.i = 1 /\ job'.attempt = 1
         /\ deliveries' = IF outcome = "rejected" THEN Without(KeyOf(job)) ELSE deliveries
<1>1. job' = [Idle EXCEPT !.pc = "shell", !.who = "after"]
  BY DEF Ends, After
<1> QED BY <1>1, AfterJob DEF Ends, Forgets

LEMMA AcceptedIInv ==
  ASSUME Sizes, IInv, Accepted
  PROVE  IInv'
<1>1. /\ job.pc = "send" /\ Command \notin thread.refused
      /\ thread' = [thread EXCEPT !.ran = thread.ran \cup {Command}]
      /\ UNCHANGED <<minted, link, cache, offer, tile, held, late>>
  BY DEF Accepted, Runs, Kept
<1>2. PICK m \in DOMAIN minted :
        /\ Message(m) /\ minted[m].key = KeyOf(job) /\ job.ids = IdsOf(m)
        /\ job.action \in Plans => m - 1 \in DOMAIN minted
  BY <1>1, Sent
<1>3. /\ Command \in DOMAIN minted /\ Command \in Nat /\ job.i \in {1, 2} /\ Len(job.ids) \in {1, 2}
      /\ DOMAIN job.ids = 1..Len(job.ids)
  <2>1. Command \in DOMAIN minted /\ job.i \in {1, 2} /\ Len(job.ids) \in {1, 2}
    BY <1>1, <1>2, SentCommand
  <2>2. minted \in Seq(Commandments) /\ job.ids \in Seq(Nat)
    BY DEF IInv, Types, Jobs
  <2> QED BY <2>1, <2>2
<1>4. thread \in [v : Versions, ran : SUBSET Nat, refused : SUBSET Nat]
  BY DEF IInv, Types
<1>5. /\ thread' \in [v : Versions, ran : SUBSET Nat, refused : SUBSET Nat]
      /\ thread'.v = thread.v /\ thread'.refused = thread.refused
      /\ thread'.ran = thread.ran \cup {Command}
  BY <1>1, <1>3, <1>4
<1>6. late' \subseteq Nat /\ thread'.ran \cup thread'.refused \cup late' \subseteq DOMAIN minted
  BY <1>1, <1>3, <1>5 DEF IInv, Types
<1>7. deliveries' = deliveries
  BY Ended DEF Accepted, NoEnd
<1>8. deliveries' \in Seq(Delivered) /\ Len(deliveries') <= Memory
  BY <1>7 DEF IInv, Types
<1>9. MemoryIsWhole' /\ AliveIsKnown' /\ OneIsAlive'
  BY <1>1, <1>5, <1>7, SendingKeeps
<1>10. CASE job.i < Len(job.ids)
  <2>0. job' = [[job EXCEPT !.i = job.i + 1] EXCEPT !.attempt = 1]
    BY <1>10 DEF Accepted
  <2>1. job.i = 1 /\ Len(job.ids) = 2
    <3>1. PICK i \in {1, 2}, n \in {1, 2} : i = job.i /\ n = Len(job.ids)
      BY <1>3
    <3>2. i < n
      BY <1>10, <3>1
    <3>3. i \in Int /\ n \in Int /\ (i = 1 \/ i = 2) /\ (n = 1 \/ n = 2)
      OBVIOUS
    <3>4. i = 1 /\ n = 2
      BY <3>2, <3>3
    <3> QED BY <3>1, <3>4
  <2>2. /\ job' \in Jobs /\ job'.pc = "send" /\ job'.who = job.who /\ job'.rev = job.rev
        /\ job'.action = job.action /\ job'.ids = job.ids /\ job'.i = 2
    <3> DEFINE next == [job EXCEPT !.i = job.i + 1]
    <3>1. job \in Jobs
      BY DEF IInv, Types
    <3>2. /\ next \in Jobs /\ next.pc = "send" /\ next.who = job.who /\ next.rev = job.rev
          /\ next.action = job.action /\ next.ids = job.ids /\ next.i = 2
      BY <1>1, <2>1, <3>1 DEF Jobs
    <3>3. job' = [next EXCEPT !.attempt = 1]
      BY <2>0
    <3> HIDE DEF next
    <3> QED BY <3>2, <3>3 DEF Jobs
  <2>3. job.ids[1] \in thread'.ran
    BY <1>5, <2>1 DEF Command
  <2>4. SendingIsKnown'
    BY <1>1, <1>3, <1>7, <2>1, <2>2, <2>3 DEF IInv, SendingIsKnown, Holds
  <2>5. job'.who = "press" /\ job'.rev \in Revisions /\ job'.action \in Actions
    BY <1>1, <2>2 DEF IInv, JobIsWhole
  <2> QED BY <1>1, <1>5, <1>6, <1>8, <1>9, <2>2, <2>4, <2>5, SendStepIInv
<1>11. CASE ~(job.i < Len(job.ids))
  <2>1. Ends("accepted")
    BY <1>11 DEF Accepted
  <2>2. job' \in Jobs /\ job'.pc = "shell" /\ job'.who = "after" /\ job'.i = 1 /\ job'.attempt = 1
    BY <2>1, Ended
  <2>3. SendingIsKnown'
    BY <2>2 DEF SendingIsKnown
  <2> QED BY <1>1, <1>5, <1>6, <1>8, <1>9, <2>2, <2>3, SendStepIInv
<1> QED BY <1>10, <1>11

\* A delivery that ends with a rejection has no message alive.
LEMMA RejectionIInv ==
  ASSUME Sizes, IInv, job.pc = "send", Ends("rejected"),
         UNCHANGED <<link, cache, offer, tile, held, minted, late>>,
         thread' \in [v : Versions, ran : SUBSET Nat, refused : SUBSET Nat], thread'.v = thread.v,
         thread'.ran = thread.ran, thread.refused \subseteq thread'.refused,
         thread'.refused \subseteq thread.refused \cup {Command},
         \A m \in DOMAIN minted : Message(m) /\ minted[m].key = KeyOf(job) => ~Alive(m)'
  PROVE  IInv'
<1>1. PICK m \in DOMAIN minted :
        /\ Message(m) /\ minted[m].key = KeyOf(job) /\ job.ids = IdsOf(m)
        /\ job.action \in Plans => m - 1 \in DOMAIN minted
  BY Sent
<1>2. Command \in DOMAIN minted
  BY <1>1, SentCommand
<1>3. /\ job' \in Jobs /\ job'.pc = "shell" /\ job'.who = "after" /\ job'.i = 1 /\ job'.attempt = 1
      /\ deliveries' = Without(KeyOf(job))
  BY Ended
<1>4. PICK key : key = KeyOf(job)
  OBVIOUS
<1>5. deliveries' \in Seq(Delivered) /\ Len(deliveries') <= Memory
  BY <1>3, Forgotten
<1>6. \A x \in DOMAIN minted : Message(x) /\ Alive(x)' => Alive(x) /\ minted[x].key # key
  BY <1>4 DEF Alive
<1>7. MemoryIsWhole' /\ AliveIsKnown' /\ OneIsAlive'
  BY <1>3, <1>4, <1>6, ForgettingKeeps
<1>8. SendingIsKnown'
  BY <1>3 DEF SendingIsKnown
<1>9. late' \subseteq Nat /\ thread'.ran \cup thread'.refused \cup late' \subseteq DOMAIN minted
  BY <1>2 DEF IInv, Types
<1> QED BY <1>3, <1>5, <1>7, <1>8, <1>9, SendStepIInv

LEMMA RejectedIInv ==
  ASSUME Sizes, IInv, Rejected
  PROVE  IInv'
<1>1. /\ job.pc = "send" /\ Command \notin thread.ran /\ Ends("rejected")
      /\ thread' = [thread EXCEPT !.refused = thread.refused \cup {Command}]
      /\ UNCHANGED <<minted, link, cache, offer, tile, held, late>>
  BY DEF Rejected, Refuses, Kept
<1>2. PICK m \in DOMAIN minted :
        /\ Message(m) /\ minted[m].key = KeyOf(job) /\ job.ids = IdsOf(m)
        /\ job.action \in Plans => m - 1 \in DOMAIN minted
        /\ \A x \in DOMAIN minted : Message(x) /\ minted[x].key = KeyOf(job) /\ Alive(x) => x = m
  BY <1>1, Sent
<1>3. /\ Command \in DOMAIN minted
      /\ Command = m \/ (Command = m - 1 /\ job.action \in Plans)
  BY <1>1, <1>2, SentCommand
<1>4. thread \in [v : Versions, ran : SUBSET Nat, refused : SUBSET Nat] /\ Command \in Nat
  BY <1>3 DEF IInv, Types
<1>5. /\ thread' \in [v : Versions, ran : SUBSET Nat, refused : SUBSET Nat]
      /\ thread'.v = thread.v /\ thread'.ran = thread.ran
      /\ thread'.refused = thread.refused \cup {Command}
  BY <1>1, <1>4
<1>6. ~Alive(m)'
  <2>1. CASE Command = m
    BY <1>1, <1>5, <2>1 DEF Alive
  <2>2. CASE Command = m - 1 /\ job.action \in Plans
    <3>1. minted[m].key[2] \in Plans
      BY <1>2, <2>2 DEF KeyOf
    <3>2. ~Alive(m)
      BY <1>1, <1>2, <2>2, <3>1 DEF IInv, AliveIsKnown
    <3> QED BY <1>1, <1>5, <3>2 DEF Alive
  <2> QED BY <1>3, <2>1, <2>2
<1>7. \A x \in DOMAIN minted : Message(x) /\ minted[x].key = KeyOf(job) => ~Alive(x)'
  <2> TAKE x \in DOMAIN minted
  <2>1. Alive(x)' => Alive(x)
    BY <1>1, <1>5 DEF Alive
  <2> QED BY <1>2, <1>6, <2>1
<1> QED BY <1>1, <1>5, <1>7, RejectionIInv

\* A delivery whose outcome is not known.
LEMMA DoubtIInv ==
  ASSUME Sizes, IInv, job.pc = "send", UNCHANGED <<link, cache, offer, tile, held, minted, deliveries>>,
         thread' \in [v : Versions, ran : SUBSET Nat, refused : SUBSET Nat], thread'.v = thread.v,
         thread.ran \subseteq thread'.ran, thread'.ran \subseteq thread.ran \cup {Command},
         thread.refused \subseteq thread'.refused, thread'.refused \subseteq thread.refused \cup {Command},
         late' \subseteq late \cup {Command},
         Ends("uncertain") \/ job' = [job EXCEPT !.attempt = 2]
  PROVE  IInv'
<1>1. PICK m \in DOMAIN minted :
        /\ Message(m) /\ minted[m].key = KeyOf(job) /\ job.ids = IdsOf(m)
        /\ job.action \in Plans => m - 1 \in DOMAIN minted
  BY Sent
<1>2. Command \in DOMAIN minted /\ Command \in Nat
  <2>1. Command \in DOMAIN minted
    BY <1>1, SentCommand
  <2> QED BY <2>1 DEF IInv, Types
<1>3. late' \subseteq Nat /\ thread'.ran \cup thread'.refused \cup late' \subseteq DOMAIN minted
  BY <1>2 DEF IInv, Types
<1>4. deliveries' \in Seq(Delivered) /\ Len(deliveries') <= Memory
  BY DEF IInv, Types
<1>5. MemoryIsWhole' /\ AliveIsKnown' /\ OneIsAlive'
  BY SendingKeeps
<1>6. CASE Ends("uncertain")
  <2>1. job' \in Jobs /\ job'.pc = "shell" /\ job'.who = "after" /\ job'.i = 1 /\ job'.attempt = 1
    BY <1>6, Ended
  <2>2. SendingIsKnown'
    BY <2>1 DEF SendingIsKnown
  <2> QED BY <1>3, <1>4, <1>5, <2>1, <2>2, SendStepIInv
<1>7. CASE job' = [job EXCEPT !.attempt = 2]
  <2>1. /\ job' \in Jobs /\ job'.pc = "send" /\ job'.who = job.who /\ job'.rev = job.rev
        /\ job'.action = job.action /\ job'.ids = job.ids /\ job'.i = job.i
    BY <1>7 DEF IInv, Types, Jobs
  <2>2. SendingIsKnown'
    BY <2>1 DEF IInv, SendingIsKnown, Holds
  <2>3. job'.who = "press" /\ job'.rev \in Revisions /\ job'.action \in Actions
    BY <2>1 DEF IInv, JobIsWhole
  <2> QED BY <1>3, <1>4, <1>5, <2>1, <2>2, <2>3, SendStepIInv
<1> QED BY <1>6, <1>7

LEMMA NotLetInIInv ==
  ASSUME Sizes, IInv, NotLetIn
  PROVE  IInv'
<1>1. /\ job.pc = "send" /\ UNCHANGED <<minted, link, cache, offer, tile, held, thread, late>>
      /\ job.attempt = 2 \/ NotRun(job)
      /\ Ends(IF job.attempt = 1 THEN "rejected" ELSE "uncertain")
  BY DEF NotLetIn, Kept, Sizes
<1>2. job.attempt \in {1, 2} /\ thread \in [v : Versions, ran : SUBSET Nat, refused : SUBSET Nat]
  BY DEF IInv, Types, Jobs
<1>3. CASE job.attempt = 1
  <2>1. Ends("rejected") /\ NotRun(job)
    BY <1>1, <1>3
  <2>2. PICK m \in DOMAIN minted :
          /\ Message(m) /\ minted[m].key = KeyOf(job) /\ job.ids = IdsOf(m)
          /\ job.action \in Plans => m - 1 \in DOMAIN minted
          /\ \A x \in DOMAIN minted : Message(x) /\ minted[x].key = KeyOf(job) /\ Alive(x) => x = m
    BY <1>1, Sent
  <2>3. job.ids[Len(job.ids)] = m /\ Len(job.ids) \in {1, 2} /\ job.i \in DOMAIN job.ids
        /\ DOMAIN job.ids = 1..Len(job.ids)
    <3>1. job.ids[Len(job.ids)] = m /\ Len(job.ids) \in {1, 2}
      BY <1>1, <2>2, SentCommand
    <3>2. job.i \in DOMAIN job.ids /\ job.ids \in Seq(Nat)
      BY <1>1 DEF IInv, SendingIsKnown, Types, Jobs
    <3> QED BY <3>1, <3>2
  <2>4. m \notin thread.ran /\ m \notin late
    BY <2>1, <2>3 DEF NotRun
  <2>5. \A x \in DOMAIN minted : Message(x) /\ minted[x].key = KeyOf(job) => ~Alive(x)'
    BY <1>1, <2>2, <2>4 DEF Alive
  <2> QED BY <1>1, <1>2, <2>1, <2>5, RejectionIInv
<1>4. CASE job.attempt = 2
  <2>1. Ends("uncertain")
    BY <1>1, <1>4
  <2>2. deliveries' = deliveries
    BY <2>1, Ended
  <2> QED BY <1>1, <1>2, <2>1, <2>2, DoubtIInv
<1> QED BY <1>2, <1>3, <1>4

LEMMA LostIInv ==
  ASSUME Sizes, IInv, Lost
  PROVE  IInv'
<1>1. /\ job.pc = "send" /\ UNCHANGED <<minted, link, cache, offer, tile, held>>
  BY DEF Lost, Kept
<1>2. Ends("uncertain") \/ job' = [job EXCEPT !.attempt = 2]
  BY DEF Lost, Again
<1>3. deliveries' = deliveries
  BY <1>2, Ended DEF Lost, NoEnd
<1>4. thread \in [v : Versions, ran : SUBSET Nat, refused : SUBSET Nat] /\ Command \in Nat
  <2>1. PICK m \in DOMAIN minted :
          /\ minted[m].key = KeyOf(job) /\ job.ids = IdsOf(m)
          /\ job.action \in Plans => m - 1 \in DOMAIN minted
    BY <1>1, Sent
  <2>2. Command \in DOMAIN minted
    BY <1>1, <2>1, SentCommand
  <2> QED BY <2>2 DEF IInv, Types
<1>5. /\ thread' \in [v : Versions, ran : SUBSET Nat, refused : SUBSET Nat] /\ thread'.v = thread.v
      /\ thread.ran \subseteq thread'.ran /\ thread'.ran \subseteq thread.ran \cup {Command}
      /\ thread.refused \subseteq thread'.refused /\ thread'.refused \subseteq thread.refused \cup {Command}
      /\ late' \subseteq late \cup {Command}
  BY <1>4 DEF Lost, Runs, Refuses
<1> QED BY <1>1, <1>2, <1>3, <1>5, DoubtIInv


\* The remembered commands of the same press are sent again.
LEMMA RepeatIInv ==
  ASSUME Sizes, IInv, Repeat
  PROVE  IInv'
<1>1. PICK ids \in KnownIds : job' = [job EXCEPT !.pc = "send", !.ids = ids]
  BY DEF Repeat, Dispatches
<1>2. PICK n \in DOMAIN deliveries : deliveries[n].key = KeyOf(job) /\ deliveries[n].ids = ids
  BY DEF KnownIds, Remembered
<1>3. deliveries[n] = [key |-> <<job.rev, job.action>>, ids |-> ids] /\ ids \in Seq(Nat)
  <2>1. deliveries[n] \in Delivered
    BY DEF IInv, Types
  <2> QED BY <1>2, <2>1 DEF Delivered, KeyOf
<1>4. /\ job \in Jobs /\ job.pc = "check" /\ job.who = "press" /\ job.i = 1
      /\ job.rev \in Revisions /\ job.action \in Actions
      /\ offer # None /\ offer.rev = job.rev
  BY DEF Repeat, Valid, IInv, Types, JobIsWhole
<1>5. /\ job' \in Jobs /\ job'.pc = "send" /\ job'.who = "press" /\ job'.rev = job.rev
      /\ job'.action = job.action /\ job'.ids = ids /\ job'.i = 1
  BY <1>1, <1>3, <1>4 DEF Jobs
<1>6. UNCHANGED <<thread, late, minted, deliveries, link, cache, offer, tile, held>>
  BY DEF Repeat, Rest
<1>7. SendingIsKnown'
  <2>1. Holds(<<job.rev, job.action>>, ids)
    BY <1>3 DEF Holds
  <2>2. 1 \in DOMAIN ids
    <3>1. Made(ids, KeyOf(job))
      BY <1>2 DEF IInv, MemoryIsWhole
    <3> QED BY <3>1 DEF Made, IdsOf
  <2>3. Holds(<<job.rev, job.action>>, ids)'
    BY <1>3, <1>5, <1>6 DEF Holds
  <2> QED BY <1>4, <1>5, <1>6, <2>2, <2>3 DEF SendingIsKnown
<1>8. MemoryIsWhole' /\ AliveIsKnown' /\ OneIsAlive'
  BY <1>6, StillKnown
<1>9. /\ thread' \in [v : Versions, ran : SUBSET Nat, refused : SUBSET Nat]
      /\ late' \subseteq Nat /\ thread'.ran \cup thread'.refused \cup late' \subseteq DOMAIN minted
      /\ deliveries' \in Seq(Delivered) /\ Len(deliveries') <= Memory
  BY <1>6 DEF IInv, Types
<1> QED BY <1>4, <1>5, <1>6, <1>7, <1>8, <1>9, SendStepIInv

\* There is no room for another delivery only when all that is remembered is not
\* of the revision at hand: a revision has no more deliveries than actions.
LEMMA OldestHasPassed ==
  ASSUME Sizes, IInv, Valid, job.pc = "check", KnownIds = {}, ~(Len(deliveries) < Memory)
  PROVE  deliveries # << >> /\ Before(deliveries[1].key[1], job.rev)
<1> DEFINE n == Len(deliveries)
<1>1. /\ n \in Nat /\ Memory \in Nat /\ n = Memory /\ DOMAIN deliveries = 1..n
      /\ deliveries \in Seq(Delivered)
  BY DEF IInv, Types, Sizes
<1>2. job.action \in Actions /\ job.rev \in Revisions /\ offer # None /\ offer.rev = job.rev
  BY DEF IInv, JobIsWhole, Valid
<1>3. \A k \in 1..n : /\ deliveries[k].key \in Keys /\ deliveries[k].key[1] \in Revisions
                      /\ deliveries[k].key[2] \in Actions
                      /\ deliveries[k].key = <<deliveries[k].key[1], deliveries[k].key[2]>>
                      /\ NotAfter(deliveries[k].key[1], job.rev)
  <2> TAKE k \in 1..n
  <2>1. deliveries[k] \in Delivered
    BY <1>1
  <2>2. Made(deliveries[k].ids, deliveries[k].key)
    BY <1>1 DEF IInv, MemoryIsWhole
  <2>3. PICK m \in DOMAIN minted : minted[m].key = deliveries[k].key
    BY <2>2 DEF Made
  <2>4. NotAfter(deliveries[k].key[1], job.rev)
    BY <1>2, <2>3 DEF IInv, Grows
  <2> QED BY <2>1, <2>4 DEF Delivered, Keys
<1>4. \A k \in 1..n : deliveries[k].key # <<job.rev, job.action>>
  BY <1>1 DEF KnownIds, Remembered, KeyOf
<1>5. \E k \in 1..n : deliveries[k].key[1] # job.rev
  <2> SUFFICES ASSUME \A k \in 1..n : deliveries[k].key[1] = job.rev PROVE FALSE
    OBVIOUS
  <2> DEFINE f == [k \in 1..n + 1 |-> IF k <= n THEN deliveries[k].key[2] ELSE job.action]
  <2> HIDE DEF n
  <2>1. f \in [1..n + 1 -> Actions]
    BY <1>1, <1>2, <1>3
  <2>2. ASSUME NEW a \in 1..n + 1, NEW b \in 1..n + 1, a < b PROVE f[a] # f[b]
    <3>1. a \in 1..n /\ f[a] = deliveries[a].key[2]
      BY <1>1, <2>2
    <3>2. CASE b <= n
      <4>1. b \in 1..n /\ f[b] = deliveries[b].key[2]
        BY <1>1, <3>2
      <4>2. deliveries[a].key # deliveries[b].key
        BY <1>1, <2>2, <3>1, <4>1 DEF IInv, MemoryIsWhole
      <4> QED BY <1>3, <3>1, <4>1, <4>2
    <3>3. CASE ~(b <= n)
      <4>1. f[b] = job.action
        BY <3>3
      <4> QED BY <1>3, <1>4, <3>1, <4>1
    <3> QED BY <3>2, <3>3
  <2>3. f \in Injection(1..n + 1, Actions)
    <3>1. \A a, b \in 1..n + 1 : f[a] = f[b] => a = b
      <4> TAKE a, b \in 1..n + 1
      <4>1. a < b \/ b < a \/ a = b
        BY <1>1
      <4> QED BY <2>2, <4>1
    <3> HIDE DEF f
    <3> QED BY <2>1, <3>1 DEF Injection, IsInjective
  <2>4. IsFiniteSet(1..n + 1) /\ Cardinality(1..n + 1) = n + 1
    <3>1. n + 1 \in Nat
      BY <1>1
    <3> QED BY <3>1, FS_Interval
  <2>5. Cardinality(1..n + 1) <= Cardinality(Actions)
    BY <2>3, <2>4, FS_Injection DEF Sizes, ExistsInjection
  <2>6. Cardinality(Actions) \in Nat
    BY FS_CardinalityType DEF Sizes
  <2> QED BY <1>1, <2>4, <2>5, <2>6 DEF Sizes
<1>6. PICK k \in 1..n : deliveries[k].key[1] # job.rev
  BY <1>5
<1>7. NotAfter(deliveries[1].key[1], deliveries[k].key[1]) /\ 1 \in 1..n
  <2>1. 1 \in 1..n /\ (k = 1 \/ 1 < k)
    BY <1>1
  <2> QED BY <1>1, <2>1 DEF IInv, MemoryIsWhole, NotAfter
<1>8. Before(deliveries[k].key[1], job.rev)
  BY <1>2, <1>3, <1>6, RevisionOrder
<1>9. Before(deliveries[1].key[1], job.rev)
  <2>1. deliveries[1].key[1] \in Revisions /\ deliveries[k].key[1] \in Revisions
    BY <1>3, <1>7
  <2> QED BY <1>2, <1>7, <1>8, <2>1, RevisionOrder DEF NotAfter
<1> QED BY <1>1, <1>7, <1>9


\* The commands of a new delivery: the mode, if it has one, and the message.
LEMMA NewCommands ==
  ASSUME Sizes, IInv, Make
  PROVE  \E l \in {1, 2} :
           LET top == Len(minted) + l
               ids == IF job.action \in Plans THEN <<top - 1, top>> ELSE <<top>>
           IN /\ job.action \in Plans <=> l = 2
              /\ ids = Commands(Len(minted) + 1) /\ ids \in Seq(Nat)
              /\ minted' \in Seq(Commandments) /\ Len(minted') = top
              /\ \A k \in 1..Len(minted) : minted'[k] = minted[k]
              /\ \A k \in (Len(minted) + 1)..top : minted'[k] = [key |-> KeyOf(job), mode |-> k < top]
              /\ job' = Dispatches(ids)
              /\ deliveries' = Remember(deliveries, [key |-> KeyOf(job), ids |-> ids])
<1> DEFINE old == Len(minted)
           l == IF job.action \in Plans THEN 2 ELSE 1
           top == old + l
           ids == IF job.action \in Plans THEN <<top - 1, top>> ELSE <<top>>
           more == [n \in DOMAIN ids |-> [key |-> KeyOf(job), mode |-> n < Len(ids)]]
<1>1. old \in Nat /\ minted \in Seq(Commandments) /\ DOMAIN minted = 1..old
  BY DEF IInv, Types
<1>2. ids = Commands(old + 1)
  <2>1. (old + 2) - 1 = old + 1
    BY <1>1
  <2> QED BY <2>1 DEF Commands
<1>3. ids \in Seq(Nat) /\ Len(ids) = l /\ DOMAIN ids = 1..l /\ l \in {1, 2}
  <2>1. CASE job.action \in Plans
    <3>1. ids = <<old + 1, old + 2>>
      BY <1>1, <2>1
    <3> HIDE DEF ids
    <3>2. ids \in Seq(Nat) /\ Len(ids) = 2
      BY <1>1, <3>1
    <3> QED BY <2>1, <3>2
  <2>2. CASE job.action \notin Plans
    <3>1. ids = <<old + 1>>
      BY <2>2
    <3> HIDE DEF ids
    <3>2. ids \in Seq(Nat) /\ Len(ids) = 1
      BY <1>1, <3>1
    <3> QED BY <2>2, <3>2
  <2> QED BY <2>1, <2>2
<1>4. /\ minted' = minted \o more /\ job' = Dispatches(ids)
      /\ deliveries' = Remember(deliveries, [key |-> KeyOf(job), ids |-> ids])
  BY <1>2 DEF Make
<1>5. KeyOf(job) \in Keys
  <2>1. job.action \in Actions /\ job.rev \in Revisions
    BY DEF Make, IInv, JobIsWhole
  <2> QED BY <2>1 DEF KeyOf, Keys
<1>6. job.action \in Plans <=> l = 2
  OBVIOUS
<1> HIDE DEF ids, l
<1>7. /\ more \in Seq(Commandments) /\ Len(more) = l
      /\ \A n \in 1..l : more[n] = [key |-> KeyOf(job), mode |-> n < l]
  <2>1. /\ l \in Nat /\ DOMAIN more = 1..l
        /\ \A n \in 1..l : more[n] = [key |-> KeyOf(job), mode |-> n < l]
    BY <1>3
  <2>2. \A n \in 1..l : more[n] \in Commandments
    BY <1>5, <2>1 DEF Commandments
  <2>3. more = [n \in 1..l |-> more[n]]
    BY <1>3
  <2> HIDE DEF more
  <2>4. more \in Seq(Commandments)
    BY <2>1, <2>2, <2>3
  <2> QED BY <2>1, <2>4
<1> HIDE DEF more
<1>8. /\ minted' \in Seq(Commandments) /\ Len(minted') = top
      /\ \A k \in 1..old : minted'[k] = minted[k]
      /\ \A k \in 1..l : minted'[old + k] = more[k]
  BY <1>1, <1>3, <1>4, <1>7
<1>9. ASSUME NEW k \in (old + 1)..top
      PROVE  minted'[k] = [key |-> KeyOf(job), mode |-> k < top]
  <2>1. k - old \in 1..l /\ old + (k - old) = k /\ (k - old < l <=> k < top)
    BY <1>1, <1>3
  <2>2. minted'[k] = more[k - old]
    BY <1>8, <2>1
  <2> QED BY <1>7, <2>1, <2>2
<1> QED BY <1>2, <1>3, <1>4, <1>6, <1>8, <1>9 DEF ids

\* One delivery more is remembered, in place of the oldest if there is no room.
LEMMA Remembering ==
  ASSUME Sizes, IInv, Valid, job.pc = "check", KnownIds = {},
         NEW d \in Delivered, d.key = KeyOf(job)
  PROVE  /\ Remember(deliveries, d) \in Seq(Delivered) /\ Len(Remember(deliveries, d)) <= Memory
         /\ \E n \in DOMAIN Remember(deliveries, d) : Remember(deliveries, d)[n] = d
         /\ \A i \in DOMAIN Remember(deliveries, d) :
              \/ Remember(deliveries, d)[i] = d
              \/ \E k \in DOMAIN deliveries : Remember(deliveries, d)[i] = deliveries[k]
         /\ \A i, j \in DOMAIN Remember(deliveries, d) : i < j =>
              \/ /\ Remember(deliveries, d)[j] = d
                 /\ \E k \in DOMAIN deliveries : Remember(deliveries, d)[i] = deliveries[k]
              \/ \E k, n \in DOMAIN deliveries :
                   /\ k < n /\ Remember(deliveries, d)[i] = deliveries[k]
                   /\ Remember(deliveries, d)[j] = deliveries[n]
         /\ \A k \in DOMAIN deliveries :
              \/ \E i \in DOMAIN Remember(deliveries, d) : Remember(deliveries, d)[i] = deliveries[k]
              \/ Before(deliveries[k].key[1], job.rev)
<1> DEFINE n == Len(deliveries)
           all == Append(deliveries, d)
           r == Remember(deliveries, d)
<1>1. /\ n \in Nat /\ Memory \in Nat /\ n <= Memory /\ DOMAIN deliveries = 1..n
      /\ deliveries \in Seq(Delivered)
  BY DEF IInv, Types, Sizes
<1>2. /\ all \in Seq(Delivered) /\ Len(all) = n + 1 /\ DOMAIN all = 1..(n + 1)
      /\ all[n + 1] = d /\ \A k \in 1..n : all[k] = deliveries[k]
  BY <1>1
<1> HIDE DEF all
<1>3. CASE n < Memory
  <2>1. r = all
    <3>1. ~(Len(all) > Memory)
      BY <1>1, <1>2, <1>3
    <3> QED BY <3>1 DEF Remember, all
  <2> HIDE DEF r, n
  <2>2. \A k \in 1..n : k \in DOMAIN r /\ r[k] = deliveries[k]
    BY <1>1, <1>2, <2>1
  <2>3. n + 1 \in DOMAIN r /\ r[n + 1] = d /\ DOMAIN r = 1..(n + 1)
    BY <1>1, <1>2, <2>1
  <2>4. \A i \in DOMAIN r : i \in 1..n \/ i = n + 1
    BY <1>1, <2>3
  <2>5. \A i, j \in DOMAIN r : i < j => i \in 1..n
    BY <1>1, <2>3
  <2>6. r \in Seq(Delivered) /\ Len(r) <= Memory
    BY <1>1, <1>2, <1>3, <2>1
  <2>7. \A i, j \in DOMAIN r : i < j =>
          \/ r[j] = d /\ \E k \in DOMAIN deliveries : r[i] = deliveries[k]
          \/ \E k, x \in DOMAIN deliveries : k < x /\ r[i] = deliveries[k] /\ r[j] = deliveries[x]
    <3> TAKE i, j \in DOMAIN r
    <3> SUFFICES ASSUME i < j
                 PROVE  \/ r[j] = d /\ \E k \in DOMAIN deliveries : r[i] = deliveries[k]
                        \/ \E k, x \in DOMAIN deliveries :
                             k < x /\ r[i] = deliveries[k] /\ r[j] = deliveries[x]
      OBVIOUS
    <3>1. i \in DOMAIN deliveries /\ r[i] = deliveries[i]
      BY <1>1, <2>2, <2>5
    <3>2. CASE j = n + 1
      BY <2>3, <3>1, <3>2
    <3>3. CASE j \in 1..n
      BY <1>1, <2>2, <3>1, <3>3
    <3> QED BY <2>4, <3>2, <3>3
  <2>8. \A i \in DOMAIN r : r[i] = d \/ \E k \in DOMAIN deliveries : r[i] = deliveries[k]
    BY <1>1, <2>2, <2>3, <2>4
  <2>9. \A k \in DOMAIN deliveries : \E i \in DOMAIN r : r[i] = deliveries[k]
    BY <1>1, <2>2
  <2> QED BY <2>3, <2>6, <2>7, <2>8, <2>9 DEF r
<1>4. CASE ~(n < Memory)
  <2>1. deliveries # << >> /\ Before(deliveries[1].key[1], job.rev)
    BY <1>4, OldestHasPassed
  <2>2. n \in Nat \ {0} /\ n = Memory
    <3>1. n # 0
      BY <1>1, <2>1
    <3> HIDE DEF n
    <3> QED BY <1>1, <1>4, <3>1
  <2>3. r = Tail(all)
    <3>1. Len(all) > Memory
      BY <1>1, <1>2, <2>2
    <3> QED BY <3>1 DEF Remember, all
  <2> HIDE DEF r, n
  <2>4. /\ r \in Seq(Delivered) /\ Len(r) = n /\ DOMAIN r = 1..n
        /\ \A k \in 1..n : r[k] = all[k + 1]
    BY <1>1, <1>2, <2>2, <2>3
  <2>5. n \in DOMAIN r /\ r[n] = d
    BY <1>2, <2>2, <2>4
  <2>6. \A i \in DOMAIN r : i # n => i + 1 \in DOMAIN deliveries /\ r[i] = deliveries[i + 1]
    BY <1>1, <1>2, <2>2, <2>4
  <2>7. \A i, j \in DOMAIN r : i < j =>
          \/ r[j] = d /\ \E k \in DOMAIN deliveries : r[i] = deliveries[k]
          \/ \E k, x \in DOMAIN deliveries : k < x /\ r[i] = deliveries[k] /\ r[j] = deliveries[x]
    <3> TAKE i, j \in DOMAIN r
    <3> SUFFICES ASSUME i < j
                 PROVE  \/ r[j] = d /\ \E k \in DOMAIN deliveries : r[i] = deliveries[k]
                        \/ \E k, x \in DOMAIN deliveries :
                             k < x /\ r[i] = deliveries[k] /\ r[j] = deliveries[x]
      OBVIOUS
    <3>0. i \in 1..n /\ j \in 1..n
      BY <2>4
    <3>1. i # n
      BY <1>1, <3>0
    <3>2. i + 1 \in DOMAIN deliveries /\ r[i] = deliveries[i + 1]
      BY <2>6, <3>1
    <3>3. CASE j = n
      BY <2>5, <3>2, <3>3
    <3>4. CASE j # n
      <4>1. j + 1 \in DOMAIN deliveries /\ r[j] = deliveries[j + 1]
        BY <2>6, <3>4
      <4>2. i + 1 < j + 1
        BY <3>0
      <4> QED BY <3>2, <4>1, <4>2
    <3> QED BY <3>3, <3>4
  <2>8. \A i \in DOMAIN r : r[i] = d \/ \E k \in DOMAIN deliveries : r[i] = deliveries[k]
    BY <2>5, <2>6
  <2>9. \A k \in DOMAIN deliveries :
          (\E i \in DOMAIN r : r[i] = deliveries[k]) \/ Before(deliveries[k].key[1], job.rev)
    <3> TAKE k \in DOMAIN deliveries
    <3>1. CASE k = 1
      BY <2>1, <3>1
    <3>2. CASE k # 1
      <4>1. k - 1 \in 1..n /\ k - 1 # n /\ (k - 1) + 1 = k
        BY <1>1, <2>2, <3>2
      <4>2. r[k - 1] = deliveries[k] /\ k - 1 \in DOMAIN r
        BY <2>4, <2>6, <4>1
      <4> QED BY <4>2
    <3> QED BY <3>1, <3>2
  <2> QED BY <2>2, <2>4, <2>5, <2>7, <2>8, <2>9 DEF r
<1> QED BY <1>3, <1>4


LEMMA MakeIInv ==
  ASSUME Sizes, IInv, Make
  PROVE  IInv'
<1>0. PICK old \in Nat : old = Len(minted)
  BY DEF IInv, Types
<1>1. /\ job.pc = "check" /\ Valid /\ KnownIds = {} /\ job \in Jobs /\ job.who = "press" /\ job.i = 1
      /\ job.rev \in Revisions /\ job.action \in Actions /\ job.attempt = 1
      /\ offer # None /\ offer.rev = job.rev
      /\ UNCHANGED <<thread, late, link, cache, offer, tile, held>>
  BY DEF Make, Valid, IInv, Types, JobIsWhole
<1>2. PICK l \in {1, 2} :
        LET top == old + l
            ids == IF job.action \in Plans THEN <<top - 1, top>> ELSE <<top>>
        IN /\ job.action \in Plans <=> l = 2
           /\ ids = Commands(old + 1) /\ ids \in Seq(Nat)
           /\ minted' \in Seq(Commandments) /\ Len(minted') = top
           /\ \A k \in 1..old : minted'[k] = minted[k]
           /\ \A k \in (old + 1)..top : minted'[k] = [key |-> KeyOf(job), mode |-> k < top]
           /\ job' = Dispatches(ids)
           /\ deliveries' = Remember(deliveries, [key |-> KeyOf(job), ids |-> ids])
  BY <1>0, NewCommands
<1>2a. PICK top \in Nat : top = old + l
  OBVIOUS
<1>3. PICK ids : ids = IF job.action \in Plans THEN <<top - 1, top>> ELSE <<top>>
  OBVIOUS
<1>4. PICK key : key = KeyOf(job)
  OBVIOUS
<1>5. key \in Keys /\ key[1] = job.rev /\ key[2] = job.action /\ key = <<job.rev, job.action>>
  BY <1>1, <1>4 DEF KeyOf, Keys
<1> DEFINE d == [key |-> key, ids |-> ids]
<1>6. /\ job.action \in Plans <=> l = 2
      /\ ids \in Seq(Nat) /\ minted' \in Seq(Commandments) /\ Len(minted') = top
      /\ \A k \in 1..old : minted'[k] = minted[k]
      /\ \A k \in (old + 1)..top : minted'[k] = [key |-> key, mode |-> k < top]
      /\ job' = Dispatches(ids)
      /\ deliveries' = Remember(deliveries, d)
  BY <1>2, <1>2a, <1>3, <1>4
<1>7. d \in Delivered /\ d.key = KeyOf(job) /\ d.key = key /\ d.ids = ids
  BY <1>4, <1>5, <1>6 DEF Delivered
<1> HIDE DEF d
<1>8. /\ old \in Nat /\ old \in Int /\ top \in Int /\ old < top /\ DOMAIN minted = 1..old
      /\ DOMAIN minted' = 1..top
      /\ \A k \in DOMAIN minted : k \in DOMAIN minted'
      /\ \A k \in DOMAIN minted' : k \in DOMAIN minted \/ k \in (old + 1)..top
      /\ top \in (old + 1)..top /\ l \in Int
  BY <1>0, <1>2a, <1>6 DEF IInv, Types
<1>9. /\ deliveries' \in Seq(Delivered) /\ Len(deliveries') <= Memory
      /\ \E n \in DOMAIN deliveries' : deliveries'[n] = d
      /\ \A i \in DOMAIN deliveries' :
           deliveries'[i] = d \/ \E k \in DOMAIN deliveries : deliveries'[i] = deliveries[k]
      /\ \A i, j \in DOMAIN deliveries' : i < j =>
           \/ deliveries'[j] = d /\ \E k \in DOMAIN deliveries : deliveries'[i] = deliveries[k]
           \/ \E k, n \in DOMAIN deliveries :
                k < n /\ deliveries'[i] = deliveries[k] /\ deliveries'[j] = deliveries[n]
      /\ \A k \in DOMAIN deliveries :
           (\E i \in DOMAIN deliveries' : deliveries'[i] = deliveries[k])
             \/ Before(deliveries[k].key[1], job.rev)
  BY <1>1, <1>6, <1>7, Remembering
<1>10. \A k \in DOMAIN minted : /\ minted'[k] = minted[k] /\ Message(k)' = Message(k)
                                /\ IdsOf(k)' = IdsOf(k) /\ Alive(k)' = Alive(k)
                                /\ k \in DOMAIN minted'
  BY <1>1, <1>6, <1>8 DEF Message, IdsOf, Alive
<1>11. \A k \in (old + 1)..top :
         minted'[k].key = key /\ (Message(k)' <=> k = top) /\ ~Alive(k)' /\ k \notin DOMAIN minted
  <2> TAKE k \in (old + 1)..top
  <2>1. k \in Int /\ k > old /\ k <= top /\ k \notin DOMAIN minted
    BY <1>8
  <2>2. ~Alive(k)'
    <3>1. k \notin thread.ran /\ k \notin late
      BY <2>1 DEF IInv, Types
    <3> QED BY <1>1, <3>1 DEF Alive
  <2>3. minted'[k] = [key |-> key, mode |-> k < top]
    BY <1>6
  <2>4. minted'[k].key = key /\ minted'[k].mode = (k < top)
    BY <2>3
  <2>5. (k < top) <=> k # top
    BY <2>1
  <2>6. Message(k)' <=> k = top
    BY <2>4, <2>5 DEF Message
  <2> QED BY <2>1, <2>2, <2>4, <2>6
<1>12. Made(ids, key)'
  <2>1. top \in DOMAIN minted' /\ Message(top)' /\ minted'[top].key = key
    BY <1>8, <1>11
  <2>2. ids = IdsOf(top)'
    BY <1>3, <1>5, <2>1 DEF IdsOf
  <2>3. ASSUME key[2] \in Plans PROVE top - 1 \in DOMAIN minted' /\ ~Message(top - 1)'
    <3>1. l = 2 /\ top - 1 \in (old + 1)..top /\ top - 1 # top
      BY <1>2a, <1>5, <1>6, <1>8, <2>3
    <3> QED BY <1>8, <1>11, <3>1
  <2> QED BY <2>1, <2>2, <2>3 DEF Made
<1>13. ASSUME NEW k \in DOMAIN deliveries, NEW kids, NEW kkey,
              kids = deliveries[k].ids, kkey = deliveries[k].key
       PROVE  Made(kids, kkey)' /\ NotAfter(kkey[1], job.rev) /\ kkey # key
  <2>1. Made(kids, kkey)
    BY <1>13 DEF IInv, MemoryIsWhole
  <2>2. PICK m \in DOMAIN minted :
          /\ Message(m) /\ minted[m].key = kkey /\ kids = IdsOf(m)
          /\ kkey[2] \in Plans => m - 1 \in DOMAIN minted /\ ~Message(m - 1)
    BY <2>1 DEF Made
  <2>3. Made(kids, kkey)'
    BY <1>10, <2>2 DEF Made
  <2>4. NotAfter(kkey[1], job.rev)
    BY <1>1, <2>2 DEF IInv, Grows
  <2>5. kkey # key
    BY <1>1, <1>4, <1>13 DEF KnownIds, Remembered
  <2> QED BY <2>3, <2>4, <2>5
<1>14. MemoryIsWhole'
  <2>1. ASSUME NEW i \in DOMAIN deliveries', NEW kids, NEW kkey,
               kids = deliveries'[i].ids, kkey = deliveries'[i].key
        PROVE  Made(kids, kkey)'
    <3>1. CASE deliveries'[i] = d
      BY <1>7, <1>12, <2>1, <3>1
    <3>2. ASSUME NEW k \in DOMAIN deliveries, deliveries'[i] = deliveries[k] PROVE Made(kids, kkey)'
      BY <1>13, <2>1, <3>2
    <3> QED BY <1>9, <3>1, <3>2
  <2>2. ASSUME NEW i \in DOMAIN deliveries', NEW j \in DOMAIN deliveries', i < j
        PROVE  /\ deliveries'[i].key # deliveries'[j].key
               /\ NotAfter(deliveries'[i].key[1], deliveries'[j].key[1])
    <3>1. CASE deliveries'[j] = d /\ \E k \in DOMAIN deliveries : deliveries'[i] = deliveries[k]
      BY <1>5, <1>7, <1>13, <3>1
    <3>2. ASSUME NEW k \in DOMAIN deliveries, NEW n \in DOMAIN deliveries, k < n,
                 deliveries'[i] = deliveries[k], deliveries'[j] = deliveries[n]
          PROVE  /\ deliveries'[i].key # deliveries'[j].key
                 /\ NotAfter(deliveries'[i].key[1], deliveries'[j].key[1])
      BY <3>2 DEF IInv, MemoryIsWhole
    <3> QED BY <1>9, <2>2, <3>1, <3>2
  <2> QED BY <2>1, <2>2 DEF MemoryIsWhole
<1>15. AliveIsKnown'
  <2>1. ASSUME NEW m \in DOMAIN minted', Message(m)', Alive(m)'
        PROVE  /\ Holds(minted[m].key, IdsOf(m))' \/ Passed(m)'
               /\ minted'[m].key[2] \in Plans => m - 1 \in thread'.ran
    <3>1. m \in DOMAIN minted /\ minted'[m] = minted[m] /\ Message(m) /\ Alive(m)
      BY <1>8, <1>10, <1>11, <2>1
    <3>2. /\ Holds(minted[m].key, IdsOf(m)) \/ Passed(m)
          /\ minted[m].key[2] \in Plans => m - 1 \in thread.ran
      BY <3>1 DEF IInv, AliveIsKnown
    <3>3. ASSUME Passed(m) PROVE Passed(m)'
      BY <1>10, <3>1, <3>3 DEF Passed
    <3>4. ASSUME Holds(minted[m].key, IdsOf(m)) PROVE Holds(minted[m].key, IdsOf(m))' \/ Passed(m)'
      <4>1. PICK k \in DOMAIN deliveries : deliveries[k] = [key |-> minted[m].key, ids |-> IdsOf(m)]
        BY <3>4 DEF Holds
      <4>2. ASSUME NEW i \in DOMAIN deliveries', deliveries'[i] = deliveries[k]
            PROVE  Holds(minted[m].key, IdsOf(m))'
        BY <1>10, <3>1, <4>1, <4>2 DEF Holds
      <4>3. ASSUME Before(deliveries[k].key[1], job.rev)
            PROVE  Passed(m)'
        <5>1. Before(minted'[m].key[1], job.rev)
          BY <3>1, <4>1, <4>3
        <5>2. top \in DOMAIN minted' /\ minted'[top].key[1] = job.rev
          BY <1>5, <1>8, <1>11
        <5> QED BY <5>1, <5>2 DEF Passed
      <4> QED BY <1>9, <4>2, <4>3
    <3> QED BY <1>1, <3>1, <3>2, <3>3, <3>4
  <2> QED BY <2>1 DEF AliveIsKnown
<1>16. OneIsAlive'
  <2>1. ASSUME NEW i \in DOMAIN minted', NEW j \in DOMAIN minted', Message(i)', Message(j)',
               Alive(i)', Alive(j)', minted'[i].key = minted'[j].key
        PROVE  i = j
    <3>1. i \in DOMAIN minted /\ j \in DOMAIN minted
      BY <1>8, <1>11, <2>1
    <3> QED BY <1>10, <2>1, <3>1 DEF IInv, OneIsAlive
  <2> QED BY <2>1 DEF OneIsAlive
<1>17. Grows'
  <2>1. \A r \in Revisions : Reached(r) => Reached(r)'
    <3>1. /\ thread'.v \in Versions /\ thread'.v >= thread.v /\ link'.epoch = link.epoch
          /\ job'.pc # "detail"
      <4>1. thread.v \in Int /\ thread.v \in Versions
        BY DEF IInv, Types, Versions
      <4>2. job'.pc = "send"
        BY <1>1, <1>6 DEF Dispatches, Jobs
      <4> QED BY <1>1, <4>1, <4>2
    <3> QED BY <1>1, <3>1, StaysReached DEF IInv
  <2>2. ASSUME NEW k \in DOMAIN minted' PROVE Reached(minted[k].key[1])' /\ NotAfter(minted'[k].key[1], job.rev)
    <3>1. CASE k \in DOMAIN minted
      <4>1. /\ minted'[k] = minted[k] /\ minted[k].key[1] \in Revisions
            /\ Reached(minted[k].key[1]) /\ NotAfter(minted[k].key[1], job.rev)
        BY <1>1, <1>10, <3>1, MintedKeys DEF IInv, Grows
      <4>2. PICK r \in Revisions : r = minted[k].key[1]
        BY <4>1
      <4>3. Reached(r)'
        BY <2>1, <4>1, <4>2
      <4> QED BY <4>1, <4>2, <4>3
    <3>2. CASE k \in (old + 1)..top
      <4>1. minted'[k].key[1] = job.rev /\ Reached(job.rev)
        BY <1>1, <1>5, <1>11, <3>2 DEF IInv, Grows
      <4>2. PICK r \in Revisions : r = job.rev
        BY <1>1
      <4>3. Reached(r)'
        BY <2>1, <4>1, <4>2
      <4> QED BY <4>1, <4>2, <4>3 DEF NotAfter
    <3> QED BY <1>8, <3>1, <3>2
  <2>3. Reached(offer.rev)'
    <3>1. PICK r \in Revisions : r = offer.rev
      BY <1>1
    <3>2. Reached(r)'
      BY <1>1, <2>1, <3>1 DEF IInv, Grows
    <3> QED BY <1>1, <3>1, <3>2
  <2> QED BY <1>1, <2>2, <2>3 DEF Grows
<1>18. /\ job' \in Jobs /\ job'.pc = "send" /\ job'.who = "press" /\ job'.rev = job.rev
       /\ job'.action = job.action /\ job'.ids = ids /\ job'.i = 1 /\ job'.attempt = 1
  <2>1. job' = [job EXCEPT !.pc = "send", !.ids = ids]
    BY <1>6 DEF Dispatches
  <2> QED BY <1>1, <1>6, <2>1 DEF Jobs
<1>19. SendingIsKnown'
  <2>1. Holds(<<job.rev, job.action>>, job.ids)'
    BY <1>5, <1>9, <1>18 DEF Holds, d
  <2>2. 1 \in DOMAIN ids
    BY <1>3
  <2> QED BY <1>1, <1>18, <2>1, <2>2 DEF SendingIsKnown
<1>20. Types'
  <2>1. thread.ran \cup thread.refused \cup late \subseteq DOMAIN minted'
    BY <1>8 DEF IInv, Types
  <2> QED BY <1>1, <1>6, <1>9, <1>18, <2>1 DEF IInv, Types
<1>21. JobIsWhole' /\ CacheIsWhole' /\ TilesAreWhole'
  BY <1>1, <1>18 DEF IInv, JobIsWhole, CacheIsWhole, TilesAreWhole
<1> QED BY <1>14, <1>15, <1>16, <1>17, <1>19, <1>20, <1>21 DEF IInv

-----------------------------------------------------------------------------
(* What it shows.                                                          *)

LEMMA StepIInv ==
  ASSUME Sizes, IInv, [Next]_deliveryVars
  PROVE  IInv'
<1>1. CASE UNCHANGED deliveryVars
  <2>1. UNCHANGED <<thread, late, link, cache, offer, tile, deliveries, job, held, minted>>
    BY <1>1 DEF deliveryVars
  <2>2. Types'
    BY <2>1 DEF IInv, Types
  <2>3. JobIsWhole' /\ CacheIsWhole' /\ TilesAreWhole'
    BY <2>1 DEF IInv, JobIsWhole, CacheIsWhole, TilesAreWhole
  <2>4. Grows'
    BY <2>1 DEF IInv, Grows, Reached
  <2>5. MemoryIsWhole'
    BY <2>1 DEF IInv, MemoryIsWhole, Made, Message, IdsOf
  <2>6. AliveIsKnown'
    BY <2>1 DEF IInv, AliveIsKnown, Message, Alive, Holds, IdsOf, Passed
  <2>7. OneIsAlive'
    BY <2>1 DEF IInv, OneIsAlive, Message, Alive
  <2>8. SendingIsKnown'
    BY <2>1 DEF IInv, SendingIsKnown, Holds
  <2> QED BY <2>2, <2>3, <2>4, <2>5, <2>6, <2>7, <2>8 DEF IInv
<1>2. CASE Next
  BY <1>2, ChangesIInv, ReadsLateIInv, StartsIInv, ReadShellIInv, ReadFailsIInv, RefreshIInv,
     RefuseIInv, RepeatIInv, MakeIInv, AcceptedIInv, RejectedIInv, NotLetInIInv, LostIInv
  DEF Next
<1> QED BY <1>1, <1>2

LEMMA IsDeliveredOnce == IInv => DeliveredOnce
BY DEF IInv, Types, DeliveredOnce, RunsOnce, OneIsAlive, Alive

\* Two commands that ran and send the message of the same press (the same action
\* at the same revision) are the same command, and a tile that can be pressed
\* shows a detail at least as new as its shell: whatever replies are lost, late
\* or repeated, while T3 refuses no ticket it granted before and no more actions
\* are offered than deliveries are remembered (t3.py).
THEOREM Once ==
  ASSUME Sizes
  PROVE  Spec => []DeliveredOnce
<1>1. Init => IInv
  BY InitIInv
<1>2. IInv /\ [Next]_deliveryVars => IInv'
  BY StepIInv
<1> QED BY <1>1, <1>2, IsDeliveredOnce, PTL DEF Spec
=============================================================================
