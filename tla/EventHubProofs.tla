--------------------------- MODULE EventHubProofs ---------------------------
(***************************************************************************)
(* Proofs about EventHub, for any panes, prompts, requests and bounds, and *)
(* whichever faults the environment is allowed.                            *)
(***************************************************************************)
EXTENDS EventHub, TLAPS

\* What a request holds at each place of its handler.
Handlers ==
  \A r \in Requests :
    /\ req[r].pc \in InFlight \cup {"fresh", "watch", "watching"} => req[r].pane \in Panes
    /\ req[r].pc \in {"fresh", "watch", "watching"} => req[r].ticket \in EpisodeIds
    /\ req[r].pc \in {"watch", "watching"} => req[r].tries # 0
    /\ shot[r] # "idle" => req[r].pc \in {"fresh", "watching"}

\* Stamps follow the agents, snapshots follow the stamps, and the hub follows
\* the snapshots: an equal time means an equal status.
Clock ==
  \A p \in Panes :
    /\ seen[p].since <= agent[p].turn
    /\ seen[p].since = agent[p].turn => seen[p].status = agent[p].status
    /\ snap # None => /\ snap[p].since <= seen[p].since
                      /\ snap[p].since = seen[p].since => snap[p].status = seen[p].status
    /\ open[p] # None =>
         /\ open[p][1] = p
         /\ open[p][2] <= seen[p].since
         /\ open[p][2] = seen[p].since => eps[open[p]].kind = seen[p].status
         /\ snap # None =>
              /\ open[p][2] <= snap[p].since
              /\ open[p][2] = snap[p].since => eps[open[p]].kind = snap[p].status

\* No snapshot still to be observed can open episode e.
Over(e) ==
  /\ ~IsOpen(e)
  /\ e[2] < seen[e[1]].since
  /\ snap # None => e[2] < snap[e[1]].since

Tickets == \A r \in Requests : req[r].ticket # None => IsOpen(req[r].ticket) \/ Over(req[r].ticket)

-----------------------------------------------------------------------------
TypeInv == TypeOK /\ Handlers

USE ConstantsAssumption

LEMMA NewEpisodeType ==
  ASSUME NEW kind \in OpenKinds
  PROVE  NewEpisode(kind) \in EpisodeRecords
  BY DEF NewEpisode, OpenKinds, EpisodeRecords

LEMMA EpisodeWith ==
  ASSUME NEW x \in EpisodeRecords
  PROVE  /\ \A v \in {"no", "first", "again"} : [x EXCEPT !.reading = v] \in EpisodeRecords
         /\ \A v \in Texts \cup {None} : [x EXCEPT !.revision = v] \in EpisodeRecords
         /\ \A v \in BOOLEAN : [x EXCEPT !.announced = v] \in EpisodeRecords
         /\ \A v \in BOOLEAN : [x EXCEPT !.answering = v] \in EpisodeRecords
         /\ \A v \in Texts \cup {None, Unread} : [x EXCEPT !.answered = v] \in EpisodeRecords
  BY DEF EpisodeRecords

LEMMA FrameType ==
  ASSUME NEW kind \in OpenKinds \cup CloseKinds \cup {"answered"}, NEW rev \in Texts \cup {None}
  PROVE  /\ Frame(kind, rev) \in Frames
         /\ Frame(kind, rev).kind = kind
         /\ Frame(kind, rev).rev = rev
  BY DEF Frame, Frames

LEMMA InitTypeInv == Init => TypeInv
<1> SUFFICES ASSUME Init PROVE TypeInv
  OBVIOUS
<1>1. eps \in [EpisodeIds -> EpisodeRecords]
  <2>1. [NewEpisode("blocked") EXCEPT !.reading = "no"] \in EpisodeRecords
    BY NewEpisodeType, EpisodeWith DEF OpenKinds
  <2> QED BY <2>1 DEF Init
<1>2. emitted \in [EpisodeIds -> Seq(Frames)]
  BY DEF Init
<1>3. NewRequest \in [pc : {"idle"}, kind : {None}, pane : {None}, claim : {None}, rev : {None},
                      ticket : {None}, base : {None}, tries : {0}]
  BY DEF NewRequest, Message
<1>4. NewRequest \in RequestRecords
  BY <1>3 DEF RequestRecords, NewRequest, Message, Places
<1>5. /\ agent \in [Panes -> [status : Statuses, screen : Texts, turn : Turns, typed : SUBSET Requests]]
      /\ seen \in [Panes -> [status : Statuses, since : Turns]]
  BY DEF Init, Statuses, Texts, Turns
<1> QED
  BY <1>1, <1>2, <1>4, <1>5 DEF Init, TypeInv, TypeOK, Handlers, Readers, InFlight, NewRequest, Message

LEMMA TurnTypeInv ==
  ASSUME TypeInv, NEW p \in Panes, NEW status \in Statuses, NEW text \in Texts, Turn(p, status, text)
  PROVE  TypeInv'
  BY DEF TypeInv, TypeOK, Handlers, Turn, Turns, hubVars, InFlight

LEMMA StampType ==
  ASSUME TypeOK
  PROVE  Stamp \in [Panes -> [status : Statuses, since : Turns]]
  BY DEF TypeOK, Stamp

LEMMA SnapshotTypeInv ==
  ASSUME TypeInv, ListSnapshot \/ BroadcastSnapshot
  PROVE  TypeInv'
  BY StampType DEF TypeInv, TypeOK, Handlers, ListSnapshot, BroadcastSnapshot, hubVars, InFlight

LEMMA ObserveTypeInv ==
  ASSUME TypeInv, Observe
  PROVE  TypeInv'
<1> USE DEF TypeInv
<1> snap \in [Panes -> [status : Statuses, since : Turns]]
  BY DEF Observe, TypeOK
<1>1. open' \in [Panes -> EpisodeIds \cup {None}]
  BY DEF Observe, EpisodeOf, EpisodeIds
<1>2. eps' \in [EpisodeIds -> EpisodeRecords]
  <2>1. ASSUME NEW e \in EpisodeIds PROVE [eps[e] EXCEPT !.reading = "no"] \in EpisodeRecords
    BY EpisodeWith DEF TypeOK
  <2>2. ASSUME NEW e \in EpisodeIds, EpisodeOf(e[1]) = e PROVE snap[e[1]].status \in OpenKinds
    BY <2>2 DEF EpisodeOf
  <2>3. ASSUME NEW e \in EpisodeIds PROVE eps'[e] \in EpisodeRecords
    <3>1. \/ EpisodeOf(e[1]) = e /\ eps'[e] = NewEpisode(snap[e[1]].status)
          \/ eps'[e] = [eps[e] EXCEPT !.reading = "no"]
          \/ eps'[e] = eps[e]
      BY DEF Observe
    <3>2. eps[e] \in EpisodeRecords
      BY DEF TypeOK
    <3> QED BY <3>1, <3>2, <2>1, <2>2, NewEpisodeType
  <2>4. eps' = [e \in EpisodeIds |-> eps'[e]]
    BY DEF Observe
  <2> QED BY <2>3, <2>4
<1>3. shot' \in [Readers -> {"idle", "asked"} \cup Texts]
  BY DEF Observe, TypeOK
<1>4. emitted' \in [EpisodeIds -> Seq(Frames)]
  <2>1. Frame("done", None) \in Frames /\ \A e \in EpisodeIds : Frame(CloseKind(eps[e].kind), None) \in Frames
    BY FrameType DEF TypeOK, CloseKind, OpenKinds, CloseKinds
  <2> QED BY <2>1 DEF Observe, TypeOK
<1>5. Handlers'
  <2>1. \A r \in Requests : shot'[r] = shot[r]
    BY DEF Observe, Readers
  <2> QED BY <2>1 DEF Observe, Handlers
<1> QED
  BY <1>1, <1>2, <1>3, <1>4, <1>5 DEF Observe, TypeOK

\* What a finished read leaves behind.
LEMMA DeliversType ==
  ASSUME TypeOK, NEW s \in Readers, NEW text, Delivers(s, text)
  PROVE  text \in Texts \cup {None} /\ shot[s] # "idle"
  BY DEF Delivers

LEMMA LoadedType ==
  ASSUME TypeOK, NEW e \in EpisodeIds, NEW text \in Texts \cup {None}
  PROVE  /\ Loaded(e, text) \in [EpisodeIds -> EpisodeRecords]
         /\ \A f \in EpisodeIds \ {e} : Loaded(e, text)[f] = eps[f]
         /\ Loaded(e, text)[e] = IF Loads(e, text) THEN [eps[e] EXCEPT !.revision = text] ELSE eps[e]
<1>1. eps \in [EpisodeIds -> EpisodeRecords]
  BY DEF TypeOK
<1>2. Loads(e, text) => [eps[e] EXCEPT !.revision = text] \in EpisodeRecords
  BY <1>1 DEF EpisodeRecords
<1> QED BY <1>1, <1>2 DEF Loaded

LEMMA ReannouncedType ==
  ASSUME TypeOK, NEW e \in EpisodeIds, NEW text \in Texts \cup {None}
  PROVE  Reannounced(e, text) \in [EpisodeIds -> Seq(Frames)]
<1>1. Frame("blocked", text) \in Frames
  BY FrameType DEF OpenKinds
<1>2. emitted[e] \in Seq(Frames)
  BY DEF TypeOK
<1>3. Append(emitted[e], Frame("blocked", text)) \in Seq(Frames)
  BY <1>1, <1>2
<1> QED BY <1>3 DEF Reannounced, TypeOK

LEMMA CaptureTypeInv ==
  ASSUME TypeInv, NEW s \in Readers, Capture(s)
  PROVE  TypeInv'
<1>1. PaneOf(s) \in Panes
  BY DEF TypeInv, TypeOK, Handlers, Capture, PaneOf, Readers, EpisodeIds, InFlight
<1>2. agent[PaneOf(s)].screen \in Texts
  BY <1>1 DEF TypeInv, TypeOK
<1> QED BY <1>2 DEF TypeInv, TypeOK, Handlers, Capture, InFlight

LEMMA FirstReadTypeInv ==
  ASSUME TypeInv, NEW e \in EpisodeIds, FirstRead(e)
  PROVE  TypeInv'
<1> USE DEF TypeInv
<1>1. PICK text \in Texts \cup {None} :
        /\ Delivers(e, text)
        /\ eps' = [Loaded(e, text) EXCEPT ![e].announced = TRUE, ![e].reading = "no"]
        /\ emitted' = [emitted EXCEPT ![e] = Append(@, Frame("blocked", Loaded(e, text)[e].revision))]
  BY DEF FirstRead
<1>2. Loaded(e, text) \in [EpisodeIds -> EpisodeRecords]
  BY LoadedType
<1>3. Loaded(e, text)[e] \in EpisodeRecords
  BY <1>2
<1>4. eps' \in [EpisodeIds -> EpisodeRecords]
  BY <1>1, <1>2, <1>3 DEF EpisodeRecords
<1>5. Frame("blocked", Loaded(e, text)[e].revision) \in Frames
  BY <1>3, FrameType DEF EpisodeRecords, OpenKinds
<1>6. emitted' \in [EpisodeIds -> Seq(Frames)]
  BY <1>1, <1>5 DEF TypeOK
<1>7. shot' \in [Readers -> {"idle", "asked"} \cup Texts] /\ \A r \in Requests : shot'[r] = shot[r]
  BY DEF FirstRead, TypeOK, Readers
<1> QED BY <1>4, <1>6, <1>7 DEF FirstRead, TypeOK, Handlers

LEMMA PollPromptTypeInv ==
  ASSUME TypeInv, NEW e \in EpisodeIds, PollPrompt(e)
  PROVE  TypeInv'
<1> USE DEF TypeInv
<1>1. eps' \in [EpisodeIds -> EpisodeRecords]
  <2>1. [eps[e] EXCEPT !.reading = "again"] \in EpisodeRecords
    BY EpisodeWith DEF TypeOK
  <2> QED BY <2>1 DEF PollPrompt, TypeOK
<1>2. shot' \in [Readers -> {"idle", "asked"} \cup Texts] /\ \A r \in Requests : shot'[r] = shot[r]
  BY DEF PollPrompt, TypeOK, Readers
<1> QED BY <1>1, <1>2 DEF PollPrompt, TypeOK, Handlers

LEMMA RereadTypeInv ==
  ASSUME TypeInv, NEW e \in EpisodeIds, Reread(e)
  PROVE  TypeInv'
<1> USE DEF TypeInv
<1>1. PICK text \in Texts \cup {None} :
        /\ eps' = [Loaded(e, text) EXCEPT ![e].reading = "no"]
        /\ emitted' = Reannounced(e, text)
  BY DEF Reread
<1>2. Loaded(e, text) \in [EpisodeIds -> EpisodeRecords]
  BY LoadedType
<1>3. eps' \in [EpisodeIds -> EpisodeRecords]
  BY <1>1, <1>2 DEF EpisodeRecords
<1>4. emitted' \in [EpisodeIds -> Seq(Frames)]
  BY <1>1, ReannouncedType
<1>5. shot' \in [Readers -> {"idle", "asked"} \cup Texts] /\ \A r \in Requests : shot'[r] = shot[r]
  BY DEF Reread, TypeOK, Readers
<1> QED BY <1>3, <1>4, <1>5 DEF Reread, TypeOK, Handlers

LEMMA GateType ==
  ASSUME NEW r \in Requests, NEW E \in [EpisodeIds -> EpisodeRecords], NEW m \in RequestRecords,
         TypeOK, m.pane \in Panes, m.ticket = None, Gate(r, E, m)
  PROVE  /\ eps' \in [EpisodeIds -> EpisodeRecords]
         /\ req' \in [Requests -> RequestRecords]
         /\ req'[r].pc \in {"stale", "type", "check"} /\ req'[r].pane = m.pane
         /\ \A s \in Requests \ {r} : req'[s] = req[s]
<1> DEFINE ep == AnswerTarget(m.pane)
           verdict == Verdict(E, m)
           ticket == IF verdict = "ticket" THEN ep ELSE None
           pc == IF m.kind = "send_text" THEN "type" ELSE "check"
<1>1. ep \in EpisodeIds \cup {None}
  BY DEF AnswerTarget, TypeOK
<1>2. verdict = "ticket" => ep \in EpisodeIds
  BY <1>1 DEF Verdict, RequestRecords
<1>3. eps' \in [EpisodeIds -> EpisodeRecords]
  <2>1. CASE verdict = "ticket"
    <3>1. E[ep] \in EpisodeRecords
      BY <1>2, <2>1
    <3>2. [E[ep] EXCEPT !.answering = TRUE] \in EpisodeRecords
      BY <3>1, EpisodeWith
    <3>3. eps' = [E EXCEPT ![ep] = [E[ep] EXCEPT !.answering = TRUE]]
      BY <2>1 DEF Gate
    <3> QED BY <3>2, <3>3
  <2>2. CASE verdict # "ticket"
    BY <2>2 DEF Gate
  <2> QED BY <2>1, <2>2
<1>4. pc \in {"type", "check"} /\ ticket \in EpisodeIds \cup {None}
  BY <1>2
<1>5. req' = [req EXCEPT ![r] = IF verdict = "stale" THEN [m EXCEPT !.pc = "stale"]
                                 ELSE [m EXCEPT !.pc = pc, !.ticket = ticket]]
  BY DEF Gate
<1> HIDE DEF ep, verdict, ticket, pc
<1>6. req'[r] = IF verdict = "stale" THEN [m EXCEPT !.pc = "stale"]
                ELSE [m EXCEPT !.pc = pc, !.ticket = ticket]
  BY <1>5 DEF TypeOK
<1>7. req'[r] \in RequestRecords /\ req'[r].pc \in {"stale", "type", "check"} /\ req'[r].pane = m.pane
  <2>1. CASE verdict = "stale"
    BY <1>6, <2>1 DEF RequestRecords, Places
  <2>2. CASE verdict # "stale"
    <3>1. pc \in Places
      BY <1>4 DEF Places
    <3>2. req'[r] = [m EXCEPT !.pc = pc, !.ticket = ticket]
      BY <1>6, <2>2
    <3> QED BY <1>4, <3>1, <3>2 DEF RequestRecords
  <2> QED BY <2>1, <2>2
<1>8. req' \in [Requests -> RequestRecords] /\ \A s \in Requests \ {r} : req'[s] = req[s]
  BY <1>5, <1>7 DEF TypeOK
<1> QED BY <1>3, <1>7, <1>8

LEMMA BeginAnswerTypeInv ==
  ASSUME TypeInv, NEW r \in Requests, BeginAnswer(r)
  PROVE  TypeInv'
<1> USE DEF TypeInv
<1>1. PICK p \in Panes, kind \in Kinds, claim \in EpisodeIds \cup {None}, rev \in Texts \cup {None} :
        LET m == Message(kind, p, claim, rev) IN
        IF NeedsFreshRead(m)
          THEN /\ req' = [req EXCEPT ![r] = [m EXCEPT !.pc = "fresh", !.ticket = open[p]]]
               /\ shot' = [shot EXCEPT ![r] = "asked"]
               /\ UNCHANGED eps
          ELSE Gate(r, eps, m) /\ UNCHANGED shot
  BY DEF BeginAnswer
<1> DEFINE m == Message(kind, p, claim, rev)
<1>2. m \in RequestRecords /\ m.pane = p /\ m.ticket = None
  BY DEF Message, RequestRecords, Places
<1>3. UNCHANGED <<agent, seen, snap, open, emitted>>
  BY DEF BeginAnswer
<1> HIDE DEF m
<1>4. CASE NeedsFreshRead(m)
  <2>1. open[p] \in EpisodeIds
    BY <1>2, <1>4 DEF NeedsFreshRead, AnswerTarget, TypeOK
  <2>2. [m EXCEPT !.pc = "fresh", !.ticket = open[p]] \in RequestRecords
    BY <1>2, <2>1 DEF RequestRecords, Places
  <2>3. req' = [req EXCEPT ![r] = [m EXCEPT !.pc = "fresh", !.ticket = open[p]]]
    BY <1>1, <1>4 DEF m
  <2>4. [m EXCEPT !.pc = "fresh", !.ticket = open[p]].pane = p
        /\ [m EXCEPT !.pc = "fresh", !.ticket = open[p]].ticket = open[p]
        /\ [m EXCEPT !.pc = "fresh", !.ticket = open[p]].pc = "fresh"
    BY <1>2, <2>1 DEF RequestRecords, Places
  <2>5. req' \in [Requests -> RequestRecords]
    BY <2>2, <2>3 DEF TypeOK
  <2>6. shot' = [shot EXCEPT ![r] = "asked"] /\ eps' = eps
    BY <1>1, <1>4 DEF m
  <2>7. shot' \in [Readers -> {"idle", "asked"} \cup Texts]
    BY <2>6 DEF TypeOK
  <2>8. Handlers'
    BY <2>1, <2>3, <2>4, <2>6 DEF Handlers, TypeOK, InFlight, Readers
  <2> QED BY <2>5, <2>6, <2>7, <2>8, <1>3 DEF TypeOK
<1>5. CASE ~NeedsFreshRead(m)
  <2>1. Gate(r, eps, m) /\ shot' = shot
    BY <1>1, <1>5 DEF m
  <2>2. /\ eps' \in [EpisodeIds -> EpisodeRecords]
        /\ req' \in [Requests -> RequestRecords]
        /\ req'[r].pc \in {"stale", "type", "check"} /\ req'[r].pane = p
        /\ \A s \in Requests \ {r} : req'[s] = req[s]
    BY <1>2, <2>1, GateType DEF TypeOK
  <2>3. shot[r] = "idle"
    BY DEF BeginAnswer, Handlers
  <2>4. Handlers'
    BY <2>1, <2>2, <2>3 DEF Handlers
  <2> QED BY <1>3, <2>1, <2>2, <2>4 DEF TypeOK
<1> QED BY <1>4, <1>5

LEMMA FreshReadTypeInv ==
  ASSUME TypeInv, NEW r \in Requests, FreshRead(r)
  PROVE  TypeInv'
<1> USE DEF TypeInv
<1> DEFINE m == [req[r] EXCEPT !.ticket = None]
<1>1. PICK text \in Texts \cup {None} :
        /\ Gate(r, Loaded(req[r].ticket, text), m)
        /\ emitted' = Reannounced(req[r].ticket, text)
  BY DEF FreshRead
<1>2. req[r].ticket \in EpisodeIds /\ req[r].pane \in Panes
  BY DEF FreshRead, Handlers
<1>3. req[r] \in RequestRecords
  BY DEF TypeOK
<1>4. m \in RequestRecords /\ m.pane \in Panes /\ m.ticket = None
  BY <1>2, <1>3 DEF RequestRecords
<1>5. Loaded(req[r].ticket, text) \in [EpisodeIds -> EpisodeRecords]
  BY <1>2, LoadedType
<1> HIDE DEF m
<1>6. /\ eps' \in [EpisodeIds -> EpisodeRecords]
      /\ req' \in [Requests -> RequestRecords]
      /\ req'[r].pc \in {"stale", "type", "check"} /\ req'[r].pane = m.pane
      /\ \A s \in Requests \ {r} : req'[s] = req[s]
  BY <1>1, <1>4, <1>5, GateType
<1>7. emitted' \in [EpisodeIds -> Seq(Frames)]
  BY <1>1, <1>2, ReannouncedType
<1>8. /\ shot' \in [Readers -> {"idle", "asked"} \cup Texts]
      /\ shot'[r] = "idle" /\ \A s \in Requests \ {r} : shot'[s] = shot[s]
  BY DEF FreshRead, TypeOK, Readers
<1>9. Handlers'
  BY <1>4, <1>6, <1>8 DEF Handlers, InFlight
<1> QED BY <1>6, <1>7, <1>8, <1>9 DEF FreshRead, TypeOK

LEMMA FinishedType ==
  ASSUME NEW r \in Requests, req[r] \in RequestRecords
  PROVE  Finished(r) \in RequestRecords /\ Finished(r).pc = "finished" /\ Finished(r).ticket = None
<1>1. NewRequest \in RequestRecords /\ NewRequest.ticket = None
  BY DEF NewRequest, Message, RequestRecords, Places
<1>2. Finished(r) = [NewRequest EXCEPT !.pc = "finished", !.claim = req[r].claim]
  BY DEF Finished
<1> QED BY <1>1, <1>2 DEF RequestRecords, Places

LEMMA AnsweredFrame == Frame("answered", None) \in Frames
  BY DEF Frame, Frames

\* What end_answer() leaves behind.
LEMMA EndAnswerType ==
  ASSUME TypeInv, NEW r \in Requests, NEW sent \in BOOLEAN, EndAnswer(r, sent)
  PROVE  /\ eps' \in [EpisodeIds -> EpisodeRecords]
         /\ req' \in [Requests -> RequestRecords]
         /\ emitted' \in [EpisodeIds -> Seq(Frames)]
         /\ req'[r].pc \in {"watch", "finished"}
         /\ req'[r].pc = "watch" => /\ req'[r].ticket \in EpisodeIds
                                      /\ req'[r].pane = req[r].pane
                                      /\ req'[r].tries # 0
         /\ \A s \in Requests \ {r} : req'[s] = req[s]
<1> DEFINE ep == req[r].ticket
           revision == IF eps[ep].revision = None THEN Unread ELSE eps[ep].revision
           watching == [req[r] EXCEPT !.pc = "watch", !.base = revision, !.tries = Rereads]
<1>1. /\ req[r] \in RequestRecords /\ req \in [Requests -> RequestRecords]
      /\ eps \in [EpisodeIds -> EpisodeRecords] /\ emitted \in [EpisodeIds -> Seq(Frames)]
  BY DEF TypeInv, TypeOK
<1>2. Finished(r) \in RequestRecords /\ Finished(r).pc = "finished"
  BY <1>1, FinishedType
<1>3. CASE req' = [req EXCEPT ![r] = Finished(r)]
  <2>1. req'[r] = Finished(r) /\ req' \in [Requests -> RequestRecords]
        /\ \A s \in Requests \ {r} : req'[s] = req[s]
    BY <1>1, <1>2, <1>3
  <2>2. CASE ep = None
    BY <1>1, <1>2, <2>1, <2>2 DEF EndAnswer
  <2>3. CASE ep # None
    <3>1. ep \in EpisodeIds /\ eps[ep] \in EpisodeRecords
      BY <1>1, <2>3 DEF RequestRecords
    <3>2. [eps[ep] EXCEPT !.answering = FALSE] \in EpisodeRecords
      BY <3>1, EpisodeWith
    <3>3. revision \in Texts \cup {None, Unread}
      BY <3>1 DEF EpisodeRecords
    <3>4. [[eps[ep] EXCEPT !.answering = FALSE] EXCEPT !.answered = revision] \in EpisodeRecords
      BY <3>2, <3>3, EpisodeWith
    <3>5. Append(emitted[ep], Frame("answered", None)) \in Seq(Frames)
      BY <1>1, <3>1, AnsweredFrame
    <3>6. \/ eps' = [eps EXCEPT ![ep].answering = FALSE] /\ emitted' = emitted
          \/ /\ eps' = [eps EXCEPT ![ep].answering = FALSE, ![ep].answered = revision]
             /\ emitted' = [emitted EXCEPT ![ep] = Append(@, Frame("answered", None))]
      BY <2>3 DEF EndAnswer
    <3>7. eps' \in [EpisodeIds -> EpisodeRecords]
      BY <1>1, <3>2, <3>4, <3>6
    <3>8. emitted' \in [EpisodeIds -> Seq(Frames)]
      BY <1>1, <3>5, <3>6
    <3> QED BY <1>2, <2>1, <3>7, <3>8
  <2> QED BY <2>2, <2>3
<1>4. CASE req' # [req EXCEPT ![r] = Finished(r)]
  <2>1. /\ ep # None /\ IsOpen(ep)
        /\ req' = [req EXCEPT ![r] = watching]
        /\ eps' = [eps EXCEPT ![ep].answering = FALSE, ![ep].answered = revision]
        /\ emitted' = [emitted EXCEPT ![ep] = Append(@, Frame("answered", None))]
    BY <1>4 DEF EndAnswer
  <2>2. ep \in EpisodeIds /\ eps[ep] \in EpisodeRecords
    BY <1>1, <2>1 DEF RequestRecords
  <2>3. revision \in Texts \cup {None, Unread}
    BY <2>2 DEF EpisodeRecords
  <2>4. [[eps[ep] EXCEPT !.answering = FALSE] EXCEPT !.answered = revision] \in EpisodeRecords
    BY <2>2, <2>3, EpisodeWith
  <2>5. Append(emitted[ep], Frame("answered", None)) \in Seq(Frames)
    BY <1>1, <2>2, AnsweredFrame
  <2>6. Rereads \in 0..Rereads
    OBVIOUS
  <2>7. /\ watching \in RequestRecords /\ watching.pc = "watch"
        /\ watching.ticket = ep /\ watching.pane = req[r].pane /\ watching.tries # 0
    <3>1. req[r] \in RequestRecords /\ Rereads # 0
      BY <1>1
    <3>2. "watch" \in Places
      BY DEF Places
    <3> HIDE DEF revision
    <3> QED BY <2>3, <2>6, <3>1, <3>2 DEF RequestRecords
  <2> HIDE DEF watching, revision
  <2>8. eps' \in [EpisodeIds -> EpisodeRecords]
    BY <1>1, <2>1, <2>2, <2>4
  <2>9. emitted' \in [EpisodeIds -> Seq(Frames)]
    BY <1>1, <2>1, <2>2, <2>5
  <2>10. /\ req' \in [Requests -> RequestRecords] /\ req'[r] = watching
         /\ \A s \in Requests \ {r} : req'[s] = req[s]
    BY <1>1, <2>1, <2>7
  <2> QED BY <2>2, <2>7, <2>8, <2>9, <2>10
<1> QED BY <1>3, <1>4

LEMMA EndAnswerTypeInv ==
  ASSUME TypeInv, NEW r \in Requests, NEW sent \in BOOLEAN, EndAnswer(r, sent),
         req[r].pc \in InFlight, UNCHANGED <<agent, seen, snap, open, shot>>
  PROVE  TypeInv'
<1>1. shot[r] = "idle" /\ req[r].pane \in Panes
  BY DEF TypeInv, Handlers, InFlight
<1>2. Handlers'
  BY <1>1, EndAnswerType DEF TypeInv, Handlers, InFlight
<1> QED BY <1>2, EndAnswerType DEF TypeInv, TypeOK

LEMMA CheckPaneTypeInv ==
  ASSUME TypeInv, NEW r \in Requests, CheckPane(r)
  PROVE  TypeInv'
<1>1. CASE Accepts(req[r])
  <2>1. req' = [req EXCEPT ![r].pc = "type"] /\ UNCHANGED <<agent, seen, snap, open, eps, shot, emitted>>
    BY <1>1 DEF CheckPane
  <2>2. req[r] \in RequestRecords
    BY DEF TypeInv, TypeOK
  <2>3. /\ [req[r] EXCEPT !.pc = "type"] \in RequestRecords
        /\ [req[r] EXCEPT !.pc = "type"].pc = "type"
        /\ [req[r] EXCEPT !.pc = "type"].pane = req[r].pane
    BY <2>2 DEF RequestRecords, Places
  <2>4. shot[r] = "idle" /\ req[r].pane \in Panes
    BY DEF CheckPane, TypeInv, Handlers, InFlight
  <2>5. req' \in [Requests -> RequestRecords]
    BY <2>1, <2>3 DEF TypeInv, TypeOK
  <2>6. Handlers'
    BY <2>1, <2>3, <2>4 DEF TypeInv, TypeOK, Handlers, InFlight
  <2> QED BY <2>1, <2>5, <2>6 DEF TypeInv, TypeOK
<1>2. CASE ~Accepts(req[r])
  BY <1>2, EndAnswerTypeInv DEF CheckPane, InFlight
<1> QED BY <1>1, <1>2

LEMMA TypeAnswerTypeInv ==
  ASSUME TypeInv, NEW r \in Requests, TypeAnswer(r)
  PROVE  TypeInv'
<1> DEFINE p == req[r].pane
<1>1. /\ agent' = [agent EXCEPT ![p].typed = IF agent[p].status = "blocked" THEN @ \cup {r} ELSE @]
      /\ req' = [req EXCEPT ![r].pc = "reply"]
      /\ UNCHANGED <<seen, snap, open, eps, shot, emitted>>
  BY DEF TypeAnswer
<1>2. shot[r] = "idle" /\ p \in Panes
  BY DEF TypeAnswer, TypeInv, Handlers, InFlight
<1>3. req[r] \in RequestRecords
  BY DEF TypeInv, TypeOK
<1>4. /\ [req[r] EXCEPT !.pc = "reply"] \in RequestRecords
      /\ [req[r] EXCEPT !.pc = "reply"].pc = "reply"
      /\ [req[r] EXCEPT !.pc = "reply"].pane = p
  BY <1>3 DEF RequestRecords, Places
<1>5. agent' \in [Panes -> [status : Statuses, screen : Texts, turn : Turns, typed : SUBSET Requests]]
  <2>1. agent[p] \in [status : Statuses, screen : Texts, turn : Turns, typed : SUBSET Requests]
    BY <1>2 DEF TypeInv, TypeOK
  <2>2. [agent[p] EXCEPT !.typed = IF agent[p].status = "blocked" THEN @ \cup {r} ELSE @]
          \in [status : Statuses, screen : Texts, turn : Turns, typed : SUBSET Requests]
    BY <2>1
  <2> QED BY <1>1, <2>2 DEF TypeInv, TypeOK
<1>6. req' \in [Requests -> RequestRecords]
  BY <1>1, <1>4 DEF TypeInv, TypeOK
<1>7. Handlers'
  BY <1>1, <1>2, <1>4 DEF TypeInv, TypeOK, Handlers, InFlight
<1> QED BY <1>1, <1>5, <1>6, <1>7 DEF TypeInv, TypeOK

LEMMA WatchTypeInv ==
  ASSUME TypeInv, NEW r \in Requests, WatchStops(r) \/ WatchStarts(r) \/ WatchRead(r)
  PROVE  TypeInv'
<1>1. req[r] \in RequestRecords /\ req[r].pc \in {"watch", "watching"}
  BY DEF TypeInv, TypeOK, WatchStops, WatchStarts, WatchRead
<1>2. req[r].pane \in Panes /\ req[r].ticket \in EpisodeIds /\ req[r].tries # 0
  BY <1>1 DEF TypeInv, Handlers
<1>3. Finished(r) \in RequestRecords /\ Finished(r).pc = "finished"
  BY <1>1, FinishedType
<1>4. CASE WatchStops(r)
  <2>1. shot[r] = "idle" /\ req' = [req EXCEPT ![r] = Finished(r)]
    BY <1>4 DEF WatchStops, TypeInv, Handlers
  <2> QED BY <1>3, <1>4, <2>1 DEF WatchStops, TypeInv, TypeOK, Handlers, InFlight
<1>5. CASE WatchStarts(r)
  <2>1. req' = [req EXCEPT ![r].pc = "watching"] /\ shot' = [shot EXCEPT ![r] = "asked"]
    BY <1>5 DEF WatchStarts
  <2>2. /\ [req[r] EXCEPT !.pc = "watching"] \in RequestRecords
        /\ [req[r] EXCEPT !.pc = "watching"].pc = "watching"
        /\ [req[r] EXCEPT !.pc = "watching"].pane = req[r].pane
        /\ [req[r] EXCEPT !.pc = "watching"].ticket = req[r].ticket
        /\ [req[r] EXCEPT !.pc = "watching"].tries = req[r].tries
    BY <1>1 DEF RequestRecords, Places
  <2>3. req' \in [Requests -> RequestRecords] /\ shot' \in [Readers -> {"idle", "asked"} \cup Texts]
    BY <2>1, <2>2 DEF TypeInv, TypeOK
  <2>4. Handlers'
    BY <1>2, <2>1, <2>2 DEF TypeInv, TypeOK, Handlers, InFlight, Readers
  <2> QED BY <1>5, <2>3, <2>4 DEF WatchStarts, TypeInv, TypeOK
<1>6. CASE WatchRead(r)
  <2> DEFINE ep == req[r].ticket
             tries == req[r].tries
             again == WatchesOn(r)
  <2>1. PICK text \in Texts \cup {None} :
          /\ eps' = Loaded(ep, text)
          /\ emitted' = Reannounced(ep, text)
          /\ req' = [req EXCEPT ![r] =
                       IF WatchOver(req[r], Loaded(ep, text)[ep].revision) THEN Finished(r)
                       ELSE again]
    BY <1>6, Zenon DEF WatchRead
  <2>2. eps' \in [EpisodeIds -> EpisodeRecords] /\ emitted' \in [EpisodeIds -> Seq(Frames)]
    BY <1>2, <2>1, LoadedType, ReannouncedType DEF TypeInv
  <2>3. /\ shot' \in [Readers -> {"idle", "asked"} \cup Texts]
        /\ shot'[r] = "idle" /\ \A s \in Requests \ {r} : shot'[s] = shot[s]
    BY <1>6 DEF WatchRead, TypeInv, TypeOK, Readers
  <2>4. /\ req'[r] = Finished(r) \/ (req'[r] = again /\ tries # 1)
        /\ req' = [req EXCEPT ![r] = req'[r]]
    <3> DEFINE over == WatchOver(req[r], Loaded(ep, text)[ep].revision)
               next == IF over THEN Finished(r) ELSE again
    <3>1. ~over => tries # 1
      BY DEF WatchOver
    <3>2. req' = [req EXCEPT ![r] = next]
      BY <2>1
    <3> HIDE DEF next, over
    <3>3. req'[r] = next
      BY <3>2 DEF TypeInv, TypeOK
    <3>4. next = Finished(r) \/ (next = again /\ ~over)
      BY DEF next
    <3> QED BY <3>1, <3>2, <3>3, <3>4
  <2>5. tries \in 0..Rereads /\ tries # 0
    BY <1>1, <1>2 DEF RequestRecords
  <2>6. tries # 1 => again \in RequestRecords /\ again.tries # 0
    <3>1. tries # 1 => tries - 1 \in 0..Rereads /\ tries - 1 # 0
      BY <2>5
    <3> QED BY <1>1, <3>1 DEF WatchesOn, RequestRecords, Places
  <2>7. again.pc = "watch" /\ again.pane = req[r].pane /\ again.ticket = ep
    BY <1>1 DEF WatchesOn, RequestRecords
  <2> HIDE DEF again, tries
  <2>8. req'[r] \in RequestRecords /\ req' \in [Requests -> RequestRecords]
    BY <1>3, <2>4, <2>6 DEF TypeInv, TypeOK
  <2>9. Handlers'
    <3>1. \A s \in Requests \ {r} : req'[s] = req[s]
      BY <2>4 DEF TypeInv, TypeOK
    <3> QED BY <1>2, <1>3, <2>3, <2>4, <2>6, <2>7, <3>1 DEF TypeInv, Handlers, InFlight
  <2> QED BY <1>6, <2>2, <2>3, <2>8, <2>9 DEF WatchRead, TypeInv, TypeOK
<1> QED BY <1>4, <1>5, <1>6

LEMMA StepTypeInv == TypeInv /\ [Next]_vars => TypeInv'
<1> SUFFICES ASSUME TypeInv, [Next]_vars PROVE TypeInv'
  OBVIOUS
<1>1. CASE UNCHANGED vars
  BY <1>1 DEF vars, TypeInv, TypeOK, Handlers, InFlight
<1>2. CASE AgentStep
  <2>1. PICK p \in Panes : AgentAsks(p) \/ AgentWorks(p) \/ AgentFinishes(p)
    BY <1>2 DEF AgentStep
  <2>2. PICK status \in Statuses, text \in Texts : Turn(p, status, text)
    BY <2>1 DEF AgentAsks, AgentWorks, AgentFinishes, Statuses, Texts
  <2> QED BY <2>2, TurnTypeInv
<1>3. CASE ListSnapshot \/ BroadcastSnapshot
  BY <1>3, SnapshotTypeInv
<1>4. CASE Observe
  BY <1>4, ObserveTypeInv
<1>5. CASE \E s \in Readers : Capture(s)
  BY <1>5, CaptureTypeInv
<1>6. CASE ReadStep
  BY <1>6, FirstReadTypeInv, PollPromptTypeInv, RereadTypeInv DEF ReadStep
<1>7. ASSUME NEW r \in Requests, RequestStep(r) PROVE TypeInv'
  <2>1. CASE SendReply(r)
    BY <2>1, EndAnswerTypeInv DEF SendReply, InFlight
  <2> QED BY <1>7, <2>1, BeginAnswerTypeInv, FreshReadTypeInv, CheckPaneTypeInv, TypeAnswerTypeInv,
            WatchTypeInv DEF RequestStep
<1> QED BY <1>1, <1>2, <1>3, <1>4, <1>5, <1>6, <1>7 DEF Next

LEMMA SpecTypeInv == Spec => []TypeInv
  BY InitTypeInv, StepTypeInv, PTL DEF Spec

\* Every value the hub, the handlers and the agents keep stays in its type:
\* the hub of events.py never reads an episode or a ticket it does not have.
THEOREM TypeCorrect == Spec => []TypeOK
<1>1. TypeInv => TypeOK
  BY DEF TypeInv
<1> QED BY <1>1, SpecTypeInv, PTL

-----------------------------------------------------------------------------
(* One answer in flight.  The hub gives a ticket out only for an open      *)
(* episode; a ticket of an episode that ended can never meet it again,     *)
(* because the clock only moves on (Clock) and so no snapshot reopens it.  *)

SpecTickets == Clock /\ Tickets /\ OneAnswerInFlight

\* A step of the hub that no pane's history depends on.
HubOnly ==
  /\ UNCHANGED <<seen, snap, open>>
  /\ \A p \in Panes : agent'[p].turn = agent[p].turn /\ agent'[p].status = agent[p].status
  /\ \A e \in EpisodeIds : eps'[e].kind = eps[e].kind

\* A step that leaves every reservation and every ticket where it is.
SameAnswers ==
  /\ \A e \in EpisodeIds : eps'[e].answering = eps[e].answering
  /\ \A r \in Requests : req'[r].ticket = req[r].ticket \/ req'[r].ticket = None
  /\ \A r \in Requests, e \in EpisodeIds : Answers(r, e)' <=> Answers(r, e)

LEMMA HubOnlyClock ==
  ASSUME TypeOK, Clock, HubOnly
  PROVE  Clock'
  BY DEF TypeOK, Clock, HubOnly

\* Tickets are kept, given back, or given out for an episode that is open.
TicketsKept ==
  \A r \in Requests :
    \/ req'[r].ticket = req[r].ticket
    \/ req'[r].ticket = None
    \/ (req'[r].ticket \in EpisodeIds /\ IsOpen(req'[r].ticket))

LEMMA HubOnlyTickets ==
  ASSUME TypeOK, Tickets, HubOnly, TicketsKept
  PROVE  Tickets'
  BY DEF TypeOK, Tickets, HubOnly, TicketsKept, IsOpen, Over

LEMMA SameAnswersInFlight ==
  ASSUME OneAnswerInFlight, SameAnswers
  PROVE  OneAnswerInFlight'
  BY DEF OneAnswerInFlight, SameAnswers

\* A stamp never turns the status clock back, and moves it whenever it
\* changes a status.
LEMMA StampMovesOn ==
  ASSUME TypeOK, Clock, NEW p \in Panes
  PROVE  /\ seen[p].since <= Stamp[p].since
         /\ Stamp[p].since <= agent[p].turn
         /\ Stamp[p].since = agent[p].turn => Stamp[p].status = agent[p].status
         /\ Stamp[p].since = seen[p].since => Stamp[p].status = seen[p].status
         /\ Stamp[p].since \in Nat /\ seen[p].since \in Nat
<1>1. /\ seen[p] \in [status : Statuses, since : Turns]
      /\ agent[p].turn \in Nat
  BY DEF TypeOK, Turns
<1>2. seen[p].since \in Nat
  BY <1>1 DEF Turns
<1>3. CASE agent[p].status = seen[p].status
  BY <1>1, <1>2, <1>3 DEF Stamp, Clock
<1>4. CASE agent[p].status # seen[p].status
  BY <1>1, <1>2, <1>4 DEF Stamp, Clock
<1> QED BY <1>3, <1>4

LEMMA EpisodeIdParts ==
  ASSUME NEW e \in EpisodeIds
  PROVE  e[1] \in Panes /\ e[2] \in Nat
  BY DEF EpisodeIds, Turns

LEMMA TurnTickets ==
  ASSUME TypeInv, SpecTickets, NEW p \in Panes, NEW status \in Statuses, NEW text \in Texts,
         Turn(p, status, text)
  PROVE  SpecTickets'
<1>1. Clock'
  <2>1. \A q \in Panes : seen[q].since \in Nat /\ agent[q].turn \in Nat
    BY DEF TypeInv, TypeOK, Turns
  <2>2. \A q \in Panes : \/ agent'[q] = agent[q]
                        \/ agent'[q].turn = agent[q].turn + 1
    BY DEF Turn, TypeInv, TypeOK
  <2>3. UNCHANGED <<seen, snap, open, eps>>
    BY DEF Turn, hubVars
  <2> QED BY <2>1, <2>2, <2>3 DEF SpecTickets, Clock
<1>2. UNCHANGED <<seen, snap, open, eps, req>>
  BY DEF Turn, hubVars
<1>3. Tickets' /\ OneAnswerInFlight'
  BY <1>2 DEF SpecTickets, Tickets, OneAnswerInFlight, IsOpen, Over, Answers
<1> QED BY <1>1, <1>3 DEF SpecTickets

LEMMA SnapshotTickets ==
  ASSUME TypeInv, SpecTickets, ListSnapshot \/ BroadcastSnapshot
  PROVE  SpecTickets'
<1>1. /\ UNCHANGED <<agent, open, eps, req>>
      /\ seen' = Stamp
      /\ snap' = snap \/ snap' = seen'
  BY DEF ListSnapshot, BroadcastSnapshot, hubVars
<1>2. TypeOK /\ Clock /\ Tickets
  BY DEF TypeInv, SpecTickets
<1>3. Clock'
  <2>1. \A p \in Panes : open[p] # None => open[p] \in EpisodeIds /\ open[p][2] \in Nat
    BY <1>2, EpisodeIdParts DEF TypeOK
  <2>2. \A p \in Panes : snap # None => snap[p].since \in Nat
    BY <1>2 DEF TypeOK, Turns
  <2> QED BY <1>1, <1>2, <2>1, <2>2, StampMovesOn DEF Clock
<1>4. Tickets'
  <2>1. ASSUME NEW r \in Requests, req'[r].ticket # None
        PROVE  (IsOpen(req[r].ticket) \/ Over(req[r].ticket))'
    <3> DEFINE e == req[r].ticket
    <3>1. e \in EpisodeIds /\ req'[r].ticket = e
      BY <1>1, <1>2, <2>1 DEF TypeOK, RequestRecords
    <3>2. e[1] \in Panes /\ e[2] \in Nat
      BY <3>1, EpisodeIdParts
    <3>3. seen[e[1]].since <= Stamp[e[1]].since /\ Stamp[e[1]].since \in Nat /\ seen[e[1]].since \in Nat
      BY <1>2, <3>2, StampMovesOn
    <3>4. IsOpen(e) \/ Over(e)
      BY <1>2, <2>1, <3>1 DEF Tickets
    <3> HIDE DEF e
    <3> QED BY <1>1, <3>1, <3>2, <3>3, <3>4 DEF IsOpen, Over
  <2> QED BY <2>1 DEF Tickets
<1>5. OneAnswerInFlight'
  BY <1>1 DEF SpecTickets, OneAnswerInFlight, Answers
<1> QED BY <1>3, <1>4, <1>5 DEF SpecTickets

LEMMA ObserveTickets ==
  ASSUME TypeInv, SpecTickets, Observe
  PROVE  SpecTickets'
<1>1. TypeOK /\ Clock /\ Tickets /\ OneAnswerInFlight /\ snap # None
  BY DEF TypeInv, SpecTickets, Observe
<1>2. /\ UNCHANGED <<agent, seen, req>> /\ snap' = None
      /\ open' = [p \in Panes |-> EpisodeOf(p)]
  BY DEF Observe
<1>3. ASSUME NEW p \in Panes
      PROVE  /\ snap[p].since \in Nat /\ seen[p].since \in Nat /\ <<p, snap[p].since>> \in EpisodeIds
             /\ open[p] # None => open[p] \in EpisodeIds /\ open[p][1] = p /\ open[p][2] \in Nat
  <2>1. snap[p].since \in Turns /\ seen[p].since \in Turns
    BY <1>1 DEF TypeOK
  <2>2. open[p] # None => open[p] \in EpisodeIds /\ open[p][1] = p
    BY <1>1 DEF TypeOK, Clock
  <2> QED BY <2>1, <2>2, EpisodeIdParts DEF Turns, EpisodeIds
\* An episode that closes was opened before the time of the snapshot.
<1>4. ASSUME NEW e \in EpisodeIds, IsOpen(e), EpisodeOf(e[1]) # e
      PROVE  e[2] < snap[e[1]].since
  <2> DEFINE p == e[1]
  <2>1. p \in Panes /\ e[2] \in Nat /\ open[p] = e /\ e # None
    BY <1>4, EpisodeIdParts DEF IsOpen
  <2>2. e[2] <= snap[p].since
    BY <1>1, <2>1 DEF Clock
  <2>3. CASE e[2] = snap[p].since
    <3>1. eps[e].kind = snap[p].status
      BY <1>1, <2>1, <2>3 DEF Clock
    <3>2. EpisodeOf(p) = <<p, e[2]>>
      BY <1>1, <2>3, <3>1 DEF EpisodeOf, TypeOK, EpisodeRecords
    <3>3. e = <<e[1], e[2]>>
      BY DEF EpisodeIds
    <3> QED BY <1>4, <3>2, <3>3
  <2>4. snap[p].since \in Nat
    BY <1>3, <2>1
  <2>5. CASE e[2] # snap[p].since
    BY <2>1, <2>2, <2>4, <2>5
  <2> QED BY <2>3, <2>5
\* An episode that opens is held by no request.
<1>5. ASSUME NEW e \in EpisodeIds, open[e[1]] # e, EpisodeOf(e[1]) = e, NEW r \in Requests
      PROVE  req[r].ticket # e
  <2>1. e[2] = snap[e[1]].since /\ e # None
    BY <1>5 DEF EpisodeOf
  <2> SUFFICES ASSUME req[r].ticket = e PROVE FALSE
    OBVIOUS
  <2>2. Over(e)
    BY <1>1, <1>5, <2>1 DEF Tickets, IsOpen
  <2> QED BY <1>1, <1>3, <2>1, <2>2, EpisodeIdParts DEF Over
<1>6. \A e \in EpisodeIds :
        \/ /\ open[e[1]] # e /\ EpisodeOf(e[1]) = e
           /\ eps'[e] = NewEpisode(snap[e[1]].status)
        \/ /\ open[e[1]] = e \/ EpisodeOf(e[1]) # e
           /\ eps'[e].kind = eps[e].kind /\ eps'[e].answering = eps[e].answering
  <2>1. \A e \in EpisodeIds : eps[e] \in EpisodeRecords
    BY <1>1 DEF TypeOK
  <2> QED BY <2>1 DEF Observe, EpisodeRecords
<1>7. Clock'
  <2>1. ASSUME NEW p \in Panes, EpisodeOf(p) # None
        PROVE  /\ EpisodeOf(p) = <<p, snap[p].since>>
               /\ eps'[EpisodeOf(p)].kind = snap[p].status
    <3> DEFINE e == <<p, snap[p].since>>
    <3>1. EpisodeOf(p) = e /\ e \in EpisodeIds /\ e # None
      BY <1>3, <2>1 DEF EpisodeOf
    <3>2. CASE eps'[e] = NewEpisode(snap[p].status)
      BY <3>1, <3>2 DEF NewEpisode
    <3>3. CASE eps'[e] # NewEpisode(snap[p].status)
      <4>1. open[p] = e /\ eps'[e].kind = eps[e].kind
        BY <1>6, <3>1, <3>3
      <4>2. eps[e].kind = snap[p].status
        BY <1>1, <3>1, <4>1 DEF Clock
      <4> QED BY <3>1, <4>1, <4>2
    <3> QED BY <3>2, <3>3
  <2> QED BY <1>1, <1>2, <1>3, <2>1 DEF Clock
<1>8. Tickets'
  <2>1. ASSUME NEW r \in Requests, req'[r].ticket # None
        PROVE  (IsOpen(req[r].ticket) \/ Over(req[r].ticket))'
    <3> DEFINE e == req[r].ticket
    <3>1. e \in EpisodeIds /\ e[1] \in Panes /\ e[2] \in Nat /\ UNCHANGED e /\ e # None
      BY <1>1, <1>2, <2>1, EpisodeIdParts DEF TypeOK, RequestRecords
    <3>2. IsOpen(e) \/ Over(e)
      BY <1>1, <3>1 DEF Tickets
    <3>3. snap[e[1]].since <= seen[e[1]].since
      BY <1>1, <3>1 DEF Clock
    <3>4. CASE EpisodeOf(e[1]) = e
      BY <1>2, <3>1, <3>4 DEF IsOpen
    <3>5. CASE EpisodeOf(e[1]) # e
      <4>1. e[2] < seen[e[1]].since
        <5>1. CASE IsOpen(e)
          <6>1. e[2] < snap[e[1]].since
            BY <1>4, <3>1, <3>5, <5>1
          <6>2. snap[e[1]].since \in Nat /\ seen[e[1]].since \in Nat
            BY <1>3, <3>1
          <6> QED BY <3>1, <3>3, <6>1, <6>2
        <5>2. CASE Over(e)
          BY <5>2 DEF Over
        <5> QED BY <3>2, <5>1, <5>2
      <4> QED BY <1>2, <3>1, <3>5, <4>1 DEF IsOpen, Over
    <3> QED BY <3>4, <3>5
  <2> QED BY <2>1 DEF Tickets
<1>9. OneAnswerInFlight'
  <2>1. \A r \in Requests, e \in EpisodeIds : Answers(r, e)' <=> Answers(r, e)
    BY <1>2 DEF Answers
  <2>2. ASSUME NEW e \in EpisodeIds
        PROVE  eps'[e].answering <=> \E r \in Requests : Answers(r, e)
    <3>1. CASE open[e[1]] # e /\ EpisodeOf(e[1]) = e
      <4>1. eps'[e].answering = FALSE
        <5>1. eps'[e] = NewEpisode(snap[e[1]].status)
          BY <1>6, <3>1
        <5> QED BY <5>1 DEF NewEpisode
      <4> QED BY <1>5, <3>1, <4>1 DEF Answers
    <3>2. CASE ~(open[e[1]] # e /\ EpisodeOf(e[1]) = e)
      BY <1>1, <1>6, <3>2 DEF OneAnswerInFlight
    <3> QED BY <3>1, <3>2
  <2> QED BY <1>1, <2>1, <2>2 DEF OneAnswerInFlight
<1> QED BY <1>7, <1>8, <1>9 DEF SpecTickets

\* A step of the hub that gives no ticket away and takes none back.
LEMMA SameAnswersTickets ==
  ASSUME TypeInv, SpecTickets, HubOnly, SameAnswers
  PROVE  SpecTickets'
<1>1. TypeOK /\ Clock /\ Tickets /\ OneAnswerInFlight
  BY DEF TypeInv, SpecTickets
<1>2. TicketsKept
  BY DEF SameAnswers, TicketsKept
<1> QED BY <1>1, <1>2, HubOnlyClock, HubOnlyTickets, SameAnswersInFlight DEF SpecTickets

LEMMA ReadTickets ==
  ASSUME TypeInv, SpecTickets,
         (\E s \in Readers : Capture(s)) \/ ReadStep
  PROVE  SpecTickets'
<1>1. UNCHANGED <<agent, seen, snap, open, req>>
  <2>1. CASE \E s \in Readers : Capture(s)
    BY <2>1, Zenon DEF Capture
  <2>2. CASE ReadStep
    BY <2>2, Zenon DEF ReadStep, FirstRead, PollPrompt, Reread
  <2> QED BY <2>1, <2>2
<1>2. \A e \in EpisodeIds : eps'[e].kind = eps[e].kind /\ eps'[e].answering = eps[e].answering
  <2>1. eps \in [EpisodeIds -> EpisodeRecords] /\ TypeOK
    BY DEF TypeInv, TypeOK
  <2>2. ASSUME NEW e \in EpisodeIds, NEW text \in Texts \cup {None}, NEW f \in EpisodeIds
        PROVE  /\ Loaded(e, text) \in [EpisodeIds -> EpisodeRecords]
               /\ Loaded(e, text)[f].kind = eps[f].kind
               /\ Loaded(e, text)[f].answering = eps[f].answering
    <3>1. /\ Loaded(e, text) \in [EpisodeIds -> EpisodeRecords]
          /\ f # e => Loaded(e, text)[f] = eps[f]
          /\ Loaded(e, text)[e] = IF Loads(e, text) THEN [eps[e] EXCEPT !.revision = text] ELSE eps[e]
      BY <2>1, <2>2, LoadedType
    <3>2. CASE f = e
      BY <2>1, <3>1, <3>2 DEF EpisodeRecords
    <3> QED BY <3>1, <3>2
  <2>3. CASE \E s \in Readers : Capture(s)
    BY <2>3 DEF Capture
  <2>4. ASSUME NEW e \in EpisodeIds, PollPrompt(e), NEW f \in EpisodeIds
        PROVE  eps'[f].kind = eps[f].kind /\ eps'[f].answering = eps[f].answering
    BY <2>1, <2>4 DEF PollPrompt, EpisodeRecords
  <2>5. ASSUME NEW e \in EpisodeIds, FirstRead(e) \/ Reread(e), NEW f \in EpisodeIds
        PROVE  eps'[f].kind = eps[f].kind /\ eps'[f].answering = eps[f].answering
    <3>1. PICK text \in Texts \cup {None} :
            \/ eps' = [Loaded(e, text) EXCEPT ![e].announced = TRUE, ![e].reading = "no"]
            \/ eps' = [Loaded(e, text) EXCEPT ![e].reading = "no"]
      BY <2>5 DEF FirstRead, Reread
    <3>2. /\ Loaded(e, text) \in [EpisodeIds -> EpisodeRecords]
          /\ Loaded(e, text)[f].kind = eps[f].kind
          /\ Loaded(e, text)[f].answering = eps[f].answering
      BY <2>2
    <3> QED BY <3>1, <3>2 DEF EpisodeRecords
  <2> QED BY <2>3, <2>4, <2>5 DEF ReadStep
<1>3. HubOnly /\ SameAnswers
  BY <1>1, <1>2 DEF HubOnly, SameAnswers, Answers
<1> QED BY <1>3, SameAnswersTickets

\* The gate reserves an open episode nobody holds, or gives no ticket at all.
LEMMA GateTickets ==
  ASSUME TypeInv, SpecTickets, NEW r \in Requests, NEW m \in RequestRecords,
         NEW E \in [EpisodeIds -> EpisodeRecords],
         \A e \in EpisodeIds : E[e].kind = eps[e].kind /\ E[e].answering = eps[e].answering,
         req[r].pc \notin InFlight, m.pane \in Panes, m.ticket = None, Gate(r, E, m),
         UNCHANGED <<agent, seen, snap, open>>
  PROVE  SpecTickets'
<1> DEFINE ep == AnswerTarget(m.pane)
           verdict == Verdict(E, m)
           ticket == IF verdict = "ticket" THEN ep ELSE None
           pc == IF m.kind = "send_text" THEN "type" ELSE "check"
           msg == IF verdict = "stale" THEN [m EXCEPT !.pc = "stale"]
                  ELSE [m EXCEPT !.pc = pc, !.ticket = ticket]
<1>1. TypeOK /\ Clock /\ Tickets /\ OneAnswerInFlight
  BY DEF TypeInv, SpecTickets
<1>2. ep # None => ep \in EpisodeIds /\ IsOpen(ep)
  BY <1>1 DEF AnswerTarget, TypeOK, Clock, IsOpen
<1>3. verdict = "ticket" => ep \in EpisodeIds /\ IsOpen(ep) /\ eps[ep].answering = FALSE
  <2>1. verdict = "ticket" => ep # None /\ ~E[ep].answering
    BY DEF Verdict, Refuses, RequestRecords
  <2>2. ep \in EpisodeIds => eps[ep].answering \in BOOLEAN
    BY <1>1 DEF TypeOK, EpisodeRecords
  <2> QED BY <1>2, <2>1, <2>2
<1>4. /\ eps' = IF verdict = "ticket" THEN [E EXCEPT ![ep].answering = TRUE] ELSE E
      /\ req' = [req EXCEPT ![r] = msg]
  BY DEF Gate
<1>5. /\ msg.ticket = ticket
      /\ msg.pc \in InFlight \/ (msg.pc = "stale" /\ ticket = None)
  <2>1. pc \in InFlight
    BY DEF InFlight
  <2> HIDE DEF pc, ep, verdict
  <2>2. CASE verdict = "stale"
    <3>1. msg = [m EXCEPT !.pc = "stale"] /\ ticket = None
      BY <2>2
    <3> HIDE DEF msg
    <3> QED BY <3>1 DEF RequestRecords
  <2>3. CASE verdict # "stale"
    <3>1. msg = [m EXCEPT !.pc = pc, !.ticket = ticket]
      BY <2>3
    <3> HIDE DEF msg, ticket
    <3> QED BY <2>1, <3>1 DEF RequestRecords
  <2> QED BY <2>2, <2>3
<1> HIDE DEF ep, verdict, msg, pc
<1>6. /\ req'[r].ticket = ticket
      /\ req'[r].pc \in InFlight \/ (req'[r].pc = "stale" /\ ticket = None)
      /\ \A s \in Requests \ {r} : req'[s] = req[s]
  BY <1>1, <1>4, <1>5 DEF TypeOK
<1>7. ASSUME NEW e \in EpisodeIds
      PROVE  /\ eps'[e].kind = eps[e].kind
             /\ eps'[e].answering = IF ticket = e THEN TRUE ELSE eps[e].answering
  <2>1. CASE verdict = "ticket" /\ e = ep
    BY <1>3, <1>4, <2>1 DEF EpisodeRecords
  <2>2. CASE ~(verdict = "ticket" /\ e = ep)
    <3>1. ticket # e
      BY <2>2
    <3>2. eps'[e] = E[e]
      BY <1>3, <1>4, <2>2
    <3> QED BY <3>1, <3>2
  <2> QED BY <2>1, <2>2
<1>8. ticket # None => ticket \in EpisodeIds /\ IsOpen(ticket) /\ eps[ticket].answering = FALSE
  BY <1>3
<1> HIDE DEF ticket
<1>9. HubOnly
  BY <1>7 DEF HubOnly
<1>10. Tickets'
  <2>1. TicketsKept
    BY <1>6, <1>8 DEF TicketsKept
  <2> QED BY <1>1, <1>9, <2>1, HubOnlyTickets
<1>11. OneAnswerInFlight'
  <2>1. \A e \in EpisodeIds : ~Answers(r, e)
    BY DEF Answers
  <2>2. ASSUME NEW e \in EpisodeIds, ticket = e
        PROVE  \A s \in Requests : ~Answers(s, e)
    BY <1>1, <1>8, <2>2 DEF OneAnswerInFlight
  <2>3. ASSUME NEW e \in EpisodeIds, NEW s \in Requests
        PROVE  Answers(s, e)' <=> IF s = r THEN ticket = e ELSE Answers(s, e)
    BY <1>6, <2>3 DEF Answers
  <2>4. ASSUME NEW e \in EpisodeIds PROVE eps'[e].answering <=> \E s \in Requests : Answers(s, e)'
    <3>1. CASE ticket = e
      BY <1>7, <2>3, <3>1
    <3>2. CASE ticket # e
      <4>1. \A s \in Requests : Answers(s, e)' <=> Answers(s, e)
        BY <2>1, <2>3, <3>2
      <4>2. eps'[e].answering = eps[e].answering
        BY <1>7, <3>2
      <4>3. eps[e].answering <=> \E s \in Requests : Answers(s, e)
        BY <1>1 DEF OneAnswerInFlight
      <4> QED BY <4>1, <4>2, <4>3
    <3> QED BY <3>1, <3>2
  <2>5. ASSUME NEW e \in EpisodeIds, NEW s \in Requests, NEW t \in Requests,
               Answers(s, e)', Answers(t, e)'
        PROVE  s = t
    BY <1>1, <2>2, <2>3, <2>5 DEF OneAnswerInFlight
  <2> QED BY <2>4, <2>5 DEF OneAnswerInFlight
<1> QED BY <1>1, <1>9, <1>10, <1>11, HubOnlyClock DEF SpecTickets

LEMMA LoadedKeeps ==
  ASSUME TypeOK, NEW e \in EpisodeIds, NEW text \in Texts \cup {None}, NEW f \in EpisodeIds
  PROVE  /\ Loaded(e, text) \in [EpisodeIds -> EpisodeRecords]
         /\ Loaded(e, text)[f].kind = eps[f].kind
         /\ Loaded(e, text)[f].answering = eps[f].answering
<1>1. /\ Loaded(e, text) \in [EpisodeIds -> EpisodeRecords]
      /\ f # e => Loaded(e, text)[f] = eps[f]
      /\ Loaded(e, text)[e] = IF Loads(e, text) THEN [eps[e] EXCEPT !.revision = text] ELSE eps[e]
  BY LoadedType
<1>2. eps[e] \in EpisodeRecords
  BY DEF TypeOK
<1>3. CASE f = e
  BY <1>1, <1>2, <1>3 DEF EpisodeRecords
<1> QED BY <1>1, <1>3

LEMMA BeginAnswerTickets ==
  ASSUME TypeInv, SpecTickets, NEW r \in Requests, BeginAnswer(r)
  PROVE  SpecTickets'
<1>1. PICK p \in Panes, kind \in Kinds, claim \in EpisodeIds \cup {None}, rev \in Texts \cup {None} :
        LET m == Message(kind, p, claim, rev) IN
        IF NeedsFreshRead(m)
          THEN /\ req' = [req EXCEPT ![r] = [m EXCEPT !.pc = "fresh", !.ticket = open[p]]]
               /\ shot' = [shot EXCEPT ![r] = "asked"]
               /\ UNCHANGED eps
          ELSE Gate(r, eps, m) /\ UNCHANGED shot
  BY DEF BeginAnswer
<1> DEFINE m == Message(kind, p, claim, rev)
<1>2. m \in RequestRecords /\ m.pane = p /\ m.ticket = None
  BY DEF Message, RequestRecords, Places
<1>3. UNCHANGED <<agent, seen, snap, open>> /\ req[r].pc = "idle"
  BY DEF BeginAnswer
<1>4. TypeOK /\ Clock
  BY DEF TypeInv, SpecTickets
<1> HIDE DEF m
<1>5. CASE NeedsFreshRead(m)
  <2>1. open[p] \in EpisodeIds /\ IsOpen(open[p])
    BY <1>2, <1>4, <1>5 DEF NeedsFreshRead, AnswerTarget, TypeOK, Clock, IsOpen
  <2> DEFINE msg == [m EXCEPT !.pc = "fresh", !.ticket = open[p]]
  <2>2. msg.pc = "fresh" /\ msg.ticket = open[p]
    BY <1>2 DEF RequestRecords
  <2>3. req' = [req EXCEPT ![r] = msg] /\ eps' = eps
    BY <1>1, <1>5 DEF m
  <2> HIDE DEF msg
  <2>4. req'[r] = msg /\ \A s \in Requests \ {r} : req'[s] = req[s]
    BY <1>4, <2>3 DEF TypeOK
  <2>5. HubOnly
    BY <1>3, <2>3 DEF HubOnly
  <2>6. TicketsKept
    BY <2>1, <2>2, <2>4 DEF TicketsKept
  <2>7. \A s \in Requests, e \in EpisodeIds : Answers(s, e)' <=> Answers(s, e)
    BY <1>3, <2>2, <2>4 DEF Answers, InFlight
  <2>8. OneAnswerInFlight'
    BY <2>3, <2>7 DEF SpecTickets, OneAnswerInFlight
  <2> QED BY <1>4, <2>5, <2>6, <2>8, HubOnlyClock, HubOnlyTickets DEF SpecTickets
<1>6. CASE ~NeedsFreshRead(m)
  <2>1. Gate(r, eps, m)
    BY <1>1, <1>6 DEF m
  <2>2. req[r].pc \notin InFlight /\ eps \in [EpisodeIds -> EpisodeRecords]
    BY <1>3, <1>4 DEF InFlight, TypeOK
  <2> QED BY <1>2, <1>3, <2>1, <2>2, GateTickets
<1> QED BY <1>5, <1>6

LEMMA FreshReadTickets ==
  ASSUME TypeInv, SpecTickets, NEW r \in Requests, FreshRead(r)
  PROVE  SpecTickets'
<1> DEFINE m == [req[r] EXCEPT !.ticket = None]
<1>1. PICK text \in Texts \cup {None} : Gate(r, Loaded(req[r].ticket, text), m)
  BY DEF FreshRead
<1>2. /\ req[r].ticket \in EpisodeIds /\ req[r].pane \in Panes /\ req[r] \in RequestRecords
      /\ req[r].pc \notin InFlight /\ TypeOK
  BY DEF FreshRead, TypeInv, TypeOK, Handlers, InFlight
<1>3. m \in RequestRecords /\ m.pane \in Panes /\ m.ticket = None
  BY <1>2 DEF RequestRecords
<1> DEFINE E == Loaded(req[r].ticket, text)
<1>4. E \in [EpisodeIds -> EpisodeRecords]
  BY <1>2, LoadedType
<1>5. \A e \in EpisodeIds : E[e].kind = eps[e].kind /\ E[e].answering = eps[e].answering
  BY <1>2, LoadedKeeps
<1>6. UNCHANGED <<agent, seen, snap, open>>
  BY DEF FreshRead
<1>7. Gate(r, E, m)
  BY <1>1
<1> HIDE DEF m, E
<1> QED BY <1>2, <1>3, <1>4, <1>5, <1>6, <1>7, GateTickets

\* Every end of a send gives the episode back.
LEMMA EndAnswerTickets ==
  ASSUME TypeInv, SpecTickets, NEW r \in Requests, NEW sent \in BOOLEAN, EndAnswer(r, sent),
         req[r].pc \in InFlight, UNCHANGED <<agent, seen, snap, open>>
  PROVE  SpecTickets'
<1> DEFINE ep == req[r].ticket
           revision == IF eps[ep].revision = None THEN Unread ELSE eps[ep].revision
           watching == [req[r] EXCEPT !.pc = "watch", !.base = revision, !.tries = Rereads]
<1>1. /\ TypeOK /\ Clock /\ Tickets /\ OneAnswerInFlight
      /\ req[r] \in RequestRecords /\ eps \in [EpisodeIds -> EpisodeRecords]
  BY DEF TypeInv, TypeOK, SpecTickets
<1>2. Finished(r).pc = "finished" /\ Finished(r).ticket = None
  BY <1>1, FinishedType
<1>3. watching.pc = "watch" /\ watching.ticket = ep
  BY <1>1 DEF RequestRecords
<1>4. req' = [req EXCEPT ![r] = Finished(r)] \/ req' = [req EXCEPT ![r] = watching]
  BY DEF EndAnswer
<1> HIDE DEF watching
<1>5. /\ req'[r].pc \notin InFlight /\ req'[r].ticket \in {ep, None}
      /\ \A s \in Requests \ {r} : req'[s] = req[s]
  BY <1>1, <1>2, <1>3, <1>4 DEF TypeOK, InFlight
<1>6. ASSUME NEW e \in EpisodeIds
      PROVE  /\ eps'[e].kind = eps[e].kind
             /\ eps'[e].answering = IF e = ep THEN FALSE ELSE eps[e].answering
  <2>1. CASE ep = None
    BY <1>1, <2>1 DEF EndAnswer
  <2>2. CASE ep # None
    <3>1. \/ eps' = [eps EXCEPT ![ep].answering = FALSE]
          \/ eps' = [eps EXCEPT ![ep].answering = FALSE, ![ep].answered = revision]
      BY <2>2 DEF EndAnswer
    <3>2. eps[e] \in EpisodeRecords
      BY <1>1
    <3> HIDE DEF ep, revision
    <3>3. CASE e = ep
      <4>1. \/ eps'[e] = [eps[e] EXCEPT !.answering = FALSE]
            \/ eps'[e] = [eps[e] EXCEPT !.answering = FALSE, !.answered = revision]
        BY <1>1, <3>1, <3>3
      <4> QED BY <3>2, <3>3, <4>1 DEF EpisodeRecords
    <3>4. CASE e # ep
      BY <1>1, <3>1, <3>4
    <3> QED BY <3>3, <3>4
  <2> QED BY <2>1, <2>2
<1>7. HubOnly
  BY <1>6 DEF HubOnly
<1>8. TicketsKept
  BY <1>5 DEF TicketsKept
<1>9. ASSUME NEW e \in EpisodeIds, NEW s \in Requests
      PROVE  Answers(s, e)' <=> Answers(s, e) /\ e # ep
  <2>1. CASE s = r
    BY <1>5, <2>1 DEF Answers
  <2>2. CASE s # r
    <3>1. Answers(s, e)' <=> Answers(s, e)
      BY <1>5, <2>2 DEF Answers
    <3>2. Answers(s, e) => e # ep
      BY <1>1, <2>2 DEF OneAnswerInFlight, Answers
    <3> QED BY <3>1, <3>2
  <2> QED BY <2>1, <2>2
<1>10. OneAnswerInFlight'
  <2>1. ASSUME NEW e \in EpisodeIds PROVE eps'[e].answering <=> \E s \in Requests : Answers(s, e)'
    <3>1. CASE e = ep
      BY <1>6, <1>9, <3>1
    <3>2. CASE e # ep
      BY <1>1, <1>6, <1>9, <3>2 DEF OneAnswerInFlight
    <3> QED BY <3>1, <3>2
  <2>2. ASSUME NEW e \in EpisodeIds, NEW s \in Requests, NEW t \in Requests,
               Answers(s, e)', Answers(t, e)'
        PROVE  s = t
    BY <1>1, <1>9, <2>2 DEF OneAnswerInFlight
  <2> QED BY <2>1, <2>2 DEF OneAnswerInFlight
<1> QED BY <1>1, <1>7, <1>8, <1>10, HubOnlyClock, HubOnlyTickets DEF SpecTickets

LEMMA AcceptedTickets ==
  ASSUME TypeInv, SpecTickets, NEW r \in Requests, TypeAnswer(r) \/ (CheckPane(r) /\ Accepts(req[r]))
  PROVE  SpecTickets'
<1>1. PICK pc \in {"type", "reply"} : req' = [req EXCEPT ![r].pc = pc]
  BY DEF CheckPane, TypeAnswer
<1>2. req[r].pc \in InFlight /\ UNCHANGED <<seen, snap, open, eps>>
  BY DEF CheckPane, TypeAnswer, InFlight
<1>3. req \in [Requests -> RequestRecords] /\ req[r] \in RequestRecords
  BY DEF TypeInv, TypeOK
<1>4. /\ req'[r].pc \in InFlight /\ req'[r].ticket = req[r].ticket
      /\ \A s \in Requests \ {r} : req'[s] = req[s]
  BY <1>1, <1>3 DEF RequestRecords, InFlight
<1>5. \A p \in Panes : agent'[p].turn = agent[p].turn /\ agent'[p].status = agent[p].status
  <2>1. agent \in [Panes -> [status : Statuses, screen : Texts, turn : Turns, typed : SUBSET Requests]]
    BY DEF TypeInv, TypeOK
  <2>2. CASE TypeAnswer(r)
    <3>1. agent' = [agent EXCEPT ![req[r].pane].typed =
                      IF agent[req[r].pane].status = "blocked" THEN @ \cup {r} ELSE @]
      BY <2>2 DEF TypeAnswer
    <3> QED BY <2>1, <3>1
  <2>3. CASE CheckPane(r)
    BY <2>3 DEF CheckPane
  <2> QED BY <2>2, <2>3
<1>6. HubOnly
  BY <1>2, <1>5 DEF HubOnly
<1>7. \A s \in Requests, e \in EpisodeIds : Answers(s, e)' <=> Answers(s, e)
  BY <1>2, <1>4 DEF Answers
<1>8. SameAnswers
  BY <1>2, <1>4, <1>7 DEF SameAnswers
<1> QED BY <1>6, <1>8, SameAnswersTickets

LEMMA WatchTickets ==
  ASSUME TypeInv, SpecTickets, NEW r \in Requests, WatchStops(r) \/ WatchStarts(r) \/ WatchRead(r)
  PROVE  SpecTickets'
<1>1. /\ req \in [Requests -> RequestRecords] /\ req[r] \in RequestRecords /\ TypeOK
      /\ req[r].pc \in {"watch", "watching"} /\ req[r].ticket \in EpisodeIds
  BY DEF TypeInv, TypeOK, Handlers, WatchStops, WatchStarts, WatchRead
<1>2. UNCHANGED <<agent, seen, snap, open>>
  BY DEF WatchStops, WatchStarts, WatchRead
<1>3. Finished(r).pc = "finished" /\ Finished(r).ticket = None
  BY <1>1, FinishedType
<1>4. WatchesOn(r).pc = "watch" /\ WatchesOn(r).ticket = req[r].ticket
  BY <1>1 DEF WatchesOn, RequestRecords
<1>5. \/ req' = [req EXCEPT ![r] = Finished(r)]
      \/ req' = [req EXCEPT ![r].pc = "watching"]
      \/ req' = [req EXCEPT ![r] = WatchesOn(r)]
  BY DEF WatchStops, WatchStarts, WatchRead
<1>6. /\ req'[r].pc \notin InFlight /\ req'[r].ticket \in {req[r].ticket, None}
      /\ \A s \in Requests \ {r} : req'[s] = req[s]
  BY <1>1, <1>3, <1>4, <1>5 DEF InFlight, RequestRecords
<1>7. \A e \in EpisodeIds : eps'[e].kind = eps[e].kind /\ eps'[e].answering = eps[e].answering
  <2>1. CASE eps' = eps
    BY <2>1
  <2>2. CASE WatchRead(r)
    <3>1. PICK text \in Texts \cup {None} : eps' = Loaded(req[r].ticket, text)
      BY <2>2 DEF WatchRead
    <3> QED BY <1>1, <3>1, LoadedKeeps
  <2> QED BY <2>1, <2>2 DEF WatchStops, WatchStarts
<1>8. HubOnly
  BY <1>2, <1>7 DEF HubOnly
<1>9. \A s \in Requests, e \in EpisodeIds : Answers(s, e)' <=> Answers(s, e)
  BY <1>1, <1>6 DEF Answers, InFlight
<1>10. SameAnswers
  BY <1>6, <1>7, <1>9 DEF SameAnswers
<1> QED BY <1>8, <1>10, SameAnswersTickets

LEMMA InitTickets == Init => SpecTickets
<1> SUFFICES ASSUME Init PROVE SpecTickets
  OBVIOUS
<1>1. \A r \in Requests : req[r].pc = "idle" /\ req[r].ticket = None
  BY DEF Init, NewRequest, Message
<1>2. \A e \in EpisodeIds : eps[e].answering = FALSE
  BY DEF Init, NewEpisode
<1>3. \A p \in Panes : /\ seen[p].since = 1 /\ seen[p].status = "working"
                      /\ agent[p].turn = 1 /\ agent[p].status = "working" /\ open[p] = None
  BY DEF Init
<1>4. snap = None
  BY DEF Init
<1>5. Clock
  BY <1>3, <1>4 DEF Clock
<1> QED BY <1>1, <1>2, <1>5 DEF SpecTickets, Tickets, OneAnswerInFlight, Answers, InFlight

LEMMA StepTickets == TypeInv /\ SpecTickets /\ [Next]_vars => SpecTickets'
<1> SUFFICES ASSUME TypeInv, SpecTickets, [Next]_vars PROVE SpecTickets'
  OBVIOUS
<1>1. CASE UNCHANGED vars
  BY <1>1 DEF vars, SpecTickets, Clock, Tickets, OneAnswerInFlight, IsOpen, Over, Answers
<1>2. CASE AgentStep
  <2>1. PICK p \in Panes : AgentAsks(p) \/ AgentWorks(p) \/ AgentFinishes(p)
    BY <1>2 DEF AgentStep
  <2>2. PICK status \in Statuses, text \in Texts : Turn(p, status, text)
    BY <2>1 DEF AgentAsks, AgentWorks, AgentFinishes, Statuses, Texts
  <2> QED BY <2>2, TurnTickets
<1>3. CASE ListSnapshot \/ BroadcastSnapshot
  BY <1>3, SnapshotTickets
<1>4. CASE Observe
  BY <1>4, ObserveTickets
<1>5. CASE (\E s \in Readers : Capture(s)) \/ ReadStep
  BY <1>5, ReadTickets
<1>6. ASSUME NEW r \in Requests, RequestStep(r) PROVE SpecTickets'
  <2>1. CASE SendReply(r)
    <3>1. PICK sent \in BOOLEAN : EndAnswer(r, sent)
      BY <2>1 DEF SendReply
    <3>2. req[r].pc \in InFlight /\ UNCHANGED <<agent, seen, snap, open>>
      BY <2>1 DEF SendReply, InFlight
    <3> QED BY <3>1, <3>2, EndAnswerTickets
  <2>2. CASE CheckPane(r) /\ ~Accepts(req[r])
    <3>1. /\ EndAnswer(r, FALSE) /\ req[r].pc \in InFlight
          /\ UNCHANGED <<agent, seen, snap, open>>
      BY <2>2 DEF CheckPane, InFlight
    <3> QED BY <3>1, EndAnswerTickets
  <2> QED BY <1>6, <2>1, <2>2, BeginAnswerTickets, FreshReadTickets, AcceptedTickets, WatchTickets
      DEF RequestStep
<1> QED BY <1>1, <1>2, <1>3, <1>4, <1>5, <1>6 DEF Next

\* For any number of clients, panes and prompts, whatever reads and sends fail
\* and however the handlers interleave: an episode is reserved exactly while
\* one request answers it (events.py begin_answer and end_answer).
THEOREM OneAnswer == Spec => []OneAnswerInFlight
<1>1. SpecTickets => OneAnswerInFlight
  BY DEF SpecTickets
<1>2. Spec => []SpecTickets
  BY InitTickets, SpecTypeInv, StepTickets, PTL DEF Spec
<1> QED BY <1>1, <1>2, PTL
-----------------------------------------------------------------------------
(* The story of an episode, as the frames emitted for it tell it.  A close *)
(* frame goes out only when a snapshot takes the episode out of `open`,    *)
(* and from then on it is Over: no snapshot opens it again, so no read     *)
(* and no second snapshot has anything more to say of it.                  *)

Begun(s) == \E i \in DOMAIN s : s[i].kind \in OpenKinds
Ended(s) == \E i \in DOMAIN s : s[i].kind \in CloseKinds

EndsOnce(s) ==
  \A i \in DOMAIN s :
    s[i].kind \in CloseKinds =>
      /\ \E j \in 1..(i - 1) : s[j].kind \in OpenKinds
      /\ \A j \in (i + 1)..Len(s) : s[j].kind = "answered"

LastTells(s, rev) ==
  \E i \in DOMAIN s :
    /\ s[i] = Frame("blocked", rev)
    /\ \A j \in (i + 1)..Len(s) : s[j].kind # "blocked"

Story(e) ==
  /\ eps[e].reading # "no" => IsOpen(e) /\ eps[e].kind = "blocked"
  /\ Ended(emitted[e]) => Over(e)
  /\ IsOpen(e) /\ eps[e].announced => Begun(emitted[e])
  /\ EndsOnce(emitted[e])
  /\ IsOpen(e) /\ eps[e].kind = "blocked" /\ eps[e].announced =>
       LastTells(emitted[e], eps[e].revision)

Stories == \A e \in EpisodeIds : Story(e)

IInv == TypeInv /\ SpecTickets /\ Stories

LEMMA AppendedFrame ==
  ASSUME NEW s \in Seq(Frames), NEW f \in Frames
  PROVE  /\ Append(s, f) \in Seq(Frames)
         /\ Len(Append(s, f)) = Len(s) + 1 /\ Len(s) \in Nat
         /\ DOMAIN s = 1..Len(s) /\ DOMAIN Append(s, f) = 1..(Len(s) + 1)
         /\ \A i \in DOMAIN s : Append(s, f)[i] = s[i]
         /\ Append(s, f)[Len(s) + 1] = f
  OBVIOUS

\* What a later frame takes nothing away from.
LEMMA BegunStays ==
  ASSUME NEW s \in Seq(Frames), NEW f \in Frames, Begun(s)
  PROVE  Begun(Append(s, f))
  BY AppendedFrame DEF Begun

LEMMA OpenFrame ==
  ASSUME NEW s \in Seq(Frames), NEW f \in Frames, ~Ended(s), f.kind \in OpenKinds
  PROVE  /\ EndsOnce(Append(s, f))
         /\ ~Ended(Append(s, f))
         /\ Begun(Append(s, f))
<1> DEFINE t == Append(s, f)
<1>1. f.kind \notin CloseKinds
  BY DEF OpenKinds, CloseKinds
<1>2. /\ Len(t) = Len(s) + 1 /\ Len(s) \in Nat
      /\ DOMAIN s = 1..Len(s) /\ DOMAIN t = 1..(Len(s) + 1)
      /\ \A i \in DOMAIN s : t[i] = s[i]
      /\ t[Len(s) + 1] = f
  BY AppendedFrame
<1> HIDE DEF t
<1>3. \A i \in DOMAIN t : t[i].kind \notin CloseKinds
  BY <1>1, <1>2 DEF Ended
<1>4. Begun(t)
  BY <1>2 DEF Begun
<1> QED BY <1>3, <1>4 DEF EndsOnce, Ended, t

LEMMA CloseFrame ==
  ASSUME NEW s \in Seq(Frames), NEW f \in Frames, ~Ended(s), Begun(s), f.kind \in CloseKinds
  PROVE  EndsOnce(Append(s, f))
<1> DEFINE t == Append(s, f)
<1>1. /\ Len(t) = Len(s) + 1 /\ Len(s) \in Nat
      /\ DOMAIN s = 1..Len(s) /\ DOMAIN t = 1..(Len(s) + 1)
      /\ \A i \in DOMAIN s : t[i] = s[i]
  BY AppendedFrame
<1> HIDE DEF t
<1>2. ASSUME NEW i \in DOMAIN t, t[i].kind \in CloseKinds
      PROVE  i = Len(s) + 1
  BY <1>1, <1>2 DEF Ended
<1>3. \E j \in 1..(Len(s) + 1 - 1) : t[j].kind \in OpenKinds
  BY <1>1 DEF Begun
<1> QED BY <1>1, <1>2, <1>3 DEF EndsOnce, t

LEMMA AnsweredFrameKeeps ==
  ASSUME NEW s \in Seq(Frames), NEW f \in Frames, f.kind = "answered", EndsOnce(s)
  PROVE  /\ EndsOnce(Append(s, f))
         /\ Ended(Append(s, f)) => Ended(s)
         /\ \A rev : LastTells(s, rev) => LastTells(Append(s, f), rev)
<1> DEFINE t == Append(s, f)
<1>1. /\ Len(t) = Len(s) + 1 /\ Len(s) \in Nat
      /\ DOMAIN s = 1..Len(s) /\ DOMAIN t = 1..(Len(s) + 1)
      /\ \A i \in DOMAIN s : t[i] = s[i]
      /\ t[Len(s) + 1] = f
  BY AppendedFrame
<1> HIDE DEF t
<1>2. ASSUME NEW i \in DOMAIN t, t[i].kind \in CloseKinds
      PROVE  /\ i \in DOMAIN s /\ s[i].kind \in CloseKinds
             /\ \E j \in 1..(i - 1) : t[j].kind \in OpenKinds
             /\ \A j \in (i + 1)..Len(t) : t[j].kind = "answered"
  <2>1. i \in DOMAIN s /\ s[i].kind \in CloseKinds
    BY <1>1, <1>2 DEF CloseKinds
  <2>2. PICK j \in 1..(i - 1) : s[j].kind \in OpenKinds
    BY <2>1 DEF EndsOnce
  <2>3. t[j] = s[j]
    BY <1>1, <2>1, <2>2
  <2>4. \A k \in (i + 1)..Len(s) : t[k].kind = "answered"
    BY <1>1, <2>1 DEF EndsOnce
  <2>5. \A k \in (i + 1)..Len(t) : t[k].kind = "answered"
    BY <1>1, <2>1, <2>4
  <2> QED BY <2>1, <2>2, <2>3, <2>5
<1>3. ASSUME NEW rev, LastTells(s, rev) PROVE LastTells(t, rev)
  <2>1. PICK i \in DOMAIN s : /\ s[i] = Frame("blocked", rev)
                              /\ \A j \in (i + 1)..Len(s) : s[j].kind # "blocked"
    BY <1>3 DEF LastTells
  <2>2. \A j \in (i + 1)..Len(t) : t[j].kind # "blocked"
    BY <1>1, <2>1
  <2> QED BY <1>1, <2>1, <2>2 DEF LastTells
<1> QED BY <1>2, <1>3 DEF EndsOnce, Ended, t

LEMMA BlockedFrameTells ==
  ASSUME NEW s \in Seq(Frames), NEW rev, Frame("blocked", rev) \in Frames
  PROVE  LastTells(Append(s, Frame("blocked", rev)), rev)
  BY AppendedFrame DEF LastTells

\* A step that changes nothing the clients were told of episode e.
Untold(e) ==
  /\ emitted'[e] = emitted[e]
  /\ eps'[e].kind = eps[e].kind
  /\ eps'[e].revision = eps[e].revision
  /\ eps'[e].announced = eps[e].announced
  /\ eps'[e].reading # "no" => eps[e].reading # "no" \/ (IsOpen(e) /\ eps[e].kind = "blocked")

LEMMA UntoldStory ==
  ASSUME NEW e \in EpisodeIds, Story(e), Untold(e),
         IsOpen(e)' <=> IsOpen(e), Over(e) => Over(e)'
  PROVE  Story(e)'
  BY DEF Story, Untold

\* A step in which no snapshot is taken or observed.
LEMMA HubSteps ==
  ASSUME NEW e \in EpisodeIds, UNCHANGED <<seen, snap, open>>
  PROVE  (IsOpen(e)' <=> IsOpen(e)) /\ (Over(e)' <=> Over(e))
  BY DEF IsOpen, Over

\* A read that is applied: a prompt that is new to an announced episode goes
\* out in the step that stores it.
LEMMA ReadStory ==
  ASSUME TypeOK, NEW e \in EpisodeIds, NEW text \in Texts \cup {None}, Story(e),
         UNCHANGED <<seen, snap, open>>,
         eps'[e].kind = eps[e].kind,
         eps'[e].announced = eps[e].announced,
         eps'[e].reading \in {eps[e].reading, "no"},
         eps'[e].revision = Loaded(e, text)[e].revision,
         emitted'[e] = Reannounced(e, text)[e]
  PROVE  Story(e)'
<1> DEFINE f == Frame("blocked", text)
<1>1. eps[e] \in EpisodeRecords /\ emitted[e] \in Seq(Frames) /\ emitted \in [EpisodeIds -> Seq(Frames)]
  BY DEF TypeOK
<1>2. f \in Frames /\ f.kind = "blocked"
  BY FrameType DEF OpenKinds
<1>3. Loaded(e, text)[e] = IF Loads(e, text) THEN [eps[e] EXCEPT !.revision = text] ELSE eps[e]
  BY LoadedType
<1>4. (IsOpen(e)' <=> IsOpen(e)) /\ (Over(e)' <=> Over(e))
  BY HubSteps
<1>5. CASE ~Loads(e, text)
  <2>1. Untold(e)
    BY <1>3, <1>5 DEF Untold, Reannounced
  <2> QED BY <1>4, <2>1, UntoldStory
<1>6. CASE Loads(e, text) /\ ~eps[e].announced
  <2>1. emitted'[e] = emitted[e]
    BY <1>6 DEF Reannounced
  <2> QED BY <1>4, <1>6, <2>1 DEF Story
<1>7. CASE Loads(e, text) /\ eps[e].announced
  <2>1. emitted'[e] = Append(emitted[e], f)
    BY <1>1, <1>7 DEF Reannounced
  <2>2. eps'[e].revision = text
    BY <1>1, <1>3, <1>7 DEF EpisodeRecords
  <2>3. IsOpen(e) /\ ~Ended(emitted[e])
    BY <1>7 DEF Loads, Story, Over
  <2>4. EndsOnce(emitted'[e]) /\ ~Ended(emitted'[e]) /\ Begun(emitted'[e])
    BY <1>1, <1>2, <2>1, <2>3, OpenFrame DEF OpenKinds
  <2>5. LastTells(emitted'[e], text)
    BY <1>1, <1>2, <2>1, BlockedFrameTells
  <2>6. eps'[e].reading # "no" => eps[e].reading # "no"
    OBVIOUS
  <2> QED BY <1>4, <2>2, <2>3, <2>4, <2>5, <2>6 DEF Story
<1> QED BY <1>5, <1>6, <1>7

LEMMA TurnStories ==
  ASSUME Stories, NEW p \in Panes, NEW status, NEW text, Turn(p, status, text)
  PROVE  Stories'
<1> SUFFICES ASSUME NEW e \in EpisodeIds PROVE Story(e)'
  BY DEF Stories
<1>1. UNCHANGED <<seen, snap, open, eps, emitted>>
  BY DEF Turn, hubVars
<1>2. Untold(e)
  BY <1>1 DEF Untold
<1> QED BY <1>1, <1>2, HubSteps, UntoldStory DEF Stories

LEMMA SnapshotStories ==
  ASSUME TypeOK, Clock, Stories, ListSnapshot \/ BroadcastSnapshot
  PROVE  Stories'
<1> SUFFICES ASSUME NEW e \in EpisodeIds PROVE Story(e)'
  BY DEF Stories
<1>1. /\ UNCHANGED <<open, eps, emitted>>
      /\ seen' = Stamp
      /\ snap' = snap \/ snap' = seen'
  BY DEF ListSnapshot, BroadcastSnapshot, hubVars
<1>2. Untold(e) /\ (IsOpen(e)' <=> IsOpen(e))
  BY <1>1 DEF Untold, IsOpen
<1>3. e[1] \in Panes /\ e[2] \in Nat
  BY EpisodeIdParts
<1>4. seen[e[1]].since <= Stamp[e[1]].since /\ Stamp[e[1]].since \in Nat /\ seen[e[1]].since \in Nat
  BY <1>3, StampMovesOn
<1>5. Over(e) => Over(e)'
  BY <1>1, <1>3, <1>4 DEF IsOpen, Over
<1> QED BY <1>2, <1>5, UntoldStory DEF Stories

\* An episode that was closed by a snapshot lies before the time of the next
\* one: what opens is new, and what closes is over.
LEMMA ObserveStories ==
  ASSUME TypeOK, Clock, Stories, Observe
  PROVE  Stories'
<1> SUFFICES ASSUME NEW e \in EpisodeIds PROVE Story(e)'
  BY DEF Stories
<1> DEFINE p == e[1]
           opens == open[p] # e /\ EpisodeOf(p) = e
           closes == open[p] = e /\ EpisodeOf(p) # e
<1>1. /\ snap # None /\ snap' = None /\ UNCHANGED seen
      /\ open' = [q \in Panes |-> EpisodeOf(q)]
  BY DEF Observe
<1>2. /\ p \in Panes /\ e[2] \in Nat /\ e = <<p, e[2]>> /\ e # None
      /\ snap[p].since \in Nat /\ seen[p].since \in Nat /\ snap[p].since <= seen[p].since
      /\ eps[e] \in EpisodeRecords /\ emitted[e] \in Seq(Frames)
  BY <1>1, EpisodeIdParts DEF TypeOK, Clock, Turns, EpisodeIds
<1>3. Story(e) /\ (IsOpen(e) <=> open[p] = e) /\ (IsOpen(e)' <=> EpisodeOf(p) = e)
  BY <1>1, <1>2 DEF Stories, IsOpen
<1>4. EpisodeOf(p) = e => e[2] = snap[p].since /\ snap[p].status \in OpenKinds /\ ~Over(e)
  BY <1>1, <1>2 DEF EpisodeOf, Over
<1>5. closes => e[2] < snap[p].since
  <2> SUFFICES ASSUME closes PROVE e[2] < snap[p].since
    OBVIOUS
  <2>1. e[2] <= snap[p].since
    BY <1>1, <1>2 DEF Clock
  <2>2. e[2] # snap[p].since
    <3> SUFFICES ASSUME e[2] = snap[p].since PROVE FALSE
      OBVIOUS
    <3>1. eps[e].kind = snap[p].status
      BY <1>1, <1>2 DEF Clock
    <3>2. EpisodeOf(p) = <<p, e[2]>>
      BY <1>2, <3>1 DEF EpisodeOf, EpisodeRecords
    <3> QED BY <1>2, <3>2
  <2> QED BY <1>2, <2>1, <2>2
<1>6. Over(e) \/ closes => Over(e)'
  BY <1>1, <1>2, <1>3, <1>4, <1>5 DEF Over
<1>7. /\ eps'[e] = IF opens THEN NewEpisode(snap[p].status)
                   ELSE IF closes THEN [eps[e] EXCEPT !.reading = "no"] ELSE eps[e]
      /\ emitted'[e] = IF opens /\ snap[p].status = "done" THEN Append(emitted[e], Frame("done", None))
                       ELSE IF closes /\ eps[e].announced
                              THEN Append(emitted[e], Frame(CloseKind(eps[e].kind), None))
                       ELSE emitted[e]
  BY DEF Observe
<1> HIDE DEF p
<1>8. CASE opens
  <2>1. ~Ended(emitted[e]) /\ snap[p].status \in OpenKinds
    BY <1>3, <1>4, <1>8 DEF Story
  <2>2. eps'[e] = NewEpisode(snap[p].status)
    BY <1>7, <1>8
  <2>3. CASE snap[p].status = "done"
    <3>1. Frame("done", None) \in Frames /\ Frame("done", None).kind = "done"
      BY FrameType DEF OpenKinds
    <3>2. emitted'[e] = Append(emitted[e], Frame("done", None))
      BY <1>7, <1>8, <2>3
    <3>3. EndsOnce(emitted'[e]) /\ ~Ended(emitted'[e]) /\ Begun(emitted'[e])
      BY <1>2, <2>1, <3>1, <3>2, OpenFrame DEF OpenKinds
    <3>4. eps'[e].reading = "no" /\ eps'[e].kind = "done"
      BY <2>2, <2>3 DEF NewEpisode
    <3> QED BY <3>3, <3>4 DEF Story
  <2>4. CASE snap[p].status = "blocked"
    <3>1. emitted'[e] = emitted[e]
      BY <1>7, <1>8, <2>4
    <3>2. eps'[e].kind = "blocked" /\ ~eps'[e].announced
      <4>1. NewEpisode("blocked").kind = "blocked" /\ ~NewEpisode("blocked").announced
        BY DEF NewEpisode
      <4> QED BY <2>2, <2>4, <4>1
    <3> QED BY <1>3, <1>8, <2>1, <3>1, <3>2 DEF Story
  <2> QED BY <2>1, <2>3, <2>4 DEF OpenKinds
<1>9. CASE closes
  <2>1. IsOpen(e) /\ ~IsOpen(e)' /\ Over(e)'
    BY <1>3, <1>6, <1>9
  <2>2. eps'[e].reading = "no"
    BY <1>2, <1>7, <1>9 DEF EpisodeRecords
  <2>3. EndsOnce(emitted'[e])
    <3>1. CASE eps[e].announced
      <4>1. /\ Frame(CloseKind(eps[e].kind), None) \in Frames
            /\ Frame(CloseKind(eps[e].kind), None).kind \in CloseKinds
        BY FrameType DEF CloseKind, CloseKinds
      <4>2. emitted'[e] = Append(emitted[e], Frame(CloseKind(eps[e].kind), None))
        BY <1>7, <1>9, <3>1
      <4>3. ~Ended(emitted[e]) /\ Begun(emitted[e])
        BY <1>3, <2>1, <3>1 DEF Story, Over
      <4> QED BY <1>2, <4>1, <4>2, <4>3, CloseFrame
    <3>2. CASE ~eps[e].announced
      <4>1. emitted'[e] = emitted[e]
        BY <1>7, <1>9, <3>2
      <4> QED BY <1>3, <4>1 DEF Story
    <3> QED BY <3>1, <3>2
  <2> QED BY <2>1, <2>2, <2>3 DEF Story
<1>10. CASE ~opens /\ ~closes
  <2>1. eps'[e] = eps[e] /\ emitted'[e] = emitted[e] /\ (IsOpen(e)' <=> IsOpen(e))
    BY <1>3, <1>7, <1>10
  <2>2. Untold(e)
    BY <2>1 DEF Untold
  <2> QED BY <1>3, <1>6, <2>1, <2>2, UntoldStory
<1> QED BY <1>8, <1>9, <1>10

LEMMA CaptureStories ==
  ASSUME Stories, NEW s \in Readers, Capture(s)
  PROVE  Stories'
<1> SUFFICES ASSUME NEW e \in EpisodeIds PROVE Story(e)'
  BY DEF Stories
<1>1. UNCHANGED <<seen, snap, open, eps, emitted>>
  BY DEF Capture
<1>2. Untold(e)
  BY <1>1 DEF Untold
<1> QED BY <1>1, <1>2, HubSteps, UntoldStory DEF Stories

\* The first read announces the episode, whether or not it found a prompt.
LEMMA FirstReadStories ==
  ASSUME TypeOK, Stories, NEW f \in EpisodeIds, FirstRead(f)
  PROVE  Stories'
<1> SUFFICES ASSUME NEW e \in EpisodeIds PROVE Story(e)'
  BY DEF Stories
<1>1. PICK text \in Texts \cup {None} :
        /\ eps' = [Loaded(f, text) EXCEPT ![f].announced = TRUE, ![f].reading = "no"]
        /\ emitted' = [emitted EXCEPT ![f] = Append(@, Frame("blocked", Loaded(f, text)[f].revision))]
  BY DEF FirstRead
<1>2. UNCHANGED <<seen, snap, open>>
  BY DEF FirstRead
<1>3. /\ eps[e] \in EpisodeRecords /\ emitted[e] \in Seq(Frames) /\ emitted \in [EpisodeIds -> Seq(Frames)]
      /\ Loaded(f, text) \in [EpisodeIds -> EpisodeRecords]
      /\ e # f => Loaded(f, text)[e] = eps[e]
      /\ Loaded(f, text)[e] \in EpisodeRecords
  <2>1. /\ Loaded(f, text) \in [EpisodeIds -> EpisodeRecords]
        /\ e # f => Loaded(f, text)[e] = eps[e]
    <3>1. \A g \in EpisodeIds \ {f} : Loaded(f, text)[g] = eps[g]
      BY LoadedType
    <3> QED BY <3>1, LoadedKeeps
  <2>2. eps[e] \in EpisodeRecords /\ emitted \in [EpisodeIds -> Seq(Frames)]
    BY DEF TypeOK
  <2> QED BY <2>1, <2>2
<1>4. (IsOpen(e)' <=> IsOpen(e)) /\ (Over(e)' <=> Over(e)) /\ Story(e)
  BY <1>2, HubSteps DEF Stories
<1>5. CASE e # f
  <2>1. eps'[e] = eps[e] /\ emitted'[e] = emitted[e]
    BY <1>1, <1>3, <1>5
  <2>2. Untold(e)
    BY <2>1 DEF Untold
  <2> QED BY <1>4, <2>2, UntoldStory
<1>6. CASE e = f
  <2> DEFINE rev == Loaded(e, text)[e].revision
  <2>1. IsOpen(e) /\ ~Ended(emitted[e])
    BY <1>4, <1>6 DEF FirstRead, Story, Over
  <2>2. Frame("blocked", rev) \in Frames /\ Frame("blocked", rev).kind = "blocked"
    <3>1. rev \in Texts \cup {None}
      BY <1>3, <1>6 DEF EpisodeRecords
    <3> HIDE DEF rev
    <3> QED BY <3>1, FrameType DEF OpenKinds
  <2>3. emitted'[e] = Append(emitted[e], Frame("blocked", rev))
    BY <1>1, <1>3, <1>6
  <2>4. eps'[e].revision = rev /\ eps'[e].reading = "no"
    BY <1>1, <1>3, <1>6 DEF EpisodeRecords
  <2>5. EndsOnce(emitted'[e]) /\ ~Ended(emitted'[e]) /\ Begun(emitted'[e])
    BY <1>3, <2>1, <2>2, <2>3, OpenFrame DEF OpenKinds
  <2>6. LastTells(emitted'[e], rev)
    BY <1>3, <2>2, <2>3, BlockedFrameTells
  <2> QED BY <2>4, <2>5, <2>6 DEF Story
<1> QED BY <1>5, <1>6

LEMMA PollPromptStories ==
  ASSUME TypeOK, Stories, NEW f \in EpisodeIds, PollPrompt(f)
  PROVE  Stories'
<1> SUFFICES ASSUME NEW e \in EpisodeIds PROVE Story(e)'
  BY DEF Stories
<1>1. UNCHANGED <<seen, snap, open, emitted>> /\ eps' = [eps EXCEPT ![f].reading = "again"]
  BY DEF PollPrompt
<1>2. Untold(e)
  BY <1>1 DEF Untold, PollPrompt, PollDue, TypeOK, EpisodeRecords
<1> QED BY <1>1, <1>2, HubSteps, UntoldStory DEF Stories

LEMMA RereadStories ==
  ASSUME TypeOK, Stories, NEW f \in EpisodeIds, Reread(f)
  PROVE  Stories'
<1> SUFFICES ASSUME NEW e \in EpisodeIds PROVE Story(e)'
  BY DEF Stories
<1>1. PICK text \in Texts \cup {None} :
        /\ eps' = [Loaded(f, text) EXCEPT ![f].reading = "no"]
        /\ emitted' = Reannounced(f, text)
  BY DEF Reread
<1>2. UNCHANGED <<seen, snap, open>>
  BY DEF Reread
<1>3. /\ Loaded(f, text) \in [EpisodeIds -> EpisodeRecords]
      /\ e # f => Loaded(f, text)[e] = eps[e]
      /\ Loaded(f, text)[f] = IF Loads(f, text) THEN [eps[f] EXCEPT !.revision = text] ELSE eps[f]
      /\ eps[f] \in EpisodeRecords
  BY LoadedType DEF TypeOK
<1>4. CASE e # f
  <2>1. eps'[e] = eps[e] /\ emitted'[e] = emitted[e]
    BY <1>1, <1>3, <1>4 DEF Reannounced, TypeOK
  <2>2. Untold(e)
    BY <2>1 DEF Untold
  <2> QED BY <1>2, <2>2, HubSteps, UntoldStory DEF Stories
<1>5. CASE e = f
  <2>1. /\ eps'[e].kind = eps[e].kind
        /\ eps'[e].announced = eps[e].announced
        /\ eps'[e].reading = "no"
        /\ eps'[e].revision = Loaded(e, text)[e].revision
    BY <1>1, <1>3, <1>5 DEF EpisodeRecords
  <2> QED BY <1>1, <1>2, <1>5, <2>1, ReadStory DEF Stories
<1> QED BY <1>4, <1>5

\* The gate writes nothing but the reservation.
LEMMA GateKeeps ==
  ASSUME TypeOK, NEW r \in Requests, NEW E \in [EpisodeIds -> EpisodeRecords], NEW m \in RequestRecords,
         Gate(r, E, m), NEW e \in EpisodeIds
  PROVE  /\ eps'[e].kind = E[e].kind
         /\ eps'[e].revision = E[e].revision
         /\ eps'[e].announced = E[e].announced
         /\ eps'[e].reading = E[e].reading
<1> DEFINE ep == AnswerTarget(m.pane)
<1>1. eps' = E \/ eps' = [E EXCEPT ![ep].answering = TRUE]
  BY DEF Gate
<1> HIDE DEF ep
<1>2. E[e] \in EpisodeRecords
  OBVIOUS
<1> QED BY <1>1, <1>2 DEF EpisodeRecords

LEMMA BeginAnswerStories ==
  ASSUME TypeOK, Stories, NEW r \in Requests, BeginAnswer(r)
  PROVE  Stories'
<1> SUFFICES ASSUME NEW e \in EpisodeIds PROVE Story(e)'
  BY DEF Stories
<1>1. UNCHANGED <<seen, snap, open, emitted>>
  BY DEF BeginAnswer
<1>2. PICK p \in Panes, kind \in Kinds, claim \in EpisodeIds \cup {None}, rev \in Texts \cup {None} :
        \/ eps' = eps
        \/ Gate(r, eps, Message(kind, p, claim, rev))
  BY DEF BeginAnswer
<1>3. Message(kind, p, claim, rev) \in RequestRecords /\ eps \in [EpisodeIds -> EpisodeRecords]
  BY DEF Message, RequestRecords, Places, TypeOK
<1>4. Untold(e)
  BY <1>1, <1>2, <1>3, GateKeeps DEF Untold
<1> QED BY <1>1, <1>4, HubSteps, UntoldStory DEF Stories

LEMMA FreshReadStories ==
  ASSUME TypeInv, Stories, NEW r \in Requests, FreshRead(r)
  PROVE  Stories'
<1> SUFFICES ASSUME NEW e \in EpisodeIds PROVE Story(e)'
  BY DEF Stories
<1> DEFINE f == req[r].ticket
           m == [req[r] EXCEPT !.ticket = None]
<1>1. PICK text \in Texts \cup {None} : Gate(r, Loaded(f, text), m) /\ emitted' = Reannounced(f, text)
  BY DEF FreshRead
<1>2. UNCHANGED <<seen, snap, open>> /\ TypeOK
  BY DEF FreshRead, TypeInv
<1>3. f \in EpisodeIds /\ m \in RequestRecords
  <2>1. req[r] \in RequestRecords /\ f \in EpisodeIds
    BY DEF FreshRead, TypeInv, TypeOK, Handlers
  <2> QED BY <2>1 DEF RequestRecords
<1> HIDE DEF f, m
<1>4. /\ Loaded(f, text) \in [EpisodeIds -> EpisodeRecords]
      /\ e # f => Loaded(f, text)[e] = eps[e]
      /\ Loaded(f, text)[f] = IF Loads(f, text) THEN [eps[f] EXCEPT !.revision = text] ELSE eps[f]
      /\ eps[f] \in EpisodeRecords
  BY <1>2, <1>3, LoadedType DEF TypeOK
<1>5. /\ eps'[e].kind = Loaded(f, text)[e].kind
      /\ eps'[e].revision = Loaded(f, text)[e].revision
      /\ eps'[e].announced = Loaded(f, text)[e].announced
      /\ eps'[e].reading = Loaded(f, text)[e].reading
  BY <1>1, <1>2, <1>3, <1>4, GateKeeps
<1>6. CASE e # f
  <2>1. emitted'[e] = emitted[e]
    BY <1>1, <1>2, <1>3, <1>6 DEF Reannounced, TypeOK
  <2>2. Untold(e)
    BY <1>4, <1>5, <1>6, <2>1 DEF Untold
  <2> QED BY <1>2, <2>2, HubSteps, UntoldStory DEF Stories
<1>7. CASE e = f
  <2>1. /\ eps'[e].kind = eps[e].kind
        /\ eps'[e].announced = eps[e].announced
        /\ eps'[e].reading = eps[e].reading
    BY <1>4, <1>5, <1>7 DEF EpisodeRecords
  <2> QED BY <1>1, <1>2, <1>5, <1>7, <2>1, ReadStory DEF Stories
<1> QED BY <1>6, <1>7

\* The report of an answer may be the last frame of an episode, whenever it
\* comes: it says nothing about the prompt.
LEMMA EndAnswerStories ==
  ASSUME TypeInv, Stories, NEW r \in Requests, NEW sent \in BOOLEAN, EndAnswer(r, sent),
         UNCHANGED <<seen, snap, open>>
  PROVE  Stories'
<1> SUFFICES ASSUME NEW e \in EpisodeIds PROVE Story(e)'
  BY DEF Stories
<1> DEFINE f == req[r].ticket
           revision == IF eps[f].revision = None THEN Unread ELSE eps[f].revision
           said == Frame("answered", None)
<1>1. /\ eps \in [EpisodeIds -> EpisodeRecords] /\ eps[e] \in EpisodeRecords
      /\ emitted \in [EpisodeIds -> Seq(Frames)] /\ emitted[e] \in Seq(Frames)
  BY DEF TypeInv, TypeOK
<1>2. \/ eps' = eps /\ emitted' = emitted
      \/ eps' = [eps EXCEPT ![f].answering = FALSE] /\ emitted' = emitted
      \/ /\ eps' = [eps EXCEPT ![f].answering = FALSE, ![f].answered = revision]
         /\ emitted' = [emitted EXCEPT ![f] = Append(@, said)]
  BY DEF EndAnswer
<1>3. said \in Frames /\ said.kind = "answered"
  BY AnsweredFrame DEF Frame
<1> HIDE DEF f, revision, said
<1>4. /\ eps'[e].kind = eps[e].kind
      /\ eps'[e].revision = eps[e].revision
      /\ eps'[e].announced = eps[e].announced
      /\ eps'[e].reading = eps[e].reading
  <2>1. CASE e = f
    <3>1. \/ eps'[e] = eps[e]
          \/ eps'[e] = [eps[e] EXCEPT !.answering = FALSE]
          \/ eps'[e] = [eps[e] EXCEPT !.answering = FALSE, !.answered = revision]
      BY <1>1, <1>2, <2>1
    <3> QED BY <1>1, <3>1 DEF EpisodeRecords
  <2>2. CASE e # f
    BY <1>1, <1>2, <2>2
  <2> QED BY <2>1, <2>2
<1>5. emitted'[e] = emitted[e] \/ emitted'[e] = Append(emitted[e], said)
  BY <1>1, <1>2
<1>6. (IsOpen(e)' <=> IsOpen(e)) /\ (Over(e)' <=> Over(e)) /\ Story(e)
  BY HubSteps DEF Stories
<1>7. CASE emitted'[e] = emitted[e]
  <2>1. Untold(e)
    BY <1>4, <1>7 DEF Untold
  <2> QED BY <1>6, <2>1, UntoldStory
<1>8. CASE emitted'[e] = Append(emitted[e], said)
  <2>1. EndsOnce(emitted[e])
    BY <1>6 DEF Story
  <2>2. /\ EndsOnce(emitted'[e])
        /\ Ended(emitted'[e]) => Ended(emitted[e])
        /\ \A rev : LastTells(emitted[e], rev) => LastTells(emitted'[e], rev)
        /\ Begun(emitted[e]) => Begun(emitted'[e])
    BY <1>1, <1>3, <1>8, <2>1, AnsweredFrameKeeps, BegunStays
  <2> QED BY <1>4, <1>6, <2>2 DEF Story
<1> QED BY <1>5, <1>7, <1>8

LEMMA HandlerStories ==
  ASSUME Stories, NEW r \in Requests,
         \/ CheckPane(r) /\ Accepts(req[r])
         \/ TypeAnswer(r) \/ WatchStops(r) \/ WatchStarts(r)
  PROVE  Stories'
<1> SUFFICES ASSUME NEW e \in EpisodeIds PROVE Story(e)'
  BY DEF Stories
<1>1. UNCHANGED <<seen, snap, open, eps, emitted>>
  BY DEF CheckPane, TypeAnswer, WatchStops, WatchStarts
<1>2. Untold(e)
  BY <1>1 DEF Untold
<1> QED BY <1>1, <1>2, HubSteps, UntoldStory DEF Stories

LEMMA WatchReadStories ==
  ASSUME TypeInv, Stories, NEW r \in Requests, WatchRead(r)
  PROVE  Stories'
<1> SUFFICES ASSUME NEW e \in EpisodeIds PROVE Story(e)'
  BY DEF Stories
<1> DEFINE f == req[r].ticket
<1>1. PICK text \in Texts \cup {None} : eps' = Loaded(f, text) /\ emitted' = Reannounced(f, text)
  BY Zenon DEF WatchRead
<1>2. UNCHANGED <<seen, snap, open>> /\ TypeOK
  BY DEF WatchRead, TypeInv
<1>3. f \in EpisodeIds
  BY DEF WatchRead, TypeInv, Handlers
<1> HIDE DEF f
<1>4. /\ e # f => Loaded(f, text)[e] = eps[e]
      /\ Loaded(f, text)[f] = IF Loads(f, text) THEN [eps[f] EXCEPT !.revision = text] ELSE eps[f]
      /\ eps[f] \in EpisodeRecords
  BY <1>2, <1>3, LoadedType DEF TypeOK
<1>5. CASE e # f
  <2>1. eps'[e] = eps[e] /\ emitted'[e] = emitted[e]
    BY <1>1, <1>2, <1>3, <1>4, <1>5 DEF Reannounced, TypeOK
  <2>2. Untold(e)
    BY <2>1 DEF Untold
  <2> QED BY <1>2, <2>2, HubSteps, UntoldStory DEF Stories
<1>6. CASE e = f
  <2>1. /\ eps'[e].kind = eps[e].kind
        /\ eps'[e].announced = eps[e].announced
        /\ eps'[e].reading = eps[e].reading
    BY <1>1, <1>4, <1>6 DEF EpisodeRecords
  <2> QED BY <1>1, <1>2, <1>6, <2>1, ReadStory DEF Stories
<1> QED BY <1>5, <1>6

LEMMA InitStories == Init => Stories
<1> SUFFICES ASSUME Init, NEW e \in EpisodeIds PROVE Story(e)
  BY DEF Stories
<1>1. emitted[e] = << >>
  BY DEF Init
<1>2. open[e[1]] = None /\ e # None
  BY EpisodeIdParts DEF Init
<1>3. eps[e].reading = "no"
  BY DEF Init, NewEpisode
<1> QED BY <1>1, <1>2, <1>3 DEF Story, IsOpen, Ended, EndsOnce

LEMMA StepStories == TypeInv /\ SpecTickets /\ Stories /\ [Next]_vars => Stories'
<1> SUFFICES ASSUME TypeInv, SpecTickets, Stories, [Next]_vars PROVE Stories'
  OBVIOUS
<1>1. TypeOK /\ Clock
  BY DEF TypeInv, SpecTickets
<1>2. CASE UNCHANGED vars
  <2>1. UNCHANGED <<seen, snap, open, eps, emitted>>
    BY <1>2 DEF vars
  <2> QED BY <2>1 DEF Stories, Story, IsOpen, Over
<1>3. CASE AgentStep
  BY <1>3, TurnStories DEF AgentStep, AgentAsks, AgentWorks, AgentFinishes
<1>4. CASE ListSnapshot \/ BroadcastSnapshot
  BY <1>1, <1>4, SnapshotStories
<1>5. CASE Observe
  BY <1>1, <1>5, ObserveStories
<1>6. CASE \E s \in Readers : Capture(s)
  BY <1>6, CaptureStories
<1>7. CASE ReadStep
  BY <1>1, <1>7, FirstReadStories, PollPromptStories, RereadStories DEF ReadStep
<1>8. ASSUME NEW r \in Requests, RequestStep(r) PROVE Stories'
  <2>1. CASE SendReply(r) \/ (CheckPane(r) /\ ~Accepts(req[r]))
    <3>1. PICK sent \in BOOLEAN : EndAnswer(r, sent)
      BY <2>1 DEF SendReply, CheckPane
    <3>2. UNCHANGED <<seen, snap, open>>
      BY <2>1 DEF SendReply, CheckPane
    <3> QED BY <3>1, <3>2, EndAnswerStories
  <2> QED BY <1>1, <1>8, <2>1, BeginAnswerStories, FreshReadStories, HandlerStories, WatchReadStories
      DEF RequestStep
<1> QED BY <1>2, <1>3, <1>4, <1>5, <1>6, <1>7, <1>8 DEF Next

LEMMA SpecStories == Spec => []IInv
<1>1. Init => IInv
  BY InitTypeInv, InitTickets, InitStories DEF IInv
<1>2. IInv /\ [Next]_vars => IInv'
  BY StepTypeInv, StepTickets, StepStories DEF IInv
<1> QED BY <1>1, <1>2, PTL DEF Spec

\* For any panes, clients and prompts, whatever reads and sends fail: an
\* episode that was closed stays closed for every reader of the events, and
\* none is closed that was not opened before (events.py observe, _announce
\* and end_answer).
THEOREM NothingAfterTheClose == Spec => []ClosedForGood
<1>1. IInv => ClosedForGood
  BY DEF IInv, Stories, Story, EndsOnce, ClosedForGood
<1> QED BY <1>1, SpecStories, PTL

\* Whichever of the concurrent reads found the prompt of an open episode, the
\* clients were told it last: the revision begin_answer compares an answer
\* with is one its sender can know.
THEOREM RevisionsAreTold == Spec => []ClientsKnowTheRevision
<1>1. IInv => ClientsKnowTheRevision
  BY DEF IInv, Stories, Story, LastTells, ClientsKnowTheRevision
<1> QED BY <1>1, SpecStories, PTL
=============================================================================
