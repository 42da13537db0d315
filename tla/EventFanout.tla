----------------------------- MODULE EventFanout -----------------------------
(***************************************************************************)
(* How the events of EventHub reach the runtimes: the ring and the pump of *)
(* the bridge (src/herdeck/events.py), the subscription that rides on a    *)
(* `list` (bridge._serve_connection), the snapshots it must not overtake   *)
(* (bridge._broadcast), and in each runtime the persisted cursor           *)
(* (deckapp/event_cursor.py), the replay batch, the alerts and the         *)
(* watchdog (deckapp/live_events.py).                                      *)
(*                                                                         *)
(* The blocked prompts are reduced to episodes that ask question 1, 2, ... *)
(* A frame on the wire is its place in the log of the bridge's epoch: a    *)
(* connection never outlives the bridge process that serves it.            *)
(***************************************************************************)
EXTENDS Naturals, Sequences, FiniteSets

CONSTANTS
  Clients,           \* the runtimes
  Episodes,          \* the block episodes of the fleet
  None,              \* Python's None
  MaxQuestions,      \* bound: questions one episode asks
  RingMax,           \* RING_MAX_EVENTS
  MaxSeq,            \* bound: events of one bridge process
  MaxEpochs,         \* bound: bridge processes
  MaxConnects,       \* bound: connections of one runtime
  SnapshotsInOrder,  \* a list result is sent before a newer one is captured
  ListMayFail,       \* herdr may fail to answer a list
  Watchdog,          \* SYNC_TIMEOUT_S may pass before event_sync arrives
  RuntimeCrash,      \* a runtime may be killed at any time
  AlertCrash         \* ... also while it handles an event

Questions == 1..MaxQuestions

ASSUME FanoutAssumption ==
  /\ {MaxQuestions, RingMax, MaxSeq, MaxEpochs, MaxConnects} \subseteq Nat \ {0}
  /\ {SnapshotsInOrder, ListMayFail, Watchdog, RuntimeCrash, AlertCrash}
       \subseteq BOOLEAN

VARIABLES
  fleet,    \* herdr's truth per episode: its state, question and last answered
  epoch,    \* EventHub.epoch
  log,      \* every frame this bridge process emitted; seq is the place in it
  low,      \* the ring is log[low .. seq]
  queue,    \* EventHub._queue: the frames the pump has yet to take
  pump,     \* the frame _pump_loop is sending and to whom, or None
  sub,      \* EventHub._subs per client: what to send, sent_upto, active; or None
  conn,     \* the connection: "down", "joining" (first snapshot) or "up"
  connects, \* how many connections a client had
  listing,  \* the list result on its way to a client, or None
  wire,     \* messages on their way to a client
  uplink,   \* subscribe requests on their way to the bridge
  mem,      \* what a runtime has in memory
  disk,     \* what it keeps in bridge-events.json: cursor and known episodes
  alerted   \* how often a runtime alerted a question of an episode

hub == <<epoch, log, low, queue>>
link == <<pump, sub, conn, connects, listing, wire, uplink>>
runtime == <<mem, disk, alerted>>
vars == <<fleet, hub, link, runtime>>

Kinds == {"blocked", "answered", "unblocked"}
Frame(kind, ep, q) == [kind |-> kind, ep |-> ep, q |-> q]
Frames == [kind : Kinds, ep : Episodes, q : Questions]

Event(n) == [type |-> "event", seq |-> n]
Sync(n, gap) == [type |-> "sync", seq |-> n, gap |-> gap]
Snapshot(panes) == [type |-> "snapshot", panes |-> panes]

Ring == low..Len(log)
Open == {ep \in Episodes : fleet[ep].state = "open"}

\* The places of the frames ep.frames keeps for an open episode: the last of
\* each kind.
Held(ep) ==
  {n \in 1..Len(log) :
     /\ log[n].ep = ep
     /\ \A k \in (n + 1)..Len(log) : log[k].ep = ep => log[k].kind # log[n].kind}
HeldOpen == UNION {Held(ep) : ep \in {e \in Open : \E n \in 1..Len(log) : log[n].ep = e}}

\* The question of ep's last blocked event, 0 before there is one.
Announced(ep) ==
  LET asked == {n \in Held(ep) : log[n].kind = "blocked"}
  IN IF asked = {} THEN 0 ELSE log[CHOOSE n \in asked : TRUE].q

\* The places in ascending order: the i-th has i places up to it.
InOrder(places) ==
  [i \in 1..Cardinality(places) |->
     CHOOSE n \in places : Cardinality({m \in places : m <= n}) = i]

Memory(view, read, spent) ==
  [batch |-> None, alert |-> FALSE, synced |-> FALSE, resent |-> FALSE,
   view |-> view, read |-> read, spent |-> spent]
NoMemory == Memory({}, [ep \in Episodes |-> 0], {})

Init ==
  /\ fleet = [ep \in Episodes |-> [state |-> "new", asks |-> 0, done |-> 0]]
  /\ epoch = 1 /\ log = << >> /\ low = 1 /\ queue = << >>
  /\ pump = None
  /\ sub = [c \in Clients |-> None]
  /\ conn = [c \in Clients |-> "down"]
  /\ connects = [c \in Clients |-> 0]
  /\ listing = [c \in Clients |-> None]
  /\ wire = [c \in Clients |-> << >>]
  /\ uplink = [c \in Clients |-> << >>]
  /\ mem = [c \in Clients |-> NoMemory]
  /\ disk = [c \in Clients |-> [cursor |-> None, known |-> {}]]
  /\ alerted = [c \in Clients |-> [x \in Episodes \X Questions |-> 0]]

-----------------------------------------------------------------------------
(* The bridge: _emit, the ring, and the fleet it watches.                  *)

Subscribed(c) == sub[c] # None
CatchingUp(c) == Subscribed(c) /\ ~sub[c].active

\* Mutant: _prune forgets old frames but does not count them.
PrunedByAge(seq) == low..seq

\* Where the ring may start: _prune keeps at most RingMax frames and forgets
\* old ones, the newest excepted.
Pruned(seq) == {l \in low..seq : seq - l < RingMax}

\* _emit for each frame.  Bound: the ring outlives a catch-up, so nothing a
\* client is catching up on is pruned.
Emit(frames) ==
  LET seq == Len(log) + Len(frames) IN
  /\ seq <= MaxSeq
  /\ log' = log \o frames
  /\ low' \in Pruned(seq)
  /\ \A c \in Clients : CatchingUp(c) => low' <= sub[c].upto + 1
  /\ queue' = IF \E c \in Clients : Subscribed(c)
              THEN queue \o [i \in 1..Len(frames) |-> Len(log) + i]
              ELSE queue
  /\ UNCHANGED epoch

\* _broadcast sends the new list to every registered client, then observes it.
Broadcast(panes) ==
  wire' = [c \in Clients |->
             IF conn[c] = "up" THEN Append(wire[c], Snapshot(panes)) ELSE wire[c]]

linkButWire == <<pump, sub, conn, connects, listing, uplink>>

Blocks(ep) ==
  /\ fleet[ep].state = "new"
  /\ fleet' = [fleet EXCEPT ![ep] = [state |-> "open", asks |-> 1, done |-> 0]]
  /\ Broadcast(Open \cup {ep})
  /\ UNCHANGED <<hub, linkButWire, runtime>>

\* The agent asks the next question without leaving blocked.
AsksNext(ep) ==
  /\ ep \in Open
  /\ fleet[ep].asks < MaxQuestions
  /\ fleet' = [fleet EXCEPT ![ep].asks = @ + 1]
  /\ UNCHANGED <<hub, link, runtime>>

\* The first read, or a later one that finds another prompt.
Announce(ep) ==
  /\ ep \in Open
  /\ Announced(ep) # fleet[ep].asks
  /\ Emit(<<Frame("blocked", ep, fleet[ep].asks)>>)
  /\ UNCHANGED <<fleet, link, runtime>>

\* end_answer, for an answer to the question the bridge announced.
Answered(ep) ==
  /\ ep \in Open
  /\ Announced(ep) = fleet[ep].asks
  /\ fleet[ep].done < fleet[ep].asks
  /\ fleet' = [fleet EXCEPT ![ep].done = fleet[ep].asks]
  /\ Emit(<<Frame("answered", ep, fleet[ep].asks)>>)
  /\ UNCHANGED <<link, runtime>>

\* The snapshot without the episode goes out, then _close emits its end if it
\* was announced.
Unblocks(ep) ==
  /\ ep \in Open
  /\ fleet' = [fleet EXCEPT ![ep].state = "over"]
  /\ Broadcast(Open \ {ep})
  /\ IF Announced(ep) = 0 THEN UNCHANGED hub
     ELSE Emit(<<Frame("unblocked", ep, fleet[ep].asks)>>)
  /\ UNCHANGED <<linkButWire, runtime>>

PumpTargets(n) ==
  {c \in Clients : Subscribed(c) /\ sub[c].active /\ n > sub[c].upto}

PumpTake ==
  /\ pump = None
  /\ queue # << >>
  /\ LET n == Head(queue)
         targets == PumpTargets(n)
     IN /\ sub' = [c \in Clients |->
                     IF c \in targets THEN [sub[c] EXCEPT !.upto = n] ELSE sub[c]]
        /\ pump' = IF targets = {} THEN None ELSE [seq |-> n, to |-> targets]
  /\ queue' = Tail(queue)
  /\ UNCHANGED <<fleet, epoch, log, low, conn, connects, listing, wire, uplink, runtime>>

\* Mutant: the pump goes on to the next frame after one client got this one.
WithoutAll(p, c) == None

Without(p, c) ==
  IF p = None \/ p.to \subseteq {c} THEN None ELSE [p EXCEPT !.to = @ \ {c}]

\* The lock of a connection is first come, first served: what the pump sends
\* to a client that subscribes again waits for one message, not for the replay.
PumpWaits(c) == pump # None /\ c \in pump.to

PumpSend(c) ==
  /\ PumpWaits(c)
  /\ wire' = [wire EXCEPT ![c] = Append(@, Event(pump.seq))]
  /\ pump' = Without(pump, c)
  /\ UNCHANGED <<fleet, hub, sub, conn, connects, listing, uplink, runtime>>

-----------------------------------------------------------------------------
(* A connection: first snapshot, registration, `list` and subscription.    *)

Closed(c) ==
  /\ conn' = [conn EXCEPT ![c] = "down"]
  /\ wire' = [wire EXCEPT ![c] = << >>]
  /\ uplink' = [uplink EXCEPT ![c] = << >>]
  /\ listing' = [listing EXCEPT ![c] = None]
  /\ sub' = [sub EXCEPT ![c] = None]
  /\ pump' = Without(pump, c)

\* _ev_subscription: the cursor to replay after, and a new batch for the
\* replay, which may alert unless this is the first subscription.
Request(c) ==
  IF disk[c].cursor = None THEN [after |-> None, epoch |-> None]
  ELSE [after |-> disk[c].cursor[2], epoch |-> disk[c].cursor[1]]

\* Mutant: no replay alerts.
NewBatchSilent(c) == [mem[c] EXCEPT !.batch = << >>, !.alert = FALSE]

NewBatch(c) == [mem[c] EXCEPT !.batch = << >>, !.alert = disk[c].cursor # None]

Connect(c) ==
  /\ conn[c] = "down"
  /\ connects[c] < MaxConnects
  /\ conn' = [conn EXCEPT ![c] = "joining"]
  /\ connects' = [connects EXCEPT ![c] = @ + 1]
  /\ wire' = [wire EXCEPT ![c] = <<Snapshot(Open)>>]
  /\ uplink' = [uplink EXCEPT ![c] = <<Request(c)>>]
  /\ mem' = [mem EXCEPT ![c] = [NewBatch(c) EXCEPT !.synced = FALSE, !.resent = FALSE]]
  /\ UNCHANGED <<fleet, hub, pump, sub, listing, disk, alerted>>

Register(c) ==
  /\ conn[c] = "joining"
  /\ conn' = [conn EXCEPT ![c] = "up"]
  /\ UNCHANGED <<fleet, hub, pump, sub, connects, listing, wire, uplink, runtime>>

\* The connection's coroutine is done with the message before this one.
Serving(c) == conn[c] = "up" /\ uplink[c] # << >> /\ ~CatchingUp(c)

ListPanes(c) ==
  /\ Serving(c)
  /\ listing[c] = None
  /\ \E ok \in {TRUE, ~ListMayFail} :
       listing' = [listing EXCEPT ![c] = [ok |-> ok, panes |-> Open]]
  /\ UNCHANGED <<fleet, hub, pump, sub, conn, connects, wire, uplink, runtime>>

\* The snapshot the list result becomes; none when herdr failed.
Listed(c) ==
  IF ~listing[c].ok THEN << >>
  ELSE <<Snapshot(IF SnapshotsInOrder THEN Open ELSE listing[c].panes)>>

\* Does the ring hold every event after the client's cursor?
\* Mutant: one event too far back.
ReachesOffByOne(r) == r.epoch = epoch /\ r.after <= Len(log) /\ low <= r.after + 2

Reaches(r) ==
  /\ r.epoch = epoch
  /\ r.after <= Len(log)
  /\ IF low <= Len(log) THEN low <= r.after + 1 ELSE r.after = Len(log)

\* Mutant: after a gap only the ring is replayed.
ReplayRing(r) ==
  IF r.after = None THEN [places |-> HeldOpen, gap |-> FALSE]
  ELSE IF Reaches(r) THEN [places |-> {n \in Ring : n > r.after}, gap |-> FALSE]
  ELSE [places |-> Ring, gap |-> TRUE]

\* _replay_frames: what to send, and whether there may be a gap.
Replay(r) ==
  IF r.after = None THEN [places |-> HeldOpen, gap |-> FALSE]
  ELSE IF Reaches(r) THEN [places |-> {n \in Ring : n > r.after}, gap |-> FALSE]
  ELSE [places |-> Ring \cup HeldOpen, gap |-> TRUE]

Events(places) == LET s == InOrder(places) IN [i \in DOMAIN s |-> Event(s[i])]

Subscribe(c) ==
  /\ listing[c] # None
  /\ LET replay == Replay(Head(uplink[c]))
     IN sub' = [sub EXCEPT ![c] =
          [todo |-> Append(Events(replay.places), Sync(Len(log), replay.gap)),
           upto |-> Len(log), active |-> FALSE]]
  /\ wire' = [wire EXCEPT ![c] = @ \o Listed(c)]
  /\ uplink' = [uplink EXCEPT ![c] = Tail(@)]
  /\ listing' = [listing EXCEPT ![c] = None]
  /\ UNCHANGED <<fleet, hub, pump, conn, connects, runtime>>

SendReplay(c) ==
  /\ CatchingUp(c)
  /\ ~PumpWaits(c)
  /\ sub[c].todo # << >>
  /\ wire' = [wire EXCEPT ![c] = Append(@, Head(sub[c].todo))]
  /\ sub' = [sub EXCEPT ![c].todo = Tail(@)]
  /\ UNCHANGED <<fleet, hub, pump, conn, connects, listing, uplink, runtime>>

\* What was emitted while the replay was on the wire; the pump takes over once
\* nothing is left.
\* Mutant: the pump takes over right after the replay.
PendingNone(c) == {}

Pending(c) == {n \in Ring : n > sub[c].upto}

CatchUp(c) ==
  /\ CatchingUp(c)
  /\ sub[c].todo = << >>
  /\ LET pending == Pending(c)
     IN sub' = [sub EXCEPT ![c] =
          IF pending = {} THEN [@ EXCEPT !.active = TRUE]
          ELSE [@ EXCEPT !.todo = Events(pending), !.upto = Len(log)]]
  /\ UNCHANGED <<fleet, hub, pump, conn, connects, listing, wire, uplink, runtime>>

\* _events_on_connection(False): the batch goes, the cursor and what the
\* runtime saw stay.
Forgets(m) == [m EXCEPT !.batch = None, !.alert = FALSE, !.synced = FALSE]

Drop(c) ==
  /\ conn[c] # "down"
  /\ Closed(c)
  /\ mem' = [mem EXCEPT ![c] = Forgets(@)]
  /\ UNCHANGED <<fleet, hub, connects, disk, alerted>>

\* The bridge restarts: a new epoch, an empty ring, and every connection drops.
\* Episodes that ended meanwhile are never reported; the others keep their id
\* and are announced again.
BridgeRestart ==
  /\ epoch < MaxEpochs
  /\ epoch' = epoch + 1
  /\ log' = << >> /\ low' = 1 /\ queue' = << >>
  /\ pump' = None
  /\ sub' = [c \in Clients |-> None]
  /\ conn' = [c \in Clients |-> "down"]
  /\ listing' = [c \in Clients |-> None]
  /\ wire' = [c \in Clients |-> << >>]
  /\ uplink' = [c \in Clients |-> << >>]
  /\ mem' = [c \in Clients |-> Forgets(mem[c])]
  /\ \E ended \in SUBSET Open :
       fleet' = [ep \in Episodes |->
                   IF ep \in ended THEN [fleet[ep] EXCEPT !.state = "over"] ELSE fleet[ep]]
  /\ UNCHANGED <<connects, disk, alerted>>

-----------------------------------------------------------------------------
(* The runtime.  `fired` lists the alerts in the order they are raised.    *)

\* Mutant: the bridge's prompt fills the cache only while it is empty.
HandleFirst(m, view, f, alert) ==
  LET reopens == m.read[f.ep] \notin {0, f.q} /\ f.ep \in m.spent
  IN CASE f.kind = "blocked" /\ f.ep \in view ->
            [read  |-> IF m.read[f.ep] = 0 THEN [m.read EXCEPT ![f.ep] = f.q] ELSE m.read,
             spent |-> IF reopens THEN m.spent \ {f.ep} ELSE m.spent,
             fired |-> IF alert \/ reopens THEN Append(m.fired, <<f.ep, f.q>>) ELSE m.fired]
       [] f.kind = "answered"  -> [m EXCEPT !.spent = @ \cup {f.ep}]
       [] f.kind = "unblocked" -> [m EXCEPT !.read[f.ep] = 0]
       [] OTHER                -> m

\* _ev_handle: the effect of one event, which alerts when `alert` says so or
\* when an answered episode asks another question.
Handle(m, view, f, alert) ==
  LET seen == f.ep \in view
      reopens == /\ m.read[f.ep] \notin {0, f.q}
                 /\ f.ep \in m.spent
  IN CASE f.kind = "blocked" /\ seen ->
            [read  |-> [m.read EXCEPT ![f.ep] = f.q],
             spent |-> IF reopens THEN m.spent \ {f.ep} ELSE m.spent,
             fired |-> IF alert \/ reopens THEN Append(m.fired, <<f.ep, f.q>>) ELSE m.fired]
       [] f.kind = "answered"  -> [m EXCEPT !.spent = @ \cup {f.ep}]
       [] f.kind = "unblocked" -> [m EXCEPT !.read[f.ep] = 0]
       [] OTHER                -> m

State(m) == [read |-> m.read, spent |-> m.spent, fired |-> << >>]

\* _on_lifecycle for an event after event_sync.
Fresh(c, f) == f.kind = "blocked" /\ f.ep \notin disk[c].known

HandleLive(c, n) ==
  LET f == log[n]
      m == Handle(State(mem[c]), mem[c].view, f, Fresh(c, f))
  IN [fired |-> m.fired, read |-> m.read, spent |-> m.spent,
      opened |-> IF f.kind = "blocked" THEN {f.ep} ELSE {},
      cursor |-> <<epoch, n>>]

\* _ev_replay: the episodes still open at the end of the batch, by the place
\* in the batch of their last blocked event.
StillOpen(batch) ==
  {i \in DOMAIN batch :
     /\ log[batch[i]].kind = "blocked"
     /\ \A j \in (i + 1)..Len(batch) :
          log[batch[j]].ep = log[batch[i]].ep => log[batch[j]].kind = "answered"}

\* _fire_notify: an episode that is alerted is known.
Known(fired) == {fired[i][1] : i \in DOMAIN fired}

\* Mutant: a replay alerts episodes the runtime alerted before.
AlertsKnown(c, f, m) == mem[c].alert /\ f.ep \notin m.spent

Alerts(c, f, m) ==
  /\ mem[c].alert
  /\ f.ep \notin m.spent \cup disk[c].known \cup Known(m.fired)

\* _ev_replay handles the batch in the order it came: what k events of it left.
HandledUpTo(c, batch) ==
  LET after[k \in 0..Len(batch)] ==
        IF k = 0 THEN State(mem[c])
        ELSE Handle(after[k - 1], mem[c].view, log[batch[k]], FALSE)
  IN after

HandleSync(c, msg) ==
  LET batch == IF mem[c].batch = None THEN << >> ELSE mem[c].batch
      m == HandledUpTo(c, batch)[Len(batch)]
      opened == StillOpen(batch)
      alert(i) == LET f == log[batch[i]] IN Alerts(c, f, m) /\ f.ep \in mem[c].view
      alerts == InOrder({i \in opened : alert(i)})
  IN [fired  |-> m.fired \o [i \in DOMAIN alerts |->
                    <<log[batch[alerts[i]]].ep, log[batch[alerts[i]]].q>>],
      read |-> m.read, spent |-> m.spent,
      opened |-> {log[batch[i]].ep : i \in opened},
      cursor |-> <<epoch, msg.seq>>]

Rang(count, fired) ==
  [x \in DOMAIN count |->
     LET n == count[x] + Cardinality({i \in DOMAIN fired : fired[i] = x})
     IN IF n > 2 THEN 2 ELSE n]

\* Does the runtime handle this message now, rather than keep it for the sync?
Handles(c, msg) == msg.type = "sync" \/ (msg.type = "event" /\ mem[c].batch = None)
Handling(c, msg) == IF msg.type = "sync" THEN HandleSync(c, msg) ELSE HandleLive(c, msg.seq)

ReceiveSnapshot(c) ==
  /\ wire[c] # << >>
  /\ Head(wire[c]).type = "snapshot"
  /\ mem' = [mem EXCEPT ![c].view = Head(wire[c]).panes]
  /\ wire' = [wire EXCEPT ![c] = Tail(@)]
  /\ UNCHANGED <<fleet, hub, linkButWire, disk, alerted>>

ReceiveBatched(c) ==
  /\ wire[c] # << >>
  /\ Head(wire[c]).type = "event"
  /\ mem[c].batch # None
  /\ mem' = [mem EXCEPT ![c].batch = Append(@, Head(wire[c]).seq)]
  /\ wire' = [wire EXCEPT ![c] = Tail(@)]
  /\ UNCHANGED <<fleet, hub, linkButWire, disk, alerted>>

ReceiveEvent(c) ==
  /\ wire[c] # << >>
  /\ Handles(c, Head(wire[c]))
  /\ LET msg == Head(wire[c])
         h == Handling(c, msg)
         m == [mem[c] EXCEPT !.read = h.read, !.spent = h.spent, !.batch = None]
     IN /\ mem' = [mem EXCEPT ![c] =
                     IF msg.type = "sync" THEN [m EXCEPT !.alert = FALSE, !.synced = TRUE] ELSE m]
        /\ disk' = [disk EXCEPT ![c] =
                     [cursor |-> h.cursor, known |-> @.known \cup Known(h.fired) \cup h.opened]]
        /\ alerted' = [alerted EXCEPT ![c] = Rang(@, h.fired)]
  /\ wire' = [wire EXCEPT ![c] = Tail(@)]
  /\ UNCHANGED <<fleet, hub, linkButWire>>

\* The watchdog finds no event_sync and subscribes again, into a new batch.
\* Bound: once per connection.
Resubscribe(c) ==
  /\ Watchdog
  /\ conn[c] = "up"
  /\ ~mem[c].synced
  /\ ~mem[c].resent
  /\ uplink' = [uplink EXCEPT ![c] = Append(@, Request(c))]
  /\ mem' = [mem EXCEPT ![c] = [NewBatch(c) EXCEPT !.resent = TRUE]]
  /\ UNCHANGED <<fleet, hub, pump, sub, conn, connects, listing, wire, disk, alerted>>

Crash(c) ==
  /\ RuntimeCrash
  /\ mem[c] # NoMemory
  /\ Closed(c)
  /\ mem' = [mem EXCEPT ![c] = NoMemory]
  /\ UNCHANGED <<fleet, hub, connects, disk, alerted>>

\* _fire_notify saves the episode as known before it schedules the alert: the
\* runtime is killed in between, at the i-th alert of what it handles.
CrashAlerting(c) ==
  /\ AlertCrash
  /\ wire[c] # << >>
  /\ Handles(c, Head(wire[c]))
  /\ LET fired == Handling(c, Head(wire[c])).fired
     IN \E i \in DOMAIN fired :
          /\ disk' = [disk EXCEPT ![c].known = @ \cup Known(SubSeq(fired, 1, i))]
          /\ alerted' = [alerted EXCEPT ![c] = Rang(@, SubSeq(fired, 1, i - 1))]
  /\ Closed(c)
  /\ mem' = [mem EXCEPT ![c] = NoMemory]
  /\ UNCHANGED <<fleet, hub, connects>>

-----------------------------------------------------------------------------
Fleet == \E ep \in Episodes :
  Blocks(ep) \/ AsksNext(ep) \/ Announce(ep) \/ Answered(ep) \/ Unblocks(ep)
Bridge(c) ==
  \/ PumpSend(c) \/ Register(c) \/ ListPanes(c) \/ Subscribe(c) \/ SendReplay(c) \/ CatchUp(c)
Receive(c) == ReceiveSnapshot(c) \/ ReceiveBatched(c) \/ ReceiveEvent(c)
Fault(c) == Drop(c) \/ Resubscribe(c) \/ Crash(c) \/ CrashAlerting(c)

Next ==
  \/ Fleet
  \/ PumpTake
  \/ BridgeRestart
  \/ \E c \in Clients : Connect(c) \/ Bridge(c) \/ Receive(c) \/ Fault(c)

\* The event loop runs every coroutine that is ready, and a connected runtime
\* reads its socket.  Nothing forces the agents, a reconnect or a fault.
Fairness ==
  /\ WF_vars(PumpTake)
  /\ \A c \in Clients : WF_vars(Bridge(c)) /\ WF_vars(Receive(c))

Spec == Init /\ [][Next]_vars /\ Fairness

-----------------------------------------------------------------------------
(* Properties.                                                             *)

Messages == [type : {"event"}, seq : 1..MaxSeq]
       \cup [type : {"sync"}, seq : 0..MaxSeq, gap : BOOLEAN]
       \cup [type : {"snapshot"}, panes : SUBSET Episodes]
Cursors == (1..MaxEpochs) \X (0..MaxSeq)
Subs == [todo : Seq(Messages), upto : 0..MaxSeq, active : BOOLEAN]
Pumps == [seq : 1..MaxSeq, to : (SUBSET Clients) \ {{}}]
Batches == Seq(1..MaxSeq)

ASSUME NoneAssumption ==
  /\ None \notin Cursors /\ None \notin Subs /\ None \notin Pumps /\ None \notin Batches
  /\ None \notin 0..MaxSeq

\* Every variable keeps its type; the ring is the end of the log, never empty
\* once something was emitted, and never longer than RING_MAX_EVENTS.
TypeOK ==
  /\ fleet \in [Episodes -> [state : {"new", "open", "over"},
                             asks : 0..MaxQuestions, done : 0..MaxQuestions]]
  /\ epoch \in 1..MaxEpochs
  /\ log \in Seq(Frames) /\ Len(log) <= MaxSeq
  /\ low \in 1..(Len(log) + 1)
  /\ Len(log) + 1 - low <= RingMax
  /\ log # << >> => low <= Len(log)
  /\ queue \in Seq(1..MaxSeq)
  /\ pump = None \/ pump \in Pumps
  /\ \A c \in Clients :
       /\ sub[c] = None \/ sub[c] \in Subs
       /\ conn[c] \in {"down", "joining", "up"}
       /\ connects[c] \in 0..MaxConnects
       /\ listing[c] = None \/ listing[c] \in [ok : BOOLEAN, panes : SUBSET Episodes]
       /\ wire[c] \in Seq(Messages)
       /\ \A i \in DOMAIN uplink[c] :
            /\ uplink[c][i].after \in {None} \cup 0..MaxSeq
            /\ uplink[c][i].epoch \in {None} \cup 1..MaxEpochs
       /\ mem[c].batch = None \/ mem[c].batch \in Batches
       /\ mem[c].read \in [Episodes -> 0..MaxQuestions]
       /\ mem[c].view \cup mem[c].spent \cup disk[c].known \subseteq Episodes
       /\ {mem[c].alert, mem[c].synced, mem[c].resent} \subseteq BOOLEAN
       /\ disk[c].cursor \in {None} \cup Cursors
       /\ alerted[c] \in [Episodes \X Questions -> 0..2]

\* Nothing is lost while a runtime sleeps or reconnects: its cursor moves over
\* an event only by handling it, unless the bridge said that there is a gap.
SkipsNone ==
  \A c \in Clients :
    LET old == disk[c].cursor
        new == disk'[c].cursor
        batch == mem[c].batch
    IN old # None /\ new # old /\ new[1] = old[1] =>
         \/ new[2] <= old[2] + 1
         \/ Head(wire[c]).type = "sync" /\ Head(wire[c]).gap
         \/ batch # None /\ (old[2] + 1)..new[2] \subseteq {batch[i] : i \in DOMAIN batch}

NeverSkips == [][SkipsNone]_vars

\* A runtime never moves its cursor past the blocked event of an episode that
\* is still open without knowing that episode, whatever the replay left out.
CursorKnows ==
  \A c \in Clients :
    LET cursor == disk[c].cursor IN
    cursor # None /\ cursor[1] = epoch =>
      \A n \in 1..cursor[2] :
        log[n].kind = "blocked" /\ log[n].ep \in Open => log[n].ep \in disk[c].known

\* "Instead of re-alerting what it already announced" (event_cursor.py): one
\* runtime alerts a question once, over reconnects and restarts of both sides.
AlertedOnce ==
  \A c \in Clients, x \in Episodes \X Questions : alerted[c][x] <= 1

\* Once the first subscription is over, an open episode nobody answered becomes
\* known to a runtime only by alerting it.
AlertsWhatItLearns ==
  \A c \in Clients, ep \in Open :
    /\ ep \in disk'[c].known \ disk[c].known
    /\ disk[c].cursor # None
    /\ fleet[ep].done = 0
    => \E q \in Questions : alerted'[c][<<ep, q>>] > alerted[c][<<ep, q>>]

KnownIsAlerted == [][AlertsWhatItLearns]_vars

\* A runtime has handled everything the bridge emitted.
UpToDate(c) == disk[c].cursor = <<epoch, Len(log)>> /\ mem[c].batch = None

\* An up-to-date runtime has the question each blocked pane it shows asks: no
\* local read is made for it (_reconcile_prereads), so nothing else would.
ShowsTheQuestion ==
  \A c \in Clients :
    conn[c] = "up" /\ UpToDate(c) /\ mem[c].synced =>
      \A ep \in Open \cap mem[c].view :
        Announced(ep) # 0 => mem[c].read[ep] = Announced(ep)

\* An up-to-date runtime takes an episode for answered only when the question
\* the bridge announced last was answered ("a multi-step prompt stays
\* answerable", live_events.py).
SpentIsAnswered ==
  \A c \in Clients :
    conn[c] = "up" /\ UpToDate(c) /\ mem[c].synced =>
      \A ep \in Open \cap mem[c].spent :
        Announced(ep) = fleet[ep].asks => fleet[ep].done = fleet[ep].asks

\* "An event never reaches a client ahead of the snapshot that shows its
\* status" (bridge._broadcast): a blocked event of an open episode is handled
\* by a runtime that shows the pane blocked.
NeverAheadOfSnapshot ==
  [][\A c \in Clients :
       (disk'[c].known \ disk[c].known) \cap Open \subseteq mem[c].view]_vars

\* A runtime that stays connected hears of everything that was emitted.
CatchesUp ==
  \A c \in Clients : conn[c] = "up" ~> (conn[c] # "up" \/ UpToDate(c))
=============================================================================
