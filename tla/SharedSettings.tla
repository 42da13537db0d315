----------------------------- MODULE SharedSettings -----------------------------
(***************************************************************************)
(* The shared settings of a bridge: the versioned store and its file       *)
(* (src/herdeck/bridge_settings.py), the put and its broadcast             *)
(* (bridge._serve_connection), the relay a runtime offers its editor       *)
(* (deckapp/settings_relay.py, the desktop's bridgeSettings.ts) and the    *)
(* view of the document a runtime keeps and caches (deckapp/shared_view.py)*)
(*                                                                         *)
(* Every save is an element of Edits and stands for the document it        *)
(* writes.  The store is used from one event loop; a put, its file write   *)
(* included, is one step, its reply and its broadcast are later ones.      *)
(***************************************************************************)
EXTENDS Naturals, Sequences, FiniteSets

CONSTANTS
  Clients,        \* the runtimes
  Edits,          \* saves in editors
  None,           \* no document, no runtime
  Orphan,         \* the handler of a put whose connection is gone
  MaxConnects,    \* bound: connections
  MaxStops,       \* bound: stops of the bridge and of runtimes
  CacheMayFail,   \* a runtime's cache file may not be writable
  FileMayFail     \* the bridge may find its file unreadable at start

ASSUME SettingsAssumption ==
  /\ MaxConnects \in Nat \ {0}
  /\ MaxStops \in Nat
  /\ None \notin Edits \cup Clients
  /\ Orphan \notin Clients \cup {None}
  /\ {CacheMayFail, FileMayFail} \subseteq BOOLEAN

VARIABLES
  up,        \* the bridge runs
  store,     \* BridgeSettingsStore: revision and document
  file,      \* bridge-settings.toml; revision 0 when there is none
  fate,      \* per save: "new", "asked", then "saved" or "refused" at the bridge
  telling,   \* per saved put, the connection whose handler has yet to broadcast
  frames,    \* per client, broadcast frames whose send has not run yet
  conn,      \* the connection: "down", "joining", "registered" or "up"
  connects,  \* how many connections there were
  wire,      \* messages on their way to a runtime
  uplink,    \* puts on their way to the bridge
  left,      \* puts that arrived on a connection that is gone by now
  view,      \* SharedSettingsView: the document a runtime applies
  cache,     \* its cache file; revision 0 when there is none
  loop,      \* puts the runtime's connector loop has yet to send
  edit,      \* the editor's save: where it stands, its base and its outcome
  stops      \* how often the bridge or a runtime stopped

bridge == <<up, store, file, fate, telling, frames>>
link == <<conn, connects, wire, uplink, left>>
runtime == <<view, cache, loop, edit>>
vars == <<bridge, link, runtime, stops>>

Docs == Edits \cup {None}
Document(rev, doc) == [rev |-> rev, doc |-> doc]
Unset == Document(0, None)

SettingsFrame(d) == [type |-> "settings", doc |-> d]
Result(e, code, rev) == [type |-> "result", edit |-> e, code |-> code, rev |-> rev]

Fresh == [pc |-> "idle", via |-> None, base |-> Unset, code |-> 0, rev |-> 0]

Init ==
  /\ up = TRUE
  /\ store = Unset /\ file = Unset
  /\ fate = [e \in Edits |-> "new"]
  /\ telling = [e \in Edits |-> None]
  /\ frames = [c \in Clients |-> << >>]
  /\ conn = [c \in Clients |-> "down"]
  /\ connects = 0
  /\ wire = [c \in Clients |-> << >>]
  /\ uplink = [c \in Clients |-> << >>]
  /\ left = [c \in Clients |-> << >>]
  /\ view = [c \in Clients |-> Unset]
  /\ cache = [c \in Clients |-> Unset]
  /\ loop = [c \in Clients |-> << >>]
  /\ edit = [e \in Edits |-> Fresh]
  /\ stops = 0

-----------------------------------------------------------------------------
(* The editor and its relay.  A draft keeps the revision it was read at:   *)
(* the runtime's view or a newer save of this editor that the bridge       *)
(* already confirmed (keepSaved).                                          *)

Confirmed(c) ==
  {Document(edit[e].rev, e) : e \in {x \in Edits : edit[x].via = c /\ edit[x].code = 200}}

Bases(c) == {view[c]} \cup {d \in Confirmed(c) : d.rev > view[c].rev}

Draft(e, c) ==
  /\ edit[e].pc = "idle"
  /\ conn[c] # "down"
  /\ \E base \in Bases(c) :
       edit' = [edit EXCEPT ![e] = [Fresh EXCEPT !.pc = "draft", !.via = c, !.base = base]]
  /\ fate' = [fate EXCEPT ![e] = "asked"]
  /\ UNCHANGED <<up, store, file, telling, frames, link, view, cache, loop, stops>>

Ended(e, code, rev) == [edit EXCEPT ![e] = [@ EXCEPT !.pc = "over", !.code = code, !.rev = rev]]

\* bridge_settings_put: 503 when the runtime is not connected.  That check may
\* be stale by the time the put is handed to the connector.
Post(e) ==
  LET c == edit[e].via IN
  /\ edit[e].pc = "draft"
  /\ \/ /\ edit' = [edit EXCEPT ![e].pc = "waiting"]
        /\ loop' = [loop EXCEPT ![c] = Append(@, e)]
     \/ /\ conn[c] = "down"
        /\ edit' = Ended(e, 503, 0)
        /\ UNCHANGED loop
  /\ UNCHANGED <<bridge, link, view, cache, stops>>

\* Connector.send: at most once, dropped without a connection.
SendPut(c) ==
  /\ loop[c] # << >>
  /\ uplink' = [uplink EXCEPT ![c] = IF conn[c] = "down" THEN @ ELSE Append(@, Head(loop[c]))]
  /\ loop' = [loop EXCEPT ![c] = Tail(@)]
  /\ UNCHANGED <<bridge, conn, connects, wire, left, view, cache, edit, stops>>

\* No reply in SETTINGS_WAIT_S.
TimeOut(e) ==
  /\ edit[e].pc = "waiting"
  /\ edit' = Ended(e, 504, 0)
  /\ UNCHANGED <<bridge, link, view, cache, loop, stops>>

\* A reply ends the request that waits for it; a late one is swallowed.
ReceiveResult(c) ==
  /\ wire[c] # << >>
  /\ LET msg == Head(wire[c]) IN
     /\ msg.type = "result"
     /\ edit' = IF edit[msg.edit].pc = "waiting" THEN Ended(msg.edit, msg.code, msg.rev) ELSE edit
  /\ wire' = [wire EXCEPT ![c] = Tail(@)]
  /\ UNCHANGED <<bridge, conn, connects, uplink, left, view, cache, loop, stops>>

-----------------------------------------------------------------------------
(* The runtime's view: a frame replaces it, memory and cache file.         *)

ReceiveSettings(c) ==
  /\ wire[c] # << >>
  /\ LET msg == Head(wire[c]) IN
     /\ msg.type = "settings"
     /\ view' = [view EXCEPT ![c] = msg.doc]
     /\ cache' = [cache EXCEPT ![c] = msg.doc] \/ (CacheMayFail /\ UNCHANGED cache)
  /\ wire' = [wire EXCEPT ![c] = Tail(@)]
  /\ UNCHANGED <<bridge, conn, connects, uplink, left, loop, edit, stops>>

\* The connection is gone: requests that wait on it fail.
FailedOver(some, code) ==
  [e \in Edits |->
     IF edit[e].pc = "waiting" /\ edit[e].via \in some
     THEN [edit[e] EXCEPT !.pc = "over", !.code = code] ELSE edit[e]]

Without(f, some, value) == [c \in Clients |-> IF c \in some THEN value ELSE f[c]]

\* The connections of some runtimes drop.
Closed(some) ==
  /\ conn' = Without(conn, some, "down")
  /\ wire' = Without(wire, some, << >>)
  /\ uplink' = Without(uplink, some, << >>)
  /\ frames' = Without(frames, some, << >>)

\* Mutant: a handler keeps the connection that is gone.
OrphanedNever(c) == telling

Orphaned(c) == [e \in Edits |-> IF telling[e] = c THEN Orphan ELSE telling[e]]

\* The bridge closes c too.  Its handler goes on: it broadcasts what it put and
\* still takes the puts that had arrived.
LeavesBridge(c) ==
  /\ Closed({c})
  /\ \E n \in 0..Len(uplink[c]) : left' = [left EXCEPT ![c] = @ \o SubSeq(uplink[c], 1, n)]
  /\ telling' = Orphaned(c)

Drop(c) ==
  /\ conn[c] # "down"
  /\ LeavesBridge(c)
  /\ edit' = FailedOver({c}, 503)
  /\ UNCHANGED <<up, store, file, fate, connects, view, cache, loop, stops>>

\* A new runtime process starts from its cache; its editor finds it gone.
RestartRuntime(c) ==
  /\ stops < MaxStops
  /\ stops' = stops + 1
  /\ LeavesBridge(c)
  /\ edit' = FailedOver({c}, 500)
  /\ loop' = [loop EXCEPT ![c] = << >>]
  /\ view' = [view EXCEPT ![c] = cache[c]]
  /\ UNCHANGED <<up, store, file, fate, connects, cache>>

-----------------------------------------------------------------------------
(* The bridge.                                                             *)

Connect(c) ==
  /\ up
  /\ conn[c] = "down"
  /\ connects < MaxConnects
  /\ conn' = [conn EXCEPT ![c] = "joining"]
  /\ connects' = connects + 1
  /\ UNCHANGED <<bridge, wire, uplink, left, runtime, stops>>

\* After the first snapshot the connection is one of the clients.
Register(c) ==
  /\ conn[c] = "joining"
  /\ conn' = [conn EXCEPT ![c] = "registered"]
  /\ UNCHANGED <<bridge, connects, wire, uplink, left, runtime, stops>>

\* Its own settings frame is sent right away, ahead of broadcasts under way.
SendFirst(c) ==
  /\ conn[c] = "registered"
  /\ wire' = [wire EXCEPT ![c] = Append(@, SettingsFrame(store))]
  /\ conn' = [conn EXCEPT ![c] = "up"]
  /\ UNCHANGED <<bridge, connects, uplink, left, runtime, stops>>

\* Mutant: any base that is not newer than the store is accepted.
CurrentOrOlder(e) == edit[e].base.rev <= store.rev

Current(e) == edit[e].base.rev = store.rev

\* Mutant: the file keeps the revision the put was based on.
WrittenOld(e) == Document(store.rev, e)

Written(e) == Document(store.rev + 1, e)

\* settings.put: stale, invalid, not written, or the next revision.
Outcomes(e) == IF Current(e) THEN {200, 422, 502} ELSE {409}

Put(e, handler, code) ==
  IF code = 200
    THEN /\ store' = Document(store.rev + 1, e)
         /\ file' = Written(e)
         /\ fate' = [fate EXCEPT ![e] = "saved"]
         /\ telling' = [telling EXCEPT ![e] = handler]
    ELSE /\ fate' = [fate EXCEPT ![e] = "refused"]
         /\ UNCHANGED <<store, file, telling>>

HandlePut(c) ==
  /\ conn[c] = "up"
  /\ uplink[c] # << >>
  /\ \A e \in Edits : telling[e] # c
  /\ LET e == Head(uplink[c]) IN
     \E code \in Outcomes(e) :
       /\ Put(e, c, code)
       /\ wire' = [wire EXCEPT ![c] = Append(@, Result(e, code, store'.rev))]
  /\ uplink' = [uplink EXCEPT ![c] = Tail(@)]
  /\ UNCHANGED <<up, frames, conn, connects, left, runtime, stops>>

\* A put whose connection is gone: nobody hears the reply.
HandleLeft(c) ==
  /\ left[c] # << >>
  /\ \A e \in Edits : telling[e] = Orphan => edit[e].via # c
  /\ LET e == Head(left[c]) IN \E code \in Outcomes(e) : Put(e, Orphan, code)
  /\ left' = [left EXCEPT ![c] = Tail(@)]
  /\ UNCHANGED <<up, frames, conn, connects, wire, uplink, runtime, stops>>

Hears(c) == conn[c] \in {"registered", "up"}

\* Mutant: the frame is made with the put.
FrameOfPut(e) == SettingsFrame(Document(edit[e].base.rev + 1, e))

\* The frame is that of the store now, once the reply was sent.
FrameOfStore(e) == SettingsFrame(store)

Broadcast(e) ==
  /\ telling[e] # None
  /\ frames' = [c \in Clients |->
                  IF Hears(c) THEN Append(frames[c], FrameOfStore(e)) ELSE frames[c]]
  /\ telling' = [telling EXCEPT ![e] = None]
  /\ UNCHANGED <<up, store, file, fate, link, runtime, stops>>

SendFrame(c) ==
  /\ frames[c] # << >>
  /\ wire' = [wire EXCEPT ![c] = Append(@, Head(frames[c]))]
  /\ frames' = [frames EXCEPT ![c] = Tail(@)]
  /\ UNCHANGED <<up, store, file, fate, telling, conn, connects, uplink, left, runtime, stops>>

\* A stop or a kill: the file was written with the put.
Stop ==
  /\ up
  /\ stops < MaxStops
  /\ stops' = stops + 1
  /\ up' = FALSE
  /\ Closed(Clients)
  /\ left' = Without(left, Clients, << >>)
  /\ telling' = [e \in Edits |-> None]
  /\ edit' = FailedOver(Clients, 503)
  /\ UNCHANGED <<store, file, fate, connects, view, cache, loop>>

\* _load: an unreadable file is served as unset.
Start ==
  /\ ~up
  /\ up' = TRUE
  /\ store' = file \/ (FileMayFail /\ store' = Unset)
  /\ UNCHANGED <<file, fate, telling, frames, link, runtime, stops>>

-----------------------------------------------------------------------------
Editor(e) == Post(e) \/ TimeOut(e) \/ \E c \in Clients : Draft(e, c)
Receive(c) == ReceiveResult(c) \/ ReceiveSettings(c)
Serve(c) == Register(c) \/ SendFirst(c) \/ HandlePut(c)
Fault(c) == Drop(c) \/ RestartRuntime(c)

Next ==
  \/ \E e \in Edits : Editor(e) \/ Broadcast(e)
  \/ \E c \in Clients :
       Connect(c) \/ SendPut(c) \/ Serve(c) \/ HandleLeft(c) \/ SendFrame(c) \/ Receive(c) \/ Fault(c)
  \/ Stop \/ Start

\* Every coroutine that is ready runs, a connected runtime reads its socket,
\* and a wait has a timeout.  Nobody has to edit, connect or stop.
Fairness ==
  /\ \A e \in Edits : WF_vars(Broadcast(e)) /\ WF_vars(TimeOut(e))
  /\ \A c \in Clients :
       /\ WF_vars(SendPut(c)) /\ WF_vars(Serve(c)) /\ WF_vars(HandleLeft(c))
       /\ WF_vars(SendFrame(c)) /\ WF_vars(Receive(c))

Spec == Init /\ [][Next]_vars
FairSpec == Spec /\ Fairness

-----------------------------------------------------------------------------
(* Properties.                                                             *)

Revisions == 0..Cardinality(Edits)
Documents == [rev : Revisions, doc : Docs]
Codes == {0, 200, 409, 422, 500, 502, 503, 504}
Messages == [type : {"settings"}, doc : Documents]
       \cup [type : {"result"}, edit : Edits, code : Codes, rev : Revisions]

\* Every variable keeps its type; a handler that is still to broadcast has the
\* connection of its runtime, or none.
TypeOK ==
  /\ up \in BOOLEAN
  /\ {store, file} \subseteq Documents
  /\ fate \in [Edits -> {"new", "asked", "saved", "refused"}]
  /\ telling \in [Edits -> Clients \cup {None, Orphan}]
  /\ \A e \in Edits : telling[e] \in Clients => conn[telling[e]] = "up" /\ edit[e].via = telling[e]
  /\ conn \in [Clients -> {"down", "joining", "registered", "up"}]
  /\ connects \in 0..MaxConnects
  /\ \A c \in Clients :
       /\ frames[c] \in Seq(Messages) /\ wire[c] \in Seq(Messages)
       /\ {uplink[c], left[c], loop[c]} \subseteq Seq(Edits)
  /\ view \in [Clients -> Documents] /\ cache \in [Clients -> Documents]
  /\ edit \in [Edits -> [pc : {"idle", "draft", "waiting", "over"}, via : Clients \cup {None},
                          base : Documents, code : Codes, rev : Revisions]]
  /\ stops \in 0..MaxStops

\* The documents somebody holds: the bridge, its frames and replies, the
\* runtimes and the drafts.
InTransit(msgs) ==
  {IF m.type = "settings" THEN m.doc ELSE Document(m.rev, m.edit) :
     m \in {msgs[i] : i \in {j \in DOMAIN msgs : msgs[j].type = "settings" \/ msgs[j].code = 200}}}
Copies ==
  {store, file} \cup {edit[e].base : e \in Edits}
  \cup UNION {{view[c], cache[c]} \cup Confirmed(c) \cup InTransit(wire[c]) \cup InTransit(frames[c]) :
               c \in Clients}

\* A revision names one document, wherever a copy of it is: in the file, on the
\* wire, in the cache of a runtime that was away, or under an editor's draft.
RevisionNamesDocument == \A x, y \in Copies : x.rev = y.rev => x.doc = y.doc

\* "A lost race shows the other editor's values instead of overwriting them"
\* (ConfigApp.svelte): a save replaces the document its editor started from.
NoLostUpdate ==
  [][\A e \in Edits :
       fate'[e] = "saved" /\ fate[e] # "saved" => store.doc = edit[e].base.doc]_vars

Told(e) ==
  CASE edit[e].code = 0 -> "nothing"
    [] edit[e].code = 200 -> "saved"
    [] edit[e].code \in {409, 422, 502} -> "refused"
    [] OTHER -> "unknown"

Promise == INSTANCE SettingsRegister WITH
  doc <- file.doc,
  saw <- [e \in Edits |-> IF fate[e] = "new" THEN None ELSE edit[e].base.doc],
  fate <- fate,
  told <- [e \in Edits |-> Told(e)]

\* The store, its relays and their faults implement the register: a save
\* replaces what its editor saw, at most once, across restarts of everything,
\* and the outcome the editor reads is the outcome the save had.
ImplementsRegister == Promise!Spec

\* A runtime that stays connected to a bridge that stays up applies the
\* document the bridge has, whatever order first frames and broadcasts take.
ViewsConverge ==
  \A c \in Clients : <>[](up /\ conn[c] # "down") => <>[](view[c] = store)
===============================================================================
