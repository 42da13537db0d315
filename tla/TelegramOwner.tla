---------------------------- MODULE TelegramOwner ----------------------------
(***************************************************************************)
(* Who sends an agent's Telegram alerts: its bridge, or each runtime.       *)
(* The bridge keeps a Telegram document and a bot token (bridge_telegram),  *)
(* tells every client its state in `telegram` frames, and advertises in     *)
(* each snapshot the capability `telegram` while it sends the alerts itself *)
(* (BridgeTelegram, bridge.py); a runtime then sends none.  The capability  *)
(* changes in broadcast() only, under a lock shared with the snapshot       *)
(* fan-out and with a connection's first snapshot.                          *)
(***************************************************************************)
EXTENDS Integers, Sequences, FiniteSets, SequencesExt

CONSTANTS
    Clients,      \* runtimes
    Editors,      \* windows that edit the document
    MaxChanges,   \* bound: documents and tokens saved
    MaxEdits,     \* bound: token files changed by hand
    MaxReports,   \* bound: results of the Bot API that change the status
    MaxLists,     \* bound: agent lists
    MaxConnects,  \* bound: connections of a runtime
    MaxRestarts,  \* bound: restarts of the bridge
    MaxAlerts     \* bound: alerts

VARIABLES
    doc,        \* the document: its revision and whether alerts are enabled
    token,      \* a bot token is stored
    detail,     \* the rest of the status: errors, chats seen, last alert
    lastStatus, \* _last_status of the notifier
    advertised, \* _active
    timer,      \* _pending: a debounced broadcast is due
    duties,     \* requests that saved and have not refreshed yet
    line,       \* tasks waiting for the lock, in their order
    holder,     \* the task that holds it and the clients it still sends to
    panes,      \* _panes: the list a flip sends again, 0 = none yet
    wire,       \* frames to each client
    conn,       \* "off", "hello", "registered", "on"
    knows,      \* what a runtime has: capability, list and last frame
    draft,      \* each editor: the document it was opened on, open or not
    alert,      \* the alert of a block: who sends it
    unseen,     \* a save replaced a document its editor did not show
    used        \* what the bounds count

ownerVars == <<doc, token, detail, lastStatus, advertised, timer, duties, line, holder, panes, wire, conn, knows, draft, alert, unseen, used>>

Status == [token |-> token, active |-> doc.on /\ token, detail |-> detail]
Frame == [doc |-> doc, status |-> Status]
Free == [kind |-> "free", who |-> {}, list |-> 0]
Registered == {c \in Clients : conn[c] \in {"registered", "on"}}
Changes == used.changes + used.edits

NoAlert == [open |-> FALSE, at |-> 0, bridge |-> "none", by |-> [c \in Clients |-> "none"]]

TypeOK ==
  /\ doc.rev \in 0..MaxChanges /\ {doc.on, token, advertised, timer, unseen} \subseteq BOOLEAN
  /\ duties \in 0..MaxChanges /\ panes \in 0..MaxLists
  /\ holder.kind \in {"free", "cast", "stream", "hello"} /\ holder.who \subseteq Clients
  /\ conn \in [Clients -> {"off", "hello", "registered", "on"}]
  /\ \A c \in Clients : conn[c] = "off" => wire[c] = << >>

Init ==
  /\ \E on, t \in BOOLEAN : doc = [rev |-> IF on THEN 1 ELSE 0, on |-> on] /\ token = t
  /\ detail = 0 /\ lastStatus = Status /\ advertised = Status.active
  /\ timer = FALSE /\ duties = 0 /\ line = << >> /\ holder = Free /\ panes = 0
  /\ wire = [c \in Clients |-> << >>] /\ conn = [c \in Clients |-> "off"]
  /\ knows = [c \in Clients |-> [cap |-> FALSE, list |-> 0, frame |-> Frame]]
  /\ draft = [e \in Editors |-> [open |-> FALSE, doc |-> doc]]
  /\ alert = NoAlert /\ unseen = FALSE
  /\ used = [changes |-> IF doc.on THEN 1 ELSE 0, edits |-> 0, reports |-> 0, lists |-> 0, restarts |-> 0, alerts |-> 0,
             connects |-> [c \in Clients |-> 0]]
----------------------------------------------------------------------------
(* The document, the token and the status. *)

\* An editor opens on the frame its runtime has.
Open(c, e) ==
  /\ conn[c] = "on" /\ ~draft[e].open
  /\ draft' = [draft EXCEPT ![e] = [open |-> TRUE, doc |-> knows[c].frame.doc]]
  /\ UNCHANGED <<doc, token, detail, lastStatus, advertised, timer, duties, line, holder, panes, wire, conn, knows, alert, unseen, used>>

\* A bug: the revision the save was made on is not looked at.
FreshAlways(base) == base.rev <= doc.rev
\* put: only on the revision the bridge has.
FreshBase(base) == base.rev = doc.rev

\* parse_telegram: what a document may say.
Contents == {"on", "off", "invalid"}
Parses(content) == content # "invalid"

\* telegram_put: stored with the next revision, or refused; the refresh comes
\* after the reply went out.
Save(c, e, content) ==
  /\ draft[e].open /\ conn[c] = "on" /\ used.changes < MaxChanges
  /\ draft' = [draft EXCEPT ![e].open = FALSE]
  /\ IF FreshBase(draft[e].doc) /\ Parses(content)
     THEN /\ doc' = [rev |-> doc.rev + 1, on |-> content = "on"] /\ duties' = duties + 1
          /\ unseen' = (unseen \/ draft[e].doc # doc)
     ELSE UNCHANGED <<doc, duties, unseen>>
  /\ used' = [used EXCEPT !.changes = @ + 1]
  /\ UNCHANGED <<token, detail, lastStatus, advertised, timer, line, holder, panes, wire, conn, knows, alert>>

\* telegram_token: another token, or none; the file is written or the request
\* refused before the reply.
SetToken == token' = TRUE
ClearToken == token' = FALSE
ChangeToken(c) ==
  /\ conn[c] = "on" /\ used.changes < MaxChanges
  /\ SetToken \/ ClearToken
  /\ duties' = duties + 1 /\ used' = [used EXCEPT !.changes = @ + 1]
  /\ UNCHANGED <<doc, detail, lastStatus, advertised, timer, line, holder, panes, wire, conn, knows, draft, alert, unseen>>

\* The token file is changed by hand.
EditToken ==
  /\ used.edits < MaxEdits /\ used' = [used EXCEPT !.edits = @ + 1] /\ token' = ~token
  /\ UNCHANGED <<doc, detail, lastStatus, advertised, timer, duties, line, holder, panes, wire, conn, knows, draft, alert, unseen>>

\* refresh and broadcast of a request that saved: what is pending is folded in.
Refresh ==
  /\ duties > 0 /\ duties' = duties - 1
  /\ lastStatus' = Status /\ timer' = FALSE /\ line' = Append(line, [kind |-> "cast", who |-> {}, list |-> 0])
  /\ UNCHANGED <<doc, token, detail, advertised, holder, panes, wire, conn, knows, draft, alert, unseen, used>>

\* A round of the poller notices a status nobody told.
Poll ==
  /\ lastStatus # Status /\ lastStatus' = Status /\ timer' = TRUE
  /\ UNCHANGED <<doc, token, detail, advertised, duties, line, holder, panes, wire, conn, knows, draft, alert, unseen, used>>

\* The Bot API answers: an error, a chat seen, an alert sent.
Report ==
  /\ used.reports < MaxReports /\ used' = [used EXCEPT !.reports = @ + 1] /\ detail' = detail + 1
  /\ lastStatus' = [Status EXCEPT !.detail = detail'] /\ timer' = TRUE
  /\ UNCHANGED <<doc, token, advertised, duties, line, holder, panes, wire, conn, knows, draft, alert, unseen>>

\* _debounced: the broadcast of what changed.
Debounced ==
  /\ timer /\ timer' = FALSE /\ line' = Append(line, [kind |-> "cast", who |-> {}, list |-> 0])
  /\ UNCHANGED <<doc, token, detail, lastStatus, advertised, duties, holder, panes, wire, conn, knows, draft, alert, unseen, used>>
----------------------------------------------------------------------------
(* The lock, in the order of its waiters. *)

Snapshot(cap, list, last) == [kind |-> "snapshot", cap |-> cap, list |-> list, frame |-> Frame, held |-> last]
StateFrame(last) == [kind |-> "frame", cap |-> FALSE, list |-> 0, frame |-> Frame, held |-> last]
Enqueue(to, msgs) == wire' = [c \in Clients |-> IF c \in to THEN wire[c] \o msgs ELSE wire[c]]
Holds(kind, who, list) == holder' = [kind |-> kind, who |-> who, list |-> list]

\* A bug: the flip is told by the frame alone.
FrameOnly == <<StateFrame(TRUE)>>
\* _broadcast_locked: a capability that changed goes out first, with the list.
CastMessages ==
  IF Status.active # advertised /\ panes # 0
  THEN <<Snapshot(Status.active, panes, FALSE), StateFrame(TRUE)>>
  ELSE <<StateFrame(TRUE)>>

Cast ==
  /\ Head(line).kind = "cast"
  /\ Enqueue(Registered, CastMessages) /\ advertised' = Status.active /\ Holds("cast", Registered, 0)
\* _broadcast: a new list, with the capability of now.
Fan ==
  /\ Head(line).kind = "stream"
  /\ Enqueue(Registered, <<Snapshot(advertised, Head(line).list, TRUE)>>)
  /\ Holds("stream", Registered, Head(line).list) /\ UNCHANGED advertised
\* _serve_connection: the first snapshot.
Hello ==
  /\ Head(line).kind = "hello"
  /\ Enqueue(Head(line).who, <<Snapshot(advertised, 0, TRUE)>>)
  /\ Holds("hello", Head(line).who, 0) /\ UNCHANGED advertised

Acquire ==
  /\ line # << >> /\ holder.kind = "free" /\ line' = Tail(line)
  /\ Cast \/ Fan \/ Hello
  /\ UNCHANGED <<doc, token, detail, lastStatus, timer, duties, panes, conn, knows, draft, alert, unseen, used>>

\* Everything was sent: the list becomes the one a flip repeats.
Release ==
  /\ holder.kind \in {"cast", "stream"} /\ holder.who = {} /\ holder' = Free
  /\ panes' = IF holder.kind = "stream" THEN holder.list ELSE panes
  /\ UNCHANGED <<doc, token, detail, lastStatus, advertised, timer, duties, line, wire, conn, knows, draft, alert, unseen, used>>

\* The agents changed.
List ==
  /\ used.lists < MaxLists /\ used' = [used EXCEPT !.lists = @ + 1]
  /\ holder.kind # "stream" /\ \A i \in DOMAIN line : line[i].kind # "stream"
  /\ line' = Append(line, [kind |-> "stream", who |-> {}, list |-> used'.lists])
  /\ UNCHANGED <<doc, token, detail, lastStatus, advertised, timer, duties, holder, panes, wire, conn, knows, draft, alert, unseen>>
----------------------------------------------------------------------------
(* The connections. *)

Connect(c) ==
  /\ conn[c] = "off" /\ used.connects[c] < MaxConnects
  /\ used' = [used EXCEPT !.connects[c] = @ + 1]
  /\ conn' = [conn EXCEPT ![c] = "hello"]
  /\ line' = Append(line, [kind |-> "hello", who |-> {c}, list |-> 0])
  /\ UNCHANGED <<doc, token, detail, lastStatus, advertised, timer, duties, holder, panes, wire, knows, draft, alert, unseen>>

\* The next frame reaches the runtime.  The last one of a task that holds the
\* lock lets it go on; a first snapshot registers the connection.
Deliver(c) ==
  /\ wire[c] # << >>
  /\ LET m == Head(wire[c]) IN
       /\ wire' = [wire EXCEPT ![c] = Tail(@)]
       /\ knows' = [knows EXCEPT ![c] =
            IF m.kind = "frame" THEN [@ EXCEPT !.frame = m.frame]
            ELSE [@ EXCEPT !.cap = m.cap, !.list = IF m.list = 0 THEN @ ELSE m.list]]
       /\ IF m.held /\ holder.kind = "hello"
          THEN holder' = Free /\ conn' = [conn EXCEPT ![c] = "registered"]
          ELSE holder' = (IF m.held THEN [holder EXCEPT !.who = @ \ {c}] ELSE holder) /\ conn' = conn
  /\ UNCHANGED <<doc, token, detail, lastStatus, advertised, timer, duties, line, panes, draft, alert, unseen, used>>

\* After the settings the connection gets its first `telegram` frame.
FirstFrame(c) ==
  /\ conn[c] = "registered" /\ conn' = [conn EXCEPT ![c] = "on"]
  /\ Enqueue({c}, <<StateFrame(FALSE)>>)
  /\ UNCHANGED <<doc, token, detail, lastStatus, advertised, timer, duties, line, holder, panes, knows, draft, alert, unseen, used>>

\* A `list` request is answered outside the lock.
Relist(c) ==
  /\ conn[c] = "on" /\ wire[c] = << >> /\ knows[c].cap # advertised
  /\ Enqueue({c}, <<Snapshot(advertised, 0, FALSE)>>)
  /\ UNCHANGED <<doc, token, detail, lastStatus, advertised, timer, duties, line, holder, panes, conn, knows, draft, alert, unseen, used>>

Gone(cs) ==
  /\ conn' = [c \in Clients |-> IF c \in cs THEN "off" ELSE conn[c]]
  /\ wire' = [c \in Clients |-> IF c \in cs THEN << >> ELSE wire[c]]
  /\ knows' = [c \in Clients |-> IF c \in cs THEN [knows[c] EXCEPT !.list = 0] ELSE knows[c]]

\* A send times out or the runtime leaves: nothing waits for it any more.
Disconnect(c) ==
  /\ conn[c] # "off" /\ Gone({c})
  /\ line' = SelectSeq(line, LAMBDA t : t.who # {c})
  /\ holder' = IF holder.kind = "hello" /\ holder.who = {c} THEN Free ELSE [holder EXCEPT !.who = @ \ {c}]
  /\ UNCHANGED <<doc, token, detail, lastStatus, advertised, timer, duties, panes, draft, alert, unseen, used>>

\* The bridge restarts with the document and the token it stored.
Restart ==
  /\ used.restarts < MaxRestarts /\ used' = [used EXCEPT !.restarts = @ + 1]
  /\ Gone(Clients) /\ detail' = 0 /\ lastStatus' = [Status EXCEPT !.detail = 0] /\ advertised' = Status.active
  /\ timer' = FALSE /\ duties' = 0 /\ line' = << >> /\ holder' = Free /\ panes' = 0 /\ alert' = NoAlert
  /\ UNCHANGED <<doc, token, draft, unseen>>
----------------------------------------------------------------------------
(* Alerts. *)

\* Nothing about the Telegram state is under way, and c is connected.
Quiet(c) ==
  /\ conn[c] = "on" /\ wire[c] = << >> /\ panes # 0
  /\ lastStatus = Status /\ ~timer /\ duties = 0 /\ line = << >> /\ holder = Free

\* An agent blocks.
Alert ==
  /\ used.alerts < MaxAlerts /\ used' = [used EXCEPT !.alerts = @ + 1] /\ ~alert.open
  /\ alert' = [open |-> TRUE, at |-> Changes, bridge |-> "due",
               by |-> [c \in Clients |-> IF Quiet(c) THEN "due" ELSE "none"]]
  /\ UNCHANGED <<doc, token, detail, lastStatus, advertised, timer, duties, line, holder, panes, wire, conn, knows, draft, unseen>>

Verdict(sends) == IF sends THEN "sent" ELSE "left"

\* _deliver: the bridge sends with the settings and the token of now.
BridgeDecides ==
  /\ alert.open /\ alert.bridge = "due"
  /\ alert' = [alert EXCEPT !.bridge = Verdict(Status.active)]
  /\ UNCHANGED <<doc, token, detail, lastStatus, advertised, timer, duties, line, holder, panes, wire, conn, knows, draft, unseen, used>>
\* _deliver_alert: a runtime looks at the capability of its latest snapshot.
RuntimeDecides(c) ==
  /\ alert.open /\ alert.by[c] = "due" /\ conn[c] = "on"
  /\ alert' = [alert EXCEPT !.by[c] = Verdict(~knows[c].cap)]
  /\ UNCHANGED <<doc, token, detail, lastStatus, advertised, timer, duties, line, holder, panes, wire, conn, knows, draft, unseen, used>>
Done ==
  /\ alert.open /\ alert.bridge # "due" /\ alert' = NoAlert
  /\ UNCHANGED <<doc, token, detail, lastStatus, advertised, timer, duties, line, holder, panes, wire, conn, knows, draft, unseen, used>>

Next ==
  \/ Refresh \/ Poll \/ Report \/ Debounced \/ EditToken \/ Acquire \/ Release \/ List \/ Restart
  \/ Alert \/ BridgeDecides \/ Done
  \/ \E c \in Clients :
       \/ ChangeToken(c) \/ Connect(c) \/ Deliver(c) \/ FirstFrame(c) \/ Relist(c) \/ Disconnect(c)
       \/ RuntimeDecides(c) \/ \E e \in Editors : Open(c, e) \/ \E content \in Contents : Save(c, e, content)

Spec == Init /\ [][Next]_ownerVars
----------------------------------------------------------------------------
\* Once nothing is under way every runtime knows what the bridge does: its
\* capability and its frame are those of the status.
QuietIsTold ==
  \A c \in Clients : Quiet(c) => knows[c].cap = Status.active /\ knows[c].frame = Frame

\* An alert is sent by the bridge or by the runtime, not by both and not by
\* neither, unless the document or the token changed meanwhile.
OneSends ==
  \A c \in Clients :
    alert.open /\ alert.at = Changes /\ {alert.bridge, alert.by[c]} \subseteq {"sent", "left"}
      => alert.bridge # alert.by[c]

\* A flip repeats the latest list: a runtime's lists only go forward.
ListsGoForward ==
  \A c \in Clients : \A i \in DOMAIN wire[c] :
    LET m == wire[c][i] IN m.list # 0 =>
      m.list >= knows[c].list /\ \A j \in 1..(i - 1) : wire[c][j].list <= m.list

\* A save never replaces a document its editor did not show.
NothingUnseen == ~unseen

TelegramHasOneOwner == QuietIsTold /\ OneSends /\ ListsGoForward /\ NothingUnseen
============================================================================
