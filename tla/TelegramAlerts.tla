---------------------------- MODULE TelegramAlerts ----------------------------
(***************************************************************************)
(* The Telegram alerts the bridge sends itself (bridge_notify.py) and the   *)
(* taps on their buttons (telegram.py), for one agent.  The agent blocks,   *)
(* asks several questions in one episode and is answered at its terminal,   *)
(* by a client, by a tap or by a reply to its alert; the event hub learns   *)
(* of it later.  Alerts and reminders are tasks that wait for the prompt    *)
(* and for the Bot API.                                                     *)
(***************************************************************************)
EXTENDS Integers, FiniteSets

CONSTANTS
    MaxQuestions,  \* bound: questions the agent asks
    MaxAlerts,     \* bound: alerts
    MaxRestarts,   \* bound: restarts of the bridge
    RemindMax,     \* REMIND_MAX; 0: remind_after is off
    Confirms,      \* what safety.require_confirm_for names of "answer", "stop"
    PromptKnown    \* the hub has read the prompt before it tells of the block

\* What the constants must satisfy; the modules that run this one assume it.
PromptKnownBoolean == PromptKnown \in BOOLEAN

VARIABLES
    now,      \* the agent: its block episode and the question it asks, or 0
    asked,    \* questions and episodes so far
    hub,      \* the open episode of the event hub: id, prompt, answered prompt
    known,    \* _known: episodes whose open event was handled
    prompt,   \* _prompts: episode and revision of the latest blocked event
    answered, \* _answered of the notifier
    tasks,    \* alert tasks in flight
    record,   \* the live alert: its message id and the claim pinned to it
    chat,     \* what each message sent shows, 0 = no prompt
    alerted,  \* alerts begun, by episode
    answers,  \* answers the hub recorded, by episode
    hits,     \* taps that were sent: [shown, current by the hub]
    begun,    \* alerts begun, the number of the latest
    reminder, \* _reminders: the episode and the reminders it had
    reminded, \* reminders begun, by episode
    armed,    \* _pending_confirm
    waiting,  \* an answer that waits for the hub to read the prompt
    restarts

telegramVars == <<now, asked, hub, known, prompt, answered, tasks, record, chat, alerted, answers, hits, begun, reminder, reminded, armed, waiting, restarts>>
reminders == <<reminder, reminded>>
presses == <<armed, waiting>>

Questions == 0..MaxQuestions   \* 0: none, or not read yet
Ids == 1..MaxAlerts
Claim == [ep : Questions, rev : Questions, ans : Questions]
NoEpisode == [ep |-> 0, rev |-> 0, ans |-> 0]
NoRecord == [id |-> 0, claim |-> NoEpisode, sent |-> FALSE]
NoReminder == [ep |-> 0, sent |-> 0]
NoWait == [shown |-> 0, claim |-> NoEpisode]

TypeOK ==
  /\ now \in [ep : Questions, q : Questions] /\ asked \in [q : Questions, ep : Questions]
  /\ hub \in Claim /\ known \subseteq Questions /\ answered \subseteq Questions
  /\ prompt \in [ep : Questions, rev : Questions]
  /\ \A t \in tasks : t.id \in Ids /\ t.stage \in {"start", "read", "pin", "send"} /\ t.text \in Questions
  /\ record.id \in 0..MaxAlerts /\ record.claim \in Claim /\ record.sent \in BOOLEAN
  /\ DOMAIN chat \subseteq 1..begun /\ begun \in 0..MaxAlerts
  /\ restarts \in 0..MaxRestarts
  /\ reminder \in [ep : Questions, sent : 0..RemindMax] /\ reminded \in [Questions -> 0..MaxAlerts]
  /\ armed \in {"none", "answer", "stop"} /\ waiting \in [shown : Questions, claim : Claim]

Init ==
  /\ now = [ep |-> 0, q |-> 0] /\ asked = [q |-> 0, ep |-> 0] /\ hub = NoEpisode
  /\ known = {} /\ prompt = [ep |-> 0, rev |-> 0] /\ answered = {} /\ tasks = {}
  /\ record = NoRecord /\ chat = << >> /\ hits = {} /\ begun = 0 /\ restarts = 0
  /\ alerted = [e \in Questions |-> 0] /\ answers = [e \in Questions |-> 0]
  /\ reminder = NoReminder /\ reminded = [e \in Questions |-> 0]
  /\ armed = "none" /\ waiting = NoWait

----------------------------------------------------------------------------
(* The agent and the event hub, see EventHub. *)

Ask(ep) ==
  /\ asked.q < MaxQuestions
  /\ now' = [ep |-> ep, q |-> asked.q + 1]
  /\ asked' = [q |-> asked.q + 1, ep |-> ep]
Leave == now' = [ep |-> 0, q |-> 0] /\ asked' = asked

\* The agent blocks; at its terminal a question is answered, which leads to
\* another one or ends the episode.
Block ==
  /\ now.q = 0 /\ Ask(asked.ep + 1)
  /\ UNCHANGED <<hub, known, prompt, answered, tasks, record, chat, alerted, answers, hits, begun, reminders, presses, restarts>>
Typed ==
  /\ now.q # 0
  /\ Ask(now.ep) \/ Leave
  /\ UNCHANGED <<hub, known, prompt, answered, tasks, record, chat, alerted, answers, hits, begun, reminders, presses, restarts>>

\* An alert task is created.
Spawn(ep) ==
  /\ begun < MaxAlerts /\ begun' = begun + 1
  /\ tasks' = tasks \cup {[id |-> begun', ep |-> ep, stage |-> "start", text |-> 0]}

\* A bug: every blocked event with a new prompt reopens the episode.
ReopensEvery(ep, rev) == prompt.ep = ep /\ prompt.rev # rev
\* The episode asks a new question after it was answered.
Reopens(ep, rev) == prompt.ep = ep /\ prompt.rev # rev /\ ep \in answered

\* _track_reminder: the reminders of an earlier alert are cancelled; those that
\* fell due since the pane blocked are not sent late.
TrackReminder(ep) ==
  IF RemindMax = 0 THEN UNCHANGED reminder
  ELSE \E late \in 0..RemindMax : reminder' = [ep |-> ep, sent |-> late]
CancelReminder(ep) == reminder' = IF reminder.ep = ep THEN NoReminder ELSE reminder

\* _fire: its reminders are tracked first, then the throttle may swallow the
\* alert itself.
Fire(ep) ==
  /\ TrackReminder(ep)
  /\ \/ Spawn(ep) /\ alerted' = [alerted EXCEPT ![ep] = @ + 1]
     \/ UNCHANGED <<begun, tasks, alerted>>

\* _ev_blocked: the first event of an episode alerts, and one that reopens it.
OnBlocked(ep, rev) ==
  /\ prompt' = [ep |-> ep, rev |-> rev] /\ known' = known \cup {ep}
  /\ answered' = IF Reopens(ep, rev) THEN answered \ {ep} ELSE answered
  /\ IF ep \notin known \/ Reopens(ep, rev) THEN Fire(ep)
     ELSE UNCHANGED <<begun, tasks, alerted, reminder>>

\* The hub tells of a block, with the prompt when its read is in.
Announce ==
  /\ hub.ep = 0 /\ now.q # 0
  /\ \E rev \in {now.q} \cup (IF PromptKnown THEN {} ELSE {0}) :
       /\ hub' = [ep |-> now.ep, rev |-> rev, ans |-> 0]
       /\ OnBlocked(now.ep, rev)
  /\ UNCHANGED <<now, asked, record, chat, answers, hits, reminded, presses, restarts>>

\* The hub reads a prompt that changed, and tells.
Reread ==
  /\ hub.ep = now.ep /\ now.q \notin {0, hub.rev}
  /\ hub' = [hub EXCEPT !.rev = now.q] /\ OnBlocked(now.ep, now.q)
  /\ UNCHANGED <<now, asked, record, chat, answers, hits, reminded, presses, restarts>>

\* The episode is over: its prompt is forgotten.
Unblocked ==
  /\ hub.ep \notin {0, now.ep} /\ hub' = NoEpisode
  /\ prompt' = IF prompt.ep = hub.ep THEN [ep |-> 0, rev |-> 0] ELSE prompt
  /\ CancelReminder(hub.ep)
  /\ UNCHANGED <<now, asked, known, answered, tasks, record, chat, alerted, answers, hits, begun, reminded, presses, restarts>>

\* An answer through the bridge was typed: the hub records it, and tells.
Answered ==
  /\ hub.ep # 0 /\ hub.ep = now.ep
  /\ hub' = [hub EXCEPT !.ans = hub.rev]
  /\ answered' = answered \cup {hub.ep} /\ answers' = [answers EXCEPT ![hub.ep] = @ + 1]
  /\ CancelReminder(hub.ep)
  /\ Ask(now.ep) \/ Leave

\* A client answers what the hub shows.
ClientAnswers ==
  /\ hub.rev # 0 /\ hub.rev # hub.ans /\ Answered
  /\ UNCHANGED <<known, prompt, tasks, record, chat, alerted, hits, begun, reminded, presses, restarts>>

\* The bridge restarts: what is open was alerted by whoever ran before.
Restart ==
  /\ restarts < MaxRestarts /\ restarts' = restarts + 1
  /\ hub' = NoEpisode /\ known' = {now.ep} \ {0} /\ answered' = {} /\ prompt' = [ep |-> 0, rev |-> 0]
  /\ tasks' = {} /\ record' = NoRecord /\ reminder' = NoReminder /\ armed' = "none" /\ waiting' = NoWait
  /\ UNCHANGED <<now, asked, begun, chat, alerted, answers, hits, reminded>>

\* A reminder falls due: it is an alert of its own, unless its episode ended,
\* was answered, or had them all.
ReminderDue ==
  /\ reminder.ep # 0
  /\ IF hub.ep # reminder.ep \/ reminder.ep \in answered \/ reminder.sent >= RemindMax
     THEN reminder' = NoReminder /\ UNCHANGED <<begun, tasks, reminded>>
     ELSE /\ Spawn(reminder.ep) /\ reminded' = [reminded EXCEPT ![reminder.ep] = @ + 1]
          /\ reminder' = IF reminder.sent + 1 = RemindMax THEN NoReminder ELSE [reminder EXCEPT !.sent = @ + 1]
  /\ UNCHANGED <<now, asked, hub, known, prompt, answered, record, chat, alerted, answers, hits, presses, restarts>>
----------------------------------------------------------------------------
(* The alert tasks. *)

Reads(t) == [t EXCEPT !.stage = "read"]
Step(t, u) == tasks' = (tasks \ {t}) \cup {u}
Dropped(t) == tasks' = tasks \ {t} /\ UNCHANGED chat

\* answer_claim: the question of the open episode, as the hub has it.
HubClaim == hub

\* _deliver and notify_blocked up to the read: a new record takes the place of
\* the old one.  A prompt the hub has is taken and pinned at once.
Start(t) ==
  /\ t.stage = "start"
  /\ IF hub.ep # t.ep \/ t.ep \in answered THEN Dropped(t) /\ UNCHANGED record
     ELSE /\ IF hub.rev # 0
             THEN /\ Step(t, [t EXCEPT !.stage = "send", !.text = hub.rev])
                  /\ record' = [id |-> t.id, claim |-> HubClaim, sent |-> FALSE]
             ELSE Step(t, Reads(t)) /\ record' = [id |-> t.id, claim |-> NoEpisode, sent |-> FALSE]
          /\ UNCHANGED chat
  /\ UNCHANGED <<now, asked, hub, known, prompt, answered, alerted, answers, hits, begun, reminders, presses, restarts>>

\* The pane is read; the task goes on later and pins the question then.
Read(t) ==
  /\ t.stage = "read" /\ Step(t, [t EXCEPT !.stage = "pin", !.text = now.q])
  /\ UNCHANGED <<now, asked, hub, known, prompt, answered, record, chat, alerted, answers, hits, begun, reminders, presses, restarts>>
Pin(t) ==
  /\ t.stage = "pin" /\ Step(t, [t EXCEPT !.stage = "send"])
  /\ record' = IF record.id = t.id THEN [record EXCEPT !.claim = HubClaim] ELSE record
  /\ UNCHANGED <<now, asked, hub, known, prompt, answered, chat, alerted, answers, hits, begun, reminders, presses, restarts>>

\* sendMessage returned: the message belongs to its record, unless a newer
\* alert has replaced that.  When it failed the record goes.
Sent(t) ==
  /\ t.stage = "send" /\ tasks' = tasks \ {t}
  /\ chat' = [id \in DOMAIN chat \cup {t.id} |-> IF id = t.id THEN t.text ELSE chat[id]]
  /\ record' = IF record.id = t.id THEN [record EXCEPT !.sent = TRUE] ELSE record
  /\ UNCHANGED <<now, asked, hub, known, prompt, answered, alerted, answers, hits, begun, reminders, presses, restarts>>
SendFails(t) ==
  /\ t.stage = "send" /\ Dropped(t)
  /\ record' = IF record.id = t.id THEN NoRecord ELSE record
  /\ UNCHANGED <<now, asked, hub, known, prompt, answered, alerted, answers, hits, begun, reminders, presses, restarts>>
----------------------------------------------------------------------------
(* A tap, or a reply. *)

\* A bug: a claim is stale only when its episode ended.
StaleEpisode(claim) == hub.ep = 0 \/ claim.ep # hub.ep
\* _claim_stale: the episode ended, its prompt changed, or it was answered.
Stale(claim) ==
  \/ hub.ep = 0 \/ claim.ep # hub.ep
  \/ claim.rev # 0 /\ hub.rev # 0 /\ claim.rev # hub.rev
  \/ claim.ans # hub.ans

\* The message of the live record.
Shows(id) == id = record.id /\ record.sent

\* An action that needs it is confirmed by a second tap in time, whatever
\* message that is a tap at.
Confirmed(action) == action \in Confirms => armed = action
Arm(id, action) ==
  /\ Shows(id) /\ ~Stale(record.claim) /\ ~Confirmed(action)
  /\ armed' = action
  /\ UNCHANGED <<now, asked, hub, known, prompt, answered, tasks, record, chat, alerted, answers, hits, begun, reminders, waiting, restarts>>
Disarm ==
  /\ armed # "none" /\ armed' = "none"
  /\ UNCHANGED <<now, asked, hub, known, prompt, answered, tasks, record, chat, alerted, answers, hits, begun, reminders, waiting, restarts>>

\* begin_answer refuses an answer of a claim.
Refuses(claim) ==
  \/ hub.ep = 0 \/ claim.ep # hub.ep
  \/ hub.ans # 0 /\ (hub.rev = hub.ans \/ claim.rev \notin {0, hub.rev, hub.ans})

\* An answer of a claim passes the gate and is typed, if the agent still waits.
Answers(shown, claim, waited) ==
  IF Refuses(claim) \/ now.ep # hub.ep
  THEN UNCHANGED <<now, asked, hub, answered, answers, reminder, hits>>
  ELSE hits' = hits \cup {[shown |-> shown, current |-> hub.rev, waited |-> waited]} /\ Answered

\* An answer from a message goes to the gate; that reads the prompt first when
\* it does not know it, or knows only the answered one.
Submit(id) ==
  IF hub.rev \in {0, hub.ans}
  THEN /\ waiting' = [shown |-> chat[id], claim |-> record.claim]
       /\ UNCHANGED <<now, asked, hub, answered, answers, reminder, hits>>
  ELSE Answers(chat[id], record.claim, FALSE) /\ UNCHANGED waiting

\* "Approve" or "Deny" at a message: the record is done with, sent or stale.
Tap(id) ==
  /\ Shows(id) /\ waiting = NoWait /\ record' = NoRecord
  /\ IF Stale(record.claim)
     THEN UNCHANGED <<now, asked, hub, answered, answers, reminder, hits, presses>>
     ELSE Confirmed("answer") /\ armed' = "none" /\ Submit(id)
  /\ UNCHANGED <<known, prompt, tasks, chat, alerted, begun, reminded, restarts>>
\* A text in reply to a message, which stays answerable.
SendText(id) == ~Stale(record.claim) /\ Submit(id)
Reply(id) ==
  /\ Shows(id) /\ waiting = NoWait /\ SendText(id)
  /\ UNCHANGED <<known, prompt, tasks, record, chat, alerted, begun, reminded, armed, restarts>>
\* The prompt was read for the answer that waits, see Reread, or the read failed.
Settle ==
  /\ waiting # NoWait
  /\ Answers(waiting.shown, waiting.claim, TRUE) /\ waiting' = NoWait
  /\ UNCHANGED <<known, prompt, tasks, record, chat, alerted, begun, reminded, armed, restarts>>

\* "Stop": the keys go past the gate, whatever the agent is at.
Stop(id) ==
  /\ Shows(id) /\ waiting = NoWait /\ ~Stale(record.claim) /\ Confirmed("stop")
  /\ record' = NoRecord /\ armed' = "none"
  /\ hits' = hits \cup {[shown |-> chat[id], current |-> hub.rev, waited |-> FALSE]}
  /\ IF now.q = 0 THEN UNCHANGED <<now, asked>> ELSE Ask(now.ep) \/ Leave
  /\ UNCHANGED <<hub, known, prompt, answered, tasks, chat, alerted, answers, begun, reminders, waiting, restarts>>

\* "Read again": the message shows the prompt and is pinned anew.
ReadAgain(id) ==
  /\ Shows(id) /\ hub.rev # 0 /\ waiting = NoWait
  /\ chat' = [chat EXCEPT ![id] = hub.rev]
  /\ record' = [record EXCEPT !.claim = HubClaim] /\ armed' = "none"
  /\ UNCHANGED <<now, asked, hub, known, prompt, answered, tasks, alerted, answers, hits, begun, reminders, waiting, restarts>>

\* Before every update: the record of an agent that is not blocked is dropped.
Prune ==
  /\ record # NoRecord /\ hub.ep = 0 /\ waiting = NoWait /\ record' = NoRecord
  /\ UNCHANGED <<now, asked, hub, known, prompt, answered, tasks, chat, alerted, answers, hits, begun, reminders, presses, restarts>>

Next ==
  \/ Block \/ Typed \/ Announce \/ Reread \/ Unblocked \/ ClientAnswers \/ Restart \/ ReminderDue
  \/ \E t \in tasks : Start(t) \/ Read(t) \/ Pin(t) \/ Sent(t) \/ SendFails(t)
  \/ \E id \in DOMAIN chat :
       \/ Tap(id) \/ Reply(id) \/ Stop(id) \/ ReadAgain(id)
       \/ \E action \in Confirms : Arm(id, action)
  \/ Settle \/ Disarm \/ Prune

Spec == Init /\ [][Next]_telegramVars
----------------------------------------------------------------------------
\* A tap is never sent once the bridge knows that the question its message
\* shows was answered or replaced by a later one.
TapAnswersWhatItShows == \A h \in hits : h.shown # 0 /\ ~h.waited => h.current <= h.shown

\* An episode is alerted once, and once more for each answer it took: the same
\* question is not alerted again, over new prompts and restarts.
AlertedPerAnswer == \A ep \in Questions : alerted[ep] <= 1 + answers[ep]

\* An episode is reminded of at most so often, and as often again for each answer
\* that led to another question, over new prompts and restarts.
RemindedPerAnswer == \A ep \in Questions : reminded[ep] <= RemindMax * (1 + answers[ep])

AlertsAreOfTheQuestion == TapAnswersWhatItShows /\ AlertedPerAnswer /\ RemindedPerAnswer
============================================================================
