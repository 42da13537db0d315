------------------------------- MODULE Banners -------------------------------
(***************************************************************************)
(* When the runtime alerts for one agent and when it takes the banner back *)
(* (live.py).  Transitions are handled on the connector's thread, each      *)
(* alert is delivered by a thread of its own, reminders and deferred "done" *)
(* alerts come from timers.  Banners reach the screen in the order of the   *)
(* feed, see NotifyFeed.                                                    *)
(***************************************************************************)
EXTENDS Integers, Sequences, FiniteSets

CONSTANTS
    MaxTurns,   \* bound: turns of the agent
    RemindMax,  \* REMIND_MAX
    MaxLapses,  \* bound: times the shell's claim lapses
    AtOnce      \* an alert is sent in the step that found it current

\* What the constants must satisfy; the modules that run this one assume it.
AtOnceBoolean == AtOnce \in BOOLEAN

VARIABLES
    agent,     \* what the runtime knows: status and the number of its stretch
    lifecycle, \* the bridge sends lifecycle events
    todo,      \* transitions and answers the connector's thread has to handle
    spent,     \* _answered_episodes
    bannered,  \* _bannered: the events with a banner to withdraw
    threads,   \* notify threads, before or after their locked check
    reminder,  \* _reminders: the episode and how many were sent
    deferred,  \* _pending_done: the short run to alert for later, or 0
    claim,     \* a shell posts the banners
    lapses,
    screen,    \* the shell's banners on the screen
    told,      \* the alerts that were on the screen
    missed     \* banners were left on the screen: nobody to withdraw them

alertVars == <<agent, lifecycle, todo, spent, bannered, threads, reminder, deferred, claim, lapses, screen, told, missed>>

Alerting == {"blocked", "done"}   \* NOTIFY_EVENT_STATUSES
Statuses == Alerting \cup {"working"}
Turns == 0..MaxTurns
Banner == [event : Alerting, ep : Turns]

TypeOK ==
  /\ agent \in [st : Statuses, ep : Turns] /\ lifecycle \in BOOLEAN
  /\ \A i \in DOMAIN todo : todo[i].do \in {"open", "close", "answered"} /\ todo[i].ep \in Turns
  /\ spent \subseteq Turns /\ bannered \subseteq Alerting
  /\ \A t \in threads : t.alert \in Banner /\ t.nth \in 0..RemindMax /\ t.checked \in BOOLEAN
  /\ reminder.sent \in 0..RemindMax /\ reminder.ep \in Turns
  /\ deferred \in Turns /\ claim \in BOOLEAN
  /\ screen \subseteq told /\ told \subseteq Banner /\ missed \in BOOLEAN

NoReminder == [ep |-> 0, sent |-> 0]

Init ==
  /\ agent = [st |-> "working", ep |-> 0] /\ lifecycle \in BOOLEAN
  /\ todo = << >> /\ spent = {} /\ bannered = {} /\ threads = {} /\ reminder = NoReminder
  /\ deferred = 0 /\ claim = TRUE /\ lapses = 0 /\ screen = {} /\ told = {} /\ missed = FALSE
----------------------------------------------------------------------------
(* What happens to the agent. *)

Note(st, ep, do) == IF st \in Alerting THEN <<[do |-> do, event |-> st, ep |-> ep]>> ELSE << >>

\* A bug: the new status is alerted before the old banner is withdrawn.
ChangesAlertFirst(old, new) == Note(new.st, new.ep, "open") \o Note(old.st, old.ep, "close")
\* Every withdrawal comes before the alert of what was entered.
Changes(old, new) == Note(old.st, old.ep, "close") \o Note(new.st, new.ep, "open")

\* The agent's status changes and the runtime's view with it.  A bridge with
\* lifecycle events tells the old episode's end and the new one's start, also
\* of two stretches of one status; otherwise the runtime compares two lists,
\* on the same thread.
Turn(st) ==
  /\ agent.ep < MaxTurns
  /\ st # agent.st \/ st \in Alerting
  /\ lifecycle \/ (st # agent.st /\ todo = << >>)
  /\ agent' = [st |-> st, ep |-> agent.ep + 1]
  /\ todo' = todo \o Changes(agent, agent')
  /\ UNCHANGED <<lifecycle, spent, bannered, threads, reminder, deferred, claim, lapses, screen, told, missed>>

\* The question is answered, here or by another client; the bridge tells both.
Answer ==
  /\ lifecycle /\ agent.st = "blocked" /\ agent.ep \notin spent
  /\ \A i \in DOMAIN todo : todo[i].do # "answered"
  /\ todo' = Append(todo, [do |-> "answered", event |-> "blocked", ep |-> agent.ep])
  /\ spent' \in {spent, spent \cup {agent.ep}}
  /\ UNCHANGED <<agent, lifecycle, bannered, threads, reminder, deferred, claim, lapses, screen, told, missed>>

\* The shell stops polling for a minute, or polls again.
ClaimLapses ==
  /\ claim /\ lapses < MaxLapses /\ claim' = FALSE /\ lapses' = lapses + 1
  /\ UNCHANGED <<agent, lifecycle, todo, spent, bannered, threads, reminder, deferred, screen, told, missed>>
ClaimReturns ==
  /\ ~claim /\ claim' = TRUE
  /\ UNCHANGED <<agent, lifecycle, todo, spent, bannered, threads, reminder, deferred, lapses, screen, told, missed>>
----------------------------------------------------------------------------
(* The connector's thread. *)

\* _withdraw_left: only an event that has a banner is withdrawn, by removing
\* every banner of the agent; without a claim nobody removes them.
Withdraw(event) ==
  /\ bannered' = bannered \ {event}
  /\ IF event \notin bannered THEN UNCHANGED <<screen, missed>>
     ELSE IF claim THEN screen' = {} /\ missed' = FALSE
     ELSE screen' = screen /\ missed' = (missed \/ screen # {})
Unwithdrawn == UNCHANGED <<bannered, screen, missed>>

\* A bug: any newer episode counts.
NewerAny(it) == lifecycle /\ agent.ep # it.ep
\* The agent is already in a newer episode of the same kind.
Newer(it) == lifecycle /\ agent.st = it.event /\ agent.ep # it.ep

Thread(event, ep, nth) == [alert |-> [event |-> event, ep |-> ep], nth |-> nth, checked |-> FALSE]

Settles(it) == todo # << >> /\ Head(todo).do = it /\ todo' = Tail(todo)

\* _ev_closed, and the withdrawals of _notify_entered.
HandleClose ==
  /\ Settles("close")
  /\ LET it == Head(todo) IN
       /\ IF Newer(it) THEN Unwithdrawn ELSE Withdraw(it.event)
       /\ reminder' = IF lifecycle /\ reminder.ep = it.ep THEN NoReminder ELSE reminder
  /\ UNCHANGED <<agent, lifecycle, spent, threads, deferred, claim, lapses, told>>

\* The throttle may swallow an alert; a short run is alerted later or never.
Fates(it) == {"alert", "never"} \cup (IF it.event = "done" THEN {"later"} ELSE {})

\* _ev_blocked and _ev_done, or _fire_notify of what just entered: an alert of
\* an episode the agent is in.
HandleOpen ==
  /\ Settles("open")
  /\ LET it == Head(todo) IN
       IF agent # [st |-> it.event, ep |-> it.ep] THEN UNCHANGED <<threads, reminder, deferred>>
       ELSE /\ reminder' = IF it.event = "blocked" THEN [ep |-> it.ep, sent |-> 0] ELSE reminder
            /\ \E fate \in Fates(it) :
                 /\ threads' = IF fate = "alert" THEN threads \cup {Thread(it.event, it.ep, 0)} ELSE threads
                 /\ deferred' = IF fate = "later" THEN it.ep ELSE deferred
  /\ UNCHANGED <<agent, lifecycle, spent, bannered, claim, lapses, screen, told, missed>>

\* _ev_answered: a banner of the episode the agent is in is withdrawn.
HandleAnswered ==
  /\ Settles("answered")
  /\ LET it == Head(todo) IN
       /\ spent' = spent \cup {it.ep}
       /\ reminder' = IF reminder.ep = it.ep THEN NoReminder ELSE reminder
       /\ IF agent = [st |-> "blocked", ep |-> it.ep] THEN Withdraw("blocked") ELSE Unwithdrawn
  /\ UNCHANGED <<agent, lifecycle, threads, deferred, claim, lapses, told>>
----------------------------------------------------------------------------
(* Timers and notify threads. *)

\* _deferred_done: only while the same "done" still stands.
DeferredDone ==
  /\ deferred # 0
  /\ deferred' = 0
  /\ threads' = IF agent = [st |-> "done", ep |-> deferred]
                THEN threads \cup {Thread("done", deferred, 0)} ELSE threads
  /\ UNCHANGED <<agent, lifecycle, todo, spent, bannered, reminder, claim, lapses, screen, told, missed>>

\* check_reminders: a reminder of an episode that is over is forgotten.
Remind ==
  /\ reminder.ep # 0
  /\ IF agent = [st |-> "blocked", ep |-> reminder.ep] /\ reminder.sent < RemindMax
     THEN /\ reminder' = [reminder EXCEPT !.sent = @ + 1]
          /\ threads' = threads \cup {Thread("blocked", reminder.ep, reminder'.sent)}
     ELSE reminder' = NoReminder /\ UNCHANGED threads
  /\ UNCHANGED <<agent, lifecycle, todo, spent, bannered, deferred, claim, lapses, screen, told, missed>>

\* A bug: the alert only needs the agent in the status.
CurrentStatus(alert) == agent.st = alert.event
\* _alert_current: still in the status; a blocked alert also needs its episode,
\* not answered meanwhile.
AlertCurrent(alert) ==
  /\ agent.st = alert.event
  /\ alert.event = "blocked" => agent.ep = alert.ep /\ alert.ep \notin (IF lifecycle THEN spent ELSE {})

\* The sink of the runtime: the shell's feed while it claims, or osascript,
\* whose banner nobody can remove.
Shown(alert) ==
  IF claim THEN screen' = screen \cup {alert} /\ told' = told \cup {alert}
  ELSE UNCHANGED <<screen, told>>

\* The locked part of _deliver_alert; a focused pane may skip its banner.
Check(t) ==
  /\ ~t.checked
  /\ IF ~AlertCurrent(t.alert)
     THEN threads' = threads \ {t} /\ UNCHANGED <<bannered, screen, told>>
     ELSE /\ bannered' = bannered \cup {t.alert.event}
          /\ IF AtOnce THEN threads' = threads \ {t} /\ Shown(t.alert)
             ELSE /\ threads' = (threads \ {t}) \cup {[t EXCEPT !.checked = TRUE]}
                  /\ UNCHANGED <<screen, told>>
  /\ UNCHANGED <<agent, lifecycle, todo, spent, reminder, deferred, claim, lapses, missed>>

\* notify(), outside the lock.
Send(t) ==
  /\ t.checked /\ threads' = threads \ {t} /\ Shown(t.alert)
  /\ UNCHANGED <<agent, lifecycle, todo, spent, bannered, reminder, deferred, claim, lapses, missed>>

Next ==
  \/ \E st \in Statuses : Turn(st)
  \/ Answer \/ ClaimLapses \/ ClaimReturns
  \/ HandleClose \/ HandleOpen \/ HandleAnswered \/ DeferredDone \/ Remind
  \/ \E t \in threads : Check(t) \/ Send(t)

Spec == Init /\ [][Next]_alertVars
----------------------------------------------------------------------------
Settled == todo = << >> /\ threads = {}

\* Once everything is handled, a banner on the screen is of the status the
\* agent has, and not of a question that was answered.
StaleBannerGone ==
  (Settled /\ ~missed) =>
    \A b \in screen : agent.st = b.event /\ (b.event = "blocked" => agent.ep \notin spent)

\* The banner of what the agent is in, once shown, stays until it is answered:
\* no withdrawal of an older banner takes it away.
FreshBannerStays ==
  LET now == [event |-> agent.st, ep |-> agent.ep] IN
    (Settled /\ now \in told /\ agent.ep \notin spent) => now \in screen

BannersAreTrue == StaleBannerGone /\ FreshBannerStays
============================================================================
