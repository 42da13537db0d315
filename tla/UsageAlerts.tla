----------------------------- MODULE UsageAlerts -----------------------------
(***************************************************************************)
(* The usage alerts of one provider window (usage_alerts.py, and the       *)
(* trackers of usage_hub.py).  The window fills and resets; the deck's own *)
(* poller and the bridges each poll it at their own times, and each is     *)
(* judged by a tracker: the poller by its own, a bridge by the hub's       *)
(* tracker of that bridge's alert settings.                                *)
(***************************************************************************)
EXTENDS Integers, FiniteSets, FiniteSetsExt

CONSTANTS
    Servers,      \* the bridges, 1..n in config order
    Levels,       \* the usage levels, 1 up to the full window
    LevelsOf,     \* alert_at of each server's shared settings
    OwnLevels,    \* this runtime's alert_at
    Lags,         \* TRUE: a poller may know an older value than another
    Dated,        \* {TRUE}: every reading has a reset time; BOOLEAN: some have none
    PeriodDrop,   \* _PERIOD_DROP: how much less was used, for a new period without one
    MaxNow,       \* bound: periods of the window
    MaxSwitches   \* bound: changes of what the bridges offer

\* What the constants must satisfy; the modules that run this one assume it.
LevelsOfType == LevelsOf \in [Servers -> SUBSET Levels] /\ OwnLevels \subseteq Levels

VARIABLES
    usedNow,   \* [period, used]: the window at the provider
    polled,    \* what each poller last read, 0 standing for the deck's own
    live,      \* the servers that offer usage
    judging,   \* "local", or "bridge": the hub's mode
    trackers,  \* the tracker of each alert_at in use; the poller's under "own"
    alertCount,  \* alerts sent: [kind, period, level] -> how often
    switches   \* changes of `live` so far

alertVars == <<usedNow, polled, live, judging, trackers, alertCount, switches>>

Zero == 0
Pollers == {Zero} \cup Servers
Periods == 0..MaxNow
Readings == [period : Periods, used : {Zero} \cup Levels]
Signs == {LevelsOf[s] : s \in Servers}
Keys == {<<"own", OwnLevels>>} \cup {<<"hub", sig>> : sig \in Signs}

NoState == [period |-> -1, dated |-> FALSE, used |-> 0, fired |-> {}, armed |-> FALSE, told |-> FALSE]
Alerts == {"threshold", "reset"} \X Periods \X ({Zero} \cup Levels)

TypeOK ==
  /\ usedNow \in Readings /\ polled \in [Pollers -> Readings]
  /\ live \subseteq Servers /\ judging \in {"local", "bridge"}
  /\ \A k \in Keys : trackers[k] = NoState \/
       trackers[k] \in [period : Periods, dated : BOOLEAN, used : {Zero} \cup Levels, fired : SUBSET Levels,
                        armed : BOOLEAN, told : BOOLEAN]
  /\ alertCount \in [Alerts -> 0..2] /\ switches \in 0..MaxSwitches

Nothing == [period |-> 0, used |-> 0]

Init ==
  /\ usedNow = Nothing /\ polled = [p \in Pollers |-> Nothing]
  /\ live = {} /\ judging = "local" /\ switches = 0
  /\ trackers = [k \in Keys |-> NoState] /\ alertCount = [a \in Alerts |-> 0]
----------------------------------------------------------------------------
\* The engine.  A period p resets at time p + 1.  A reading is of a period and
\* `dated` when it has the reset time; a tracker sees the period only then.

Now == usedNow.period
Reading(r, d) == [period |-> r.period, used |-> r.used, dated |-> d]
ResetLevel(levels) == IF levels = {} THEN Max(Levels) ELSE Max(levels)

\* The first observation: whatever is crossed stays crossed, silently.
Baseline(r, levels) ==
  [period |-> r.period, dated |-> r.dated, used |-> r.used, fired |-> {l \in levels : l <= r.used},
   armed |-> r.used >= ResetLevel(levels), told |-> r.dated /\ r.period < Now]

\* _new_period: a later reset time starts a period; where one is not known, a
\* drop of what is used, so that a window refilled early is not noticed.
NewPeriod(st, r) ==
  IF r.dated /\ st.dated THEN r.period > st.period ELSE r.used + PeriodDrop < st.used

Fired(st, r) == IF NewPeriod(st, r) THEN {} ELSE st.fired

Crossed(st, r, levels) == {l \in levels : l <= r.used /\ l \notin Fired(st, r)}

\* _observe_window: the state after a reading, and the alerts it sends.  An
\* older reading than the tracker's leaves its reset time at the older one.
Judged(st, r, levels) ==
  IF st = NoState THEN [state |-> Baseline(r, levels), sends |-> {}]
  ELSE [state |-> [period |-> r.period, dated |-> r.dated, used |-> r.used,
                   fired |-> Fired(st, r) \cup Crossed(st, r, levels),
                   armed |-> (~NewPeriod(st, r) /\ st.armed) \/ r.used >= ResetLevel(levels),
                   told |-> ~NewPeriod(st, r) /\ st.told],
        sends |-> (IF Crossed(st, r, levels) = {} THEN {}
                   ELSE {<<"threshold", r.period, Max(Crossed(st, r, levels))>>})
                  \cup (IF NewPeriod(st, r) /\ st.armed /\ ~st.told
                        THEN {<<"reset", st.period, ResetLevel(levels)>>} ELSE {})]

\* observe: the reading if there is one, then the resets the clock makes due.
Observed(st, rs, levels) ==
  LET j == IF rs = {} THEN [state |-> st, sends |-> {}]
           ELSE Judged(st, CHOOSE r \in rs : TRUE, levels)
      due == /\ j.state # NoState /\ j.state.armed /\ ~j.state.told
             /\ j.state.dated /\ Now > j.state.period
  IN [state |-> IF due THEN [j.state EXCEPT !.told = TRUE] ELSE j.state,
      sends |-> j.sends \cup (IF due THEN {<<"reset", j.state.period, ResetLevel(levels)>>} ELSE {})]

Sends(alerts) ==
  alertCount' = [a \in Alerts |-> IF a \in alerts /\ alertCount[a] < 2 THEN alertCount[a] + 1
                                  ELSE alertCount[a]]
----------------------------------------------------------------------------
\* The provider, and what reaches the deck.

Reach(r) == polled' = IF Lags THEN polled ELSE [p \in Pollers |-> r]
Use ==
  /\ \E u \in Levels : u > usedNow.used /\ usedNow' = [usedNow EXCEPT !.used = u] /\ Reach(usedNow')
  /\ UNCHANGED <<live, judging, trackers, alertCount, switches>>
Refill ==
  /\ Now < MaxNow /\ usedNow' = [period |-> Now + 1, used |-> 0] /\ Reach(usedNow')
  /\ UNCHANGED <<live, judging, trackers, alertCount, switches>>

\* A bridge polls the provider; its frame reaches the hub.
BridgePolls(s) ==
  /\ polled[s] # usedNow /\ polled' = [polled EXCEPT ![s] = usedNow]
  /\ UNCHANGED <<usedNow, live, judging, trackers, alertCount, switches>>

\* poll_once of the deck's own poller, which judges what it read.
OwnPoll ==
  /\ judging = "local"
  /\ polled' = [polled EXCEPT ![Zero] = usedNow]
  /\ \E d \in Dated :
     LET o == Observed(trackers[<<"own", OwnLevels>>], {Reading(usedNow, d)}, OwnLevels) IN
       /\ trackers' = [trackers EXCEPT ![<<"own", OwnLevels>>] = o.state] /\ Sends(o.sends)
  /\ UNCHANGED <<usedNow, live, judging, switches>>

\* An offer comes or is gone (past its grace).  With the first one the hub
\* turns to the bridges with fresh trackers, with the last one gone to a new
\* poller of its own.
\* A bug: the trackers of the last time are still there.
FreshNone(kind) == trackers
Fresh(kind) == [k \in Keys |-> IF k[1] = kind THEN NoState ELSE trackers[k]]
Offer(s) ==
  /\ switches < MaxSwitches /\ switches' = switches + 1
  /\ live' = (live \cup {s}) \ (live \cap {s})
  /\ judging' = IF live' = {} THEN "local" ELSE "bridge"
  /\ trackers' = IF judging' = judging THEN trackers
                 ELSE Fresh(IF judging' = "local" THEN "own" ELSE "hub")
  /\ UNCHANGED <<usedNow, polled, alertCount>>

\* The provider is taken from the first live server; _observe gives it to the
\* tracker of that server's settings, and every other tracker forgets it.
\* A bug: it is not forgotten there.
ForgetsNot(st) == st
Forgets(st) == NoState
HubObserves ==
  /\ judging = "bridge"
  /\ \E d \in Dated :
     LET s == Min(live)
         o == Observed(trackers[<<"hub", LevelsOf[s]>>], {Reading(polled[s], d)}, LevelsOf[s])
     IN /\ trackers' = [k \in Keys |-> IF k = <<"hub", LevelsOf[s]>> THEN o.state
                                      ELSE IF k[1] = "hub" THEN Forgets(trackers[k]) ELSE trackers[k]]
        /\ Sends(o.sends)
  /\ UNCHANGED <<usedNow, polled, live, judging, switches>>

Next ==
  \/ Use \/ Refill \/ OwnPoll \/ HubObserves
  \/ \E s \in Servers : BridgePolls(s) \/ Offer(s)

Spec == Init /\ [][Next]_alertVars
----------------------------------------------------------------------------
\* A level, and the reset of a full window, is announced once in a period,
\* however often the deck turns from its own poller to a bridge, and from the
\* settings of one bridge to those of another.
AnnouncedOnce == \A a \in Alerts : alertCount[a] <= 1

\* An alert is of a level the window really reached in that period: nothing is
\* announced for a window that was just refilled.
LevelReached ==
  \A a \in Alerts :
    (a[1] = "threshold" /\ a[2] = Now /\ alertCount'[a] > alertCount[a]) => usedNow.used >= a[3]

ReachedFirst == [][LevelReached]_alertVars
============================================================================
