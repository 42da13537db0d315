------------------------------ MODULE Subagents ------------------------------
(***************************************************************************)
(* The subagents of one pane.  Hook processes of the agent fold its events *)
(* into the pane's spool file under a lock, in whatever order they get it, *)
(* and report a "running/total" badge to herdr after the lock; hooks get   *)
(* lost.  A spool is of one session of the pane, whichever hook names one. *)
(* The bridge finishes what the transcripts say is over, and        *)
(* applies the stale rules when it reads (subagent_hook.py, _reconcile.py, *)
(* _spool.py).                                                             *)
(***************************************************************************)
EXTENDS Integers, FiniteSets, FiniteSetsExt

CONSTANTS
    Agents,       \* subagent ids
    MaxEntries,   \* MAX_ENTRIES
    StaleAfter,   \* STALE_AFTER_MS in ticks
    DropAfter,    \* DROP_STALE_AFTER_MS in ticks
    MaxNow,       \* bound: ticks
    MaxBeats,     \* bound: heartbeats and session starts
    MaxTroubles   \* bound: hooks that are lost, reports that fail

\* What the constants must satisfy; the modules that run this one assume it.
StaleBeforeDrop == StaleAfter < DropAfter

VARIABLES
    ticks,
    subagent,  \* each subagent itself: not started, at work, ended, or of a session that was left
    session,   \* the session of the pane, counted
    hooks,     \* hook processes that wait for the lock
    spoolOf,   \* the spool's "session_id", or NoSession
    entries,   \* the spool's entries: [status, seen], status "absent" without one
    reported,  \* the spool's "reported" token: [running, total], or NoToken
    sending,   \* tokens hook processes are about to report
    badge,     \* the token herdr shows
    pass,      \* the bridge's reconcile pass: idle, or about to report or mark a token
    beats,     \* heartbeats and session starts so far
    troubles,  \* hooks lost and reports failed so far
    doubt      \* history: the last report to herdr failed, or was not the only one under way

subagentVars == <<ticks, subagent, session, hooks, spoolOf, entries, reported, sending, badge, pass,
                  beats, troubles, doubt>>
agentVars == <<subagent, session>>
spoolVars == <<spoolOf, entries>>

NoToken == [running |-> 0 - 1, total |-> 0]
Absent == [status |-> "absent", seen |-> 0]
NoSession == 0
Sessions == 1..MaxBeats + 1
Hooks == [kind : {"start", "stop", "beat", "reset", "session"}, id : Agents,
          of : Sessions \cup {NoSession}]
Idle == [pc |-> "idle", token |-> NoToken]

TypeOK ==
  /\ ticks \in 0..MaxNow /\ beats \in 0..MaxBeats /\ troubles \in 0..MaxTroubles /\ doubt \in BOOLEAN
  /\ subagent \in [Agents -> {"none", "works", "ended", "left"}]
  /\ session \in Sessions /\ spoolOf \in Sessions \cup {NoSession}
  /\ hooks \subseteq Hooks /\ reported \in {NoToken} \cup [running : 0..MaxEntries, total : 0..MaxEntries]
  /\ entries \in [Agents -> [status : {"absent", "running", "stale", "done"}, seen : 0..MaxNow]]
  /\ badge \in {NoToken} \cup [running : 0..MaxEntries, total : 0..MaxEntries]
  /\ pass.pc \in {"idle", "report", "mark"}

Init ==
  /\ ticks = 0 /\ beats = 0 /\ troubles = 0 /\ doubt = FALSE /\ session = 1 /\ spoolOf = NoSession
  /\ subagent = [a \in Agents |-> "none"] /\ hooks = {} /\ sending = {}
  /\ entries = [a \in Agents |-> Absent] /\ reported = NoToken /\ badge = NoToken /\ pass = Idle
----------------------------------------------------------------------------
\* The spool.

Entries(es) == {a \in Agents : es[a].status # "absent"}
Token(es) == [running |-> Cardinality({a \in Agents : es[a].status = "running"}),
              total |-> Cardinality(Entries(es))]

\* apply_stale_rules: silent running entries are stale, long silent ones leave.
Aged(es) ==
  LET idle(a) == ticks - es[a].seen
      stale(a) == es[a].status = "stale" \/ (es[a].status = "running" /\ idle(a) > StaleAfter)
  IN [a \in Agents |-> IF stale(a) /\ idle(a) > DropAfter THEN Absent
                       ELSE IF stale(a) THEN [es[a] EXCEPT !.status = "stale"] ELSE es[a]]

\* _bound: the finished and stale entries leave first, the oldest of them first.
Victims(es) ==
  LET finished == {a \in Entries(es) : es[a].status # "running"}
      candidates == IF finished = {} THEN Entries(es) ELSE finished
  IN IF Cardinality(Entries(es)) <= MaxEntries THEN {{}}
     ELSE {{v} : v \in {a \in candidates : \A b \in candidates : es[a].seen <= es[b].seen}}
Without(es, gone) == [a \in Agents |-> IF a \in gone THEN Absent ELSE es[a]]

Seen(status) == [status |-> status, seen |-> ticks]

\* A bug: a start that comes after the stop opens the entry again.
OnStartAgain(e) == Seen("running")
\* apply_event, by the kind of the event; an entry it does not have is new.
OnStart(e) == Seen(IF e.status \in {"absent", "stale"} THEN "running" ELSE e.status)
OnStop(e) == Seen("done")
OnBeat(e) == IF e.status = "done" THEN e ELSE Seen("running")

\* A hook of another session than the spool's empties the spool before it is applied.
Leaves(h) == h.kind = "reset" \/ (NoSession \notin {h.of, spoolOf} /\ h.of # spoolOf)

Applied(es, h) ==
  LET kept == IF Leaves(h) THEN [a \in Agents |-> Absent] ELSE es IN
  CASE h.kind \in {"reset", "session"} -> kept
    [] h.kind = "start" -> [kept EXCEPT ![h.id] = OnStart(@)]
    [] h.kind = "stop"  -> [kept EXCEPT ![h.id] = OnStop(@)]
    [] h.kind = "beat"  -> [kept EXCEPT ![h.id] = OnBeat(@)]

\* A bug: a new session also forgets what herdr still shows.
ReportedDropped(h) == IF Leaves(h) THEN NoToken ELSE reported
ReportedBefore(h) == reported

\* _needs_report; the refresh of an unchanged token may be due at any time.
NeedsReport(last, token, refresh) ==
  IF last = NoToken THEN token.total > 0 ELSE last # token \/ (refresh /\ token.total > 0)
----------------------------------------------------------------------------
\* The agent and its hooks.

Fire(kind, a, of) == hooks' = hooks \cup {[kind |-> kind, id |-> a, of |-> of]}

Begin(a) ==
  /\ subagent[a] = "none" /\ subagent' = [subagent EXCEPT ![a] = "works"] /\ Fire("start", a, session)
  /\ UNCHANGED <<ticks, session, spoolVars, reported, sending, badge, pass, beats, troubles, doubt>>
End(a) ==
  /\ subagent[a] = "works" /\ subagent' = [subagent EXCEPT ![a] = "ended"] /\ Fire("stop", a, session)
  /\ UNCHANGED <<ticks, session, spoolVars, reported, sending, badge, pass, beats, troubles, doubt>>
\* A hook inside a subagent is no proof of the pane's session.
Beat(a) ==
  /\ subagent[a] = "works" /\ beats < MaxBeats /\ beats' = beats + 1 /\ Fire("beat", a, NoSession)
  /\ UNCHANGED <<ticks, agentVars, spoolVars, reported, sending, badge, pass, troubles, doubt>>
\* A new session in the pane, started, cleared or resumed: its subagents are gone.
NewSession(kind) ==
  /\ beats < MaxBeats /\ beats' = beats + 1 /\ session' = session + 1
  /\ subagent' = [a \in Agents |-> IF subagent[a] = "none" THEN "none" ELSE "left"]
  /\ Fire(kind, CHOOSE a \in Agents : TRUE, session')
  /\ UNCHANGED <<ticks, spoolVars, reported, sending, badge, pass, troubles, doubt>>
Trouble == troubles < MaxTroubles /\ troubles' = troubles + 1

HookLost(h) ==
  /\ h \in hooks /\ hooks' = hooks \ {h} /\ Trouble
  /\ UNCHANGED <<ticks, agentVars, spoolVars, reported, sending, badge, pass, beats, doubt>>

\* run() under the spool's lock: the token counts as reported before it is.
Hook(h) ==
  /\ h \in hooks /\ hooks' = hooks \ {h}
  /\ LET es == Applied(Aged(entries), h) IN
       \E gone \in Victims(es) : entries' = Without(es, gone)
  /\ spoolOf' = IF h.of = NoSession THEN spoolOf ELSE h.of
  /\ \E refresh \in BOOLEAN :
       LET due == NeedsReport(ReportedBefore(h), Token(entries'), refresh) IN
         /\ reported' = IF due THEN Token(entries') ELSE ReportedBefore(h)
         /\ sending' = IF due THEN sending \cup {Token(entries')} ELSE sending
         /\ doubt' = (pass.pc # "idle" \/ IF due THEN sending # {} ELSE doubt)
  /\ UNCHANGED <<ticks, agentVars, badge, pass, beats, troubles>>

\* herdr_cli_reporter, or its failure, which nothing notes.
HookReports(t) ==
  /\ t \in sending /\ sending' = sending \ {t}
  /\ badge' = t
  /\ UNCHANGED <<ticks, agentVars, hooks, spoolVars, reported, pass, beats, troubles, doubt>>
HookReportFails(t) ==
  /\ t \in sending /\ sending' = sending \ {t} /\ Trouble /\ doubt' = TRUE
  /\ UNCHANGED <<ticks, agentVars, hooks, spoolVars, reported, badge, pass, beats>>
----------------------------------------------------------------------------
\* The bridge.

Open == {a \in Agents : entries[a].status \in {"running", "stale"}}

\* A bug: what was silent for a while counts as done, whatever its state is.
FoundSilent(a, late) == ticks > entries[a].seen
\* claude_finding, codex_finding: the transcript has the record of the end,
\* unless it is written late.
Found(a, late) == subagent[a] \in {"ended", "left"} /\ a \notin late

\* _apply for every open entry: it is done, or a sign of life in its own
\* transcript counts as seen now, and then the stale rules.
Reconciled(late) ==
  Aged([a \in Agents |->
    IF a \notin Open THEN entries[a]
    ELSE IF Found(a, late) THEN [status |-> "done", seen |-> entries[a].seen]
    ELSE IF subagent[a] = "works" /\ ticks > entries[a].seen THEN Seen("running")
    ELSE entries[a]])

\* reconcile_spool: a token the spool does not have as reported is reported.
Reconcile ==
  /\ pass.pc = "idle" /\ Open # {}
  /\ \E late \in SUBSET Agents : entries' = Reconciled(late)
  /\ pass' = IF reported = Token(entries') THEN Idle ELSE [pc |-> "report", token |-> Token(entries')]
  /\ doubt' = IF pass' = Idle THEN doubt ELSE sending # {}
  /\ UNCHANGED <<ticks, agentVars, hooks, spoolOf, reported, sending, badge, beats, troubles>>

BridgeReports ==
  /\ pass.pc = "report" /\ pass' = [pass EXCEPT !.pc = "mark"] /\ badge' = pass.token
  /\ UNCHANGED <<ticks, agentVars, hooks, spoolVars, reported, sending, beats, troubles, doubt>>
\* herdr is down: the next pass tries again, if an entry is open then.
BridgeReportFails ==
  /\ pass.pc = "report" /\ pass' = Idle /\ Trouble /\ doubt' = TRUE
  /\ UNCHANGED <<ticks, agentVars, hooks, spoolVars, reported, sending, badge, beats>>

\* mark_reported: not when the spool moved on since.
Mark ==
  /\ pass.pc = "mark" /\ pass' = Idle
  /\ reported' = IF Token(entries) = pass.token THEN pass.token ELSE reported
  /\ UNCHANGED <<ticks, agentVars, hooks, spoolVars, sending, badge, beats, troubles, doubt>>

\* The ticks are minutes; a hook process lives two seconds at most.
Tick ==
  /\ ticks < MaxNow /\ pass = Idle /\ sending = {} /\ hooks = {}
  /\ ticks' = ticks + 1
  /\ UNCHANGED <<agentVars, hooks, spoolVars, reported, sending, badge, pass, beats, troubles, doubt>>

Next ==
  \/ \E a \in Agents : Begin(a) \/ End(a) \/ Beat(a)
  \/ \E h \in hooks : Hook(h) \/ HookLost(h)
  \/ \E t \in sending : HookReports(t) \/ HookReportFails(t)
  \/ (\E kind \in {"reset", "session"} : NewSession(kind)) \/ Reconcile \/ BridgeReports \/ BridgeReportFails \/ Mark \/ Tick

Spec == Init /\ [][Next]_subagentVars
----------------------------------------------------------------------------
\* Only a subagent that ended is ever shown as done, whatever was lost and in
\* whatever order the hooks got the lock.
DoneHasEnded == \A a \in Agents : entries[a].status = "done" => subagent[a] \in {"ended", "left"}

\* The stop is final for an entry, whichever of its hooks comes late, as long as the
\* spool stays of its session.
StaysStopped ==
  spoolOf' = spoolOf =>
    \A a \in Agents : entries[a].status = "done" => entries'[a].status \in {"done", "absent"}

StopIsFinal == [][StaysStopped]_subagentVars

\* When nothing is on its way, herdr shows the badge of the spool, but after a report
\* that failed or that another one, of a hook or of the bridge, overlapped: a later
\* report of an older token may win.  The next report that is alone puts it right.
BadgeIsTrue ==
  (sending = {} /\ pass = Idle /\ ~doubt) =>
    \/ badge = Token(entries)
    \/ badge = NoToken /\ Entries(entries) = {}
============================================================================
