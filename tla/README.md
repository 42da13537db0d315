# Herdeck in TLA+

Herdeck shows the AI agents that run in herdr panes on a deck (a Stream Deck, a
web page, a phone) and lets people answer them from there.  Next to every herdr
runs a **bridge**: it polls herdr, tells every connected **runtime** what the
fleet looks like and what happened, and types the answers the runtimes send.
Several runtimes (a desk Mac, a laptop, the web cockpit, Telegram) share one
bridge, sleep, reconnect and restart when they like, and so does the bridge.

This directory holds TLA+ modules of that system, TLC configurations that check
them on small instances, and TLAPS proofs for every instance.  Paths below are
relative to `src/herdeck/` of the repository, those of the desktop application
to its root.

How to run, in this directory:

    tlc -workers 2 -config EventHubFaults.cfg EventHub
    tlc -workers 2 -config BridgeParts.cfg MCBridgeParts
    tlapm EventHubProofs.tla

`PROJECT.json` is the machine-readable index: components, runs, hazards at
their lines, theorems, and for each definition the source lines it stands for.

## 1. The system and its modules

### Episodes and events

| module | what it is | models |
|---|---|---|
| `EventHub` | episodes, prompt reads, the gate that lets one answer through | `events.py`, `bridge_answers.py`, the answer branches of `bridge.handle_client_message` |
| `EventFanout` | ring, pump, subscriptions, replay, cursor, alerts | `events.py` (second half), `bridge._broadcast`, `_serve_connection`, `deckapp/event_cursor.py`, `deckapp/live_events.py` |
| `AgentList` | snapshots on their way to clients, and the status clock | `bridge.HerdrEvents.stream`, `_broadcast`, `_wired_snapshot`, `status_since.py` |
| `HerdrFeed` | how the bridge follows herdr: subscription, polls, branches | `bridge.HerdrEvents` |
| `Answers` | one runtime's card, banner and drill before the gate of the bridge | `deckapp/agent_card.py`, `live.py`, `live_events.py`, `orchestrator.py` |
| `Banners`, `NotifyFeed` | when a banner is shown and withdrawn; how it reaches the desktop shell | `live.py`, `live_events.py`; `notify.py`, `desktop/src-tauri/src/notify_pump.rs`, `server.py` |
| `TelegramAlerts`, `TelegramPoll` | alerts, reminders, claims, taps and replies; the getUpdates cursor | `bridge_notify.py`, `bridge_answers.py`, `telegram.py` |
| `TelegramOwner` | who sends the Telegram alerts of an agent | `bridge.py`, `bridge_telegram.py`, `live.py` |

An *episode* is a stretch in which an agent is blocked (or done).  The stream's
broadcast first sends a list to every client, then lets `EventHub` observe the
same list, which emits events; the pump sends them behind the list on the same
connection.  Answers go back from a runtime through its connector, the bridge's
connection handler, `begin_answer`, herdr, `end_answer`.  Hard: every read of a
pane is an RPC during which anything may happen; several people answer one
question at once; an RPC whose reply is lost may have typed; events are emitted
while a replay is on the wire; both sides restart, and a crash falls between
alert and save; episode ids are made of the status clock, which has to survive a
restart.  Correct: one answer in flight per episode and one per question, no
event of an episode after its end, every question announced, nothing lost and
nothing alerted twice, one id per blocked stretch, an answer goes to the question
its sender looked at, and an alert is sent by one party.

### Bridge services

| module | models |
|---|---|
| `SettingsRegister` (abstract), `SharedSettings` | `bridge_settings.py`, `deckapp/settings_relay.py`, `deckapp/shared_view.py`, `desktop/src/lib/bridgeSettings.ts` |
| `SelfUpdate` | `self_update.py`, `deckapp/bridge_update.py`, the service manager and the connector between them |
| `Terminals`, `TermStream` | terminal observes with their limits (`bridge.py`, `deckapp/agent_term.py`); the frames on their way to a browser (`deckapp/web_terminals.py`) |
| `Subagents` | hook processes, spool files, badges (`subagent_hook.py`, `subagent_reconcile.py`, `subagent_spool.py`) |
| `History` | the history of statuses and its worker (`history.py`) |
| `BridgeLife` | how the service and the embedded bridges start and end, and what their end saves (`bridge.serve`, `start_local_bridge`, `deckapp/local_bridge.py`, `deckapp/server.py`) |
| `UsagePoll`, `UsageAgent`, `UsageSource`, `UsageAlerts` | `usage.py`; `usage_agent.py`, `usage_agent_install.py`, `deckapp/usage_agent_relay.py`; `usage_hub.py`; `usage_alerts.py` |

Hard: two editors, lost replies, puts that arrive after their connection is
gone; an update whose reply is lost in the restart it causes; a place that has to
be given back exactly once whichever of task, connection and viewer ends first;
hooks that are processes of their own and run in any order; two sources that may
both poll.  Correct: no lost update, the bridge comes back as the version it
promised, a viewer hears of the end and never paints a torn screen, a badge
counts what runs, a level is announced once a period by one poller, no bridge runs
that nobody owns and none ends without saving what it noted.

### Runtime and deck

| module | models |
|---|---|
| `Connection` | one connector: connects, probe, back-off, stop (`connector.py`) |
| `DeckOverview`, `DeckDrill` | the grid with its press guard; the drill with its reads and confirmation (`orchestrator.py`, `layout.py`, `live.py`) |
| `DeckMenus` | the views of the deck and the ways between them: launcher, profiles, triage loop, folding, pins (`orchestrator.py`, `pins.py`, the presses and swaps of `deckapp/server.py`) |
| `DeckFrames`, `Switching`, `ConfigFiles` | frames and readers; swaps, connects with rollback, reloads; the configuration files and who writes them (`deckapp/server.py`, `watcher.py`, `onboarding.py`, `config_service.py`, `settings.py`) |
| `PhysicalDeck`, `DeckPower`, `ElgatoDeck` | the supervisor of the D200 and its pump; USB power; the back end of the Stream Deck plugin (`deckapp/sinks.py`, `device_lock.py`, `driver/`; `maintenance.py`; `elgato/`) |
| `SemanticAPI` | idempotent requests, confirmations and choices (`semantic_api.py`, `decisions.py`, `app_control.py`, `services.py`, `host.py`) |
| `T3Delivery`, `T3Setup` | a press at a T3 thread runs once (`t3.py`, `t3_client.py`, `t3_actions.py`, `t3_state.py`); its credential (`t3_setup.py`, `t3_renew.py`, `t3_remote.py`) |
| `HookFiles`, `Services` | files of others that herdeck edits; services and their migration (`hooks_install.py`, `deckapp/hooks_relay.py`; `service.py`, `managed.py`) |

Hard: connector threads, HTTP threads, timers and the render thread share a lock
they drop for anything slow; the order of the grid changes between what the user
saw and the press; a set-up command is a sequence of steps of which each may fail
and which other people's edits interleave with.  Correct: a press means what was
shown, the deck ends up with the newest frame, a switch or set-up is done or
undone, a command runs once.

Not modelled: presence (`presence.py`, one report per client with an expiry),
themes and icons (drawing), the Stream Deck plugin's TypeScript, the desktop's
windows, the end of the server's own threads, start requests, deferred done alerts, and
what validation says of a document (a choice of outcome wherever it matters).

### Proofs

`EventHubProofs`, `EventFanoutProofs`, `SharedSettingsProofs`,
`T3DeliveryProofs`, `SelfUpdateProofs`, and the theorems at the ends of
`Connection`, `MCRuntimeParts` and `MCEventParts`; see section 4.

## 2. How the modules correspond to the code

The bridge is one asyncio event loop.  Code between two awaits is one action;
each await is a place where every other action may happen.  Locks of a
connection are first come, first served, as asyncio's are.  A runtime has
threads: there an action is what a thread does under the lock or between two
calls that block, and what it read before is a variable.  A mutant (a definition
with "Mutant:" in its comment, used by no other) is a plausible bug of the
definition after it; it shows that a property can fail.

**EventHub.**  A pane's truth is `agent`; `seen` is the status clock and `snap`
a stamped snapshot between its broadcast and `observe`.  `eps` are the `Episode`
objects and `open` is `EventHub._episodes`: a coroutine may hold an episode that
is no longer open, as in the code.  A read is three steps: it is asked for
(`shot = "asked"`), herdr captures the screen (`Capture`), its result is applied
(`FirstRead`, `Reread`, `FreshRead`, `WatchRead`).  An answer walks through
`idle, fresh, check, type, reply, watch, watching, finished`, or ends as `stale`;
`BeginAnswer` and `FreshRead` end in `Gate`, which is the part of `begin_answer`
after its last await.  Abstracted: the poll interval and the minute after which an
answered episode is no longer polled; a prompt is one text, the revision is the
text; a stamp is one step here (AgentList refines it); two changes of a pane never
share a millisecond.

**EventFanout.**  Episodes ask question 1, 2, ... and `log` is every frame of one
bridge process, the ring is its end.  What a subscription still has to send is
`sub.todo`; `upto` and `active` are `sent_upto` and `active`.  The pump takes a
frame, then sends it to one client after the other.  `mem` and `disk` are the two
halves of a runtime; `ReceiveEvent` is the whole of `_on_lifecycle` or
`_on_event_sync` with its saves and the alerts it fires (an alerted episode is
noted as known, so a replay alerts it once); `CrashAlerting` stops it between the
save of the known episodes and an alert.  Assumed: while a client catches up the
ring does not forget what it still needs (500 events and 30 minutes against sends of
at most two seconds).  Left out: failing saves of the cursor file, eviction of
known episodes beyond 512, the notification throttle, bridges without events.

**AgentList.**  The stream and every list are jobs that capture, stamp and send.
`live`, `restored`, `dirty`, `timer` and `file` are the fields of
`StatusSinceTracker` and its file.  `said` holds the last two lists the stream
yielded; the broadcast writes episode ids into the very objects the stream
compares with, which is why `Yields` also holds for an equal list that has panes.

**SharedSettings.**  A save stands for the document it writes.  `store` and
`file` change together (`BridgeSettingsStore.put`); `telling` is the handler
between its reply and its broadcast, `frames` the frames `_send_to_client` has yet
to send, `left` the puts that had arrived on a connection that is gone (the
`async for` of the handler still yields them), `loop` what `run_coroutine_threadsafe`
handed to the connector's loop.  What validation says is a choice of outcome.
`SettingsRegister` is the promise: `ImplementsRegister` says that all of this,
under `Promise`'s mapping, is a register in which a save replaces exactly the
document its editor saw.

**HerdrFeed.**  A `worktree.list` herdr does not answer counts as a list without
branches: it is cached and fresh (`_fetch_worktrees` returns `[]`), so the labels
are empty until an event or an interval.  The fleet is shown within one interval,
and the labels within two, of the last change or failed read.

**Subagents.**  A new session of the agent in a pane empties the spool at the first
hook that names it; a late hook of the old session does the same to the new one.
A badge is what the spool counts, unless the last report of the pane failed or
overlapped another one: a later report that is alone puts it right.

**Services.**  Every command may fail.  Where `service.py` ignores the result
(both bootouts of the user's agent, the bootout of the system's, the last `rm` of a
rollback) the module goes on as the code does and notes the domain in `neglected`;
that one bridge runs is claimed as long as there is none.

**Answers.**  The prompt read ahead of a press stays until the pane is seen not
blocked, also over the next episode of the pane, as `live.py` keeps it; a read a
card registered is reused until it is dropped.

**Switching.**  A rollback restores one part after the other, each of which may
fail by itself without a word (`counts.lost`); what was not restored is
excused, and only that.

**The others** say in their head comment what an action is and what data is left
out.  Every time-out, back-off and cache age is either a tick of a bounded clock
(`HerdrFeed`, `UsageSource`, `DeckPower`) or a step that may come at any moment.

## 3. Runs

Every fault is a constant, so a configuration says which ones it includes.  A run
takes at most some minutes on two cores.

Components that share no state are checked together: `MCEventParts`,
`MCBridgeParts`, `MCDeckParts` and `MCRuntimeParts` instantiate each
module with the constants of its *part*; the variable `part` is chosen in the
initial state and says which part a behaviour runs, and the variables of the
other parts are `Off`.  So the states of a run are the sum, not the product, of
those of its parts.  A property of such a run is a conjunction
`part = "x" => X!Property`: one question asked of the parts it concerns.

| run | instance | shows |
|---|---|---|
| `EventHubFaults` | 1 pane, 2 prompts, 2 requests, 3 turns; reads fail and overtake, RPCs fail before or after they typed, people type in the terminal, older clients | `TypeOK`, `OneAnswerInFlight`, `ClosedForGood`, `ClientsKnowTheRevision` |
| `EventParts` | *events*: 1 runtime, 2 episodes, ring of 1, 2 epochs, 2 connections, failed lists, crashes anywhere; *prompts*: 2 questions; *learned*: overlapping subscriptions | `CursorIsKnown`, `AlertsOnce`, `ShowsEveryQuestion`, `NothingIsSkipped` |
| `BridgeParts` | *terminals*, *stream*, *clock*, *lists*, *feed* (reads and lists fail), *hooks* (two sessions), *history*, and *owner*, *drafts*, *edited*, *rerun*, *owners*, *listed* of `TelegramOwner` | `TerminalsAreWhole`, `ClocksAreKept`, `FleetIsTrue`, `StopIsFinal` |
| `DeckParts` | *device*, *overview*, *drill*, *triage* and *menus* of `DeckMenus`, *frames*, *switching*, *power*, *pinned*, *answers*, *means*, *older* of `Answers`, *asked*, *moved*, *joined*, *picks* of `ElgatoDeck`, *single*, *pair* and *serves* of `BridgeLife` | `AnswersAreMeant`, `PressesAreMeant`, `DecksAreCurrent`, `SwitchesWhole`, `NothingGoesBack` |
| `RuntimeParts` | *banners*, *notices*, *telegram* and *reminds* of `TelegramAlerts`, *taps*, *usage*, *levels*, *poll*, *grows*, *link*, *t3*, *api* and *choices* of `SemanticAPI`, *setup*, *renewals*, *edits*, *asks*, *agent*, *units*, *config*, *slow*, *update* | `BannersAreTrue`, `AnswersAreOfTheAlert`, `UsageIsToldOnce`, `ConnectionIsHonest`, `DeliveredOnce`, `SetupsAreWhole`, `ConfigIsKept`, `UpdateIsHonest`, `NothingUnasked` |
| `SharedSettingsRegister` | 2 runtimes, 2 saves, 2 connections, 1 stop of anything, fairness | `TypeOK`, `RevisionNamesDocument`, `ImplementsRegister`, `ViewsConverge` |
| `Progress` | *events*, *update*, *lists*, *hub* (reads and RPCs fail), *screen* (the hub without failures: a question whose read fails is not told), with fairness | `HandlesAll`, `UpdateEnds`, `ViewsConvergeWithPanes`, `BlockedIsAnnounced`, `RequestsEnd`, `NewQuestionIsTold` |
| `EventHubTwice`, `EventHubLateNote`, `EventFanoutSpent`, `T3Outage`, `BannerLookalike` | see section 5 | findings |

Deadlock is not checked: every bound ends the behaviours, and a bridge nobody
uses may rest.

**Why the bounds are enough.**  Panes of `EventHub` do not share state but the
status clock, so one pane with two racing requests has every race of two; three
turns are a question, the next one of the same episode and an end, or an episode
and its successor.  In `EventFanout` a ring of one already makes every replay
choose between ring, open episodes and gap; two connections are a first
subscription and a resumption, two epochs a cursor of another bridge; what two
runtimes have in common is the pump, which the proofs cover for any number of
them.  In `AgentList` four turns are block, work, block, or block, close, reopen,
block.  In `SharedSettings` two saves are a race, two connections let both editors
be there or one of them come back.  In the other modules the bounds are two of
whatever can race (requests, presses, connects, drafts) and one or two faults;
the constants of a part are next to its `INSTANCE`, each with the word "bound" where
it is declared if the code has no such limit.  Limits the code does have
(`RingMax`, `QueueMax`, `Memory`, `Capacity`, `MaxEntries`, the limits of observes)
are small, so that they are reached.

**Fairness.**  Only what event loop, timers and timeouts give: a coroutine that
is ready runs, an RPC ends (every one has a timeout), timers fire, the polls go
on, a connected runtime reads its socket.  Agents, people, reconnects, restarts
and faults owe nothing.  `PollUnanswered` is fair only for episodes nobody
answered, because the code gives up on the others after a minute.  Weak fairness
suffices everywhere; once an answer waits for its look-out either `WatchStops` or
`WatchStarts` is enabled, so their disjunction `WatchWakes` is fair, not each.
`ProgressFairness` of `MCEventParts` states it part by part; an action of a part that
does not run is never enabled.

## 4. What is proved

| theorem | says | assumes |
|---|---|---|
| `EventHubProofs!TypeCorrect`, `OneAnswer`, `NothingAfterTheClose`, `RevisionsAreTold` | `Spec => []TypeOK`, `[]OneAnswerInFlight`, `[]ClosedForGood`, `[]ClientsKnowTheRevision` | |
| `EventFanoutProofs!LanesAreWhole`, `CursorsKnow`, `NothingSkipped`; `MCEventParts!EventsPartKnows` | `Spec => []IInv`, `[]CursorKnows`, `NeverSkips`; the property `CursorIsKnown` of the run | `~Watchdog` |
| `EventFanoutProofs!AlertsAreInTurn`, `EveryQuestionOnce`, `FanoutTyped`; `MCEventParts!PartsAlertOnce`, `PartsTyped` | `Spec => []AInv`, `[]AlertedOnce`, `[]TypeOK`; the properties `AlertsOnce` and `PartsTypeOK` of the run | `~Watchdog`, `AlertCrashIsSafe` |
| `EventFanoutProofs!PromptsAreInTurn`, `QuestionsAreShown`; `MCEventParts!PartsShowEveryQuestion` | `Spec => [](VInv /\ PInv)`, `[]ShowsTheQuestion`; the property `ShowsEveryQuestion` of the run | `Calm`, which the part *prompts* is |
| `SharedSettingsProofs!TypesHold`, `RevisionsAgree`, `NothingLost`, `Implements` | `Spec => []TypeOK`, `[]RevisionNamesDocument`, `NoLostUpdate`, `ImplementsRegister` | `~FileMayFail`; `TypesHold` also finitely many saves |
| `Connection!Honest`; `MCRuntimeParts!PartIsHonest` | `Spec => [](TypeOK /\ ConnectionIsHonest)`; the property of the run | `Bounds` |
| `T3DeliveryProofs!Once`; `MCRuntimeParts!PartIsDeliveredOnce` | `Spec => []DeliveredOnce`; the property of the run | `Sizes` |
| `SelfUpdateProofs!Honest`; `MCRuntimeParts!PartUpdatesHonestly` | `Spec => [](TypeOK /\ UpdateIsHonest)`; the property of the run | `Given` |

The theorems hold for any panes, prompts, clients, episodes, questions, epochs,
connections, actions and bounds, and for every choice of the faults the last
column does not name.  All follow one pattern: the initial state satisfies an
inductive invariant, one lemma per action (or per helper several actions share)
shows that a step preserves it, one PTL step puts them together.  TLC checked each
invariant before it was proved.

**EventHub.**  `TypeOK` is not inductive: a handler that is beyond the gate has a
pane and a kind only because it passed the gate.  `TypeInv` adds `Handlers`, which
says what a handler knows at each place.  That the flag of an episode is set
exactly while one request answers it needs two facts about episodes that are not
in the flag: an opening episode is a fresh object, so a ticket of an earlier one
must not refer to it.  `Clock` says that the status clock and the snapshot never
name a later turn than the pane is in and that an episode that is over is never
opened again; `Tickets` says that a ticket belongs to an episode that is open or
over.  `Stories` follows what was emitted of each episode: the last `blocked` event
is of its revision as long as it is open (`LastTells`), and a closed event ends the
story (`EndsOnce`), because a closed episode stays over: the status clock only moves
on, whatever the reads that still hold it bring back.

**EventFanout.**  What reaches a client is scattered over the replay its
subscription still has to send, the frames on its connection, the frame the pump
holds and the ring.  `IInv` puts them in one *lane*: everything that is coming
to a client is in turn, from what it has handled to the end of the log, and each
piece starts where the one before it ends, except for what a gap announces
(`Following`, `Replaying`, `BeforeSubscription` for the three states of a
connection).  From the lanes follow `CursorKnows` (the cursor on disk covers only
events whose open episodes the runtime knows) and `SkipsNone` (a cursor moves over
an event only by handling it or by a gap the client is told of).  The
theorems assume `~Watchdog` and must: a watchdog that subscribes again while the
first replay arrives drops a batch, see section 5.

`AlertedOnce` needs more than "known episodes are not alerted": an answered
episode that asks again is alerted although it is known, at a question the runtime
does not show yet.  `AInv` says of every event a runtime may yet handle (`Due`:
not handled in this log, on its way, in its batch, or the last of an episode a
first subscription repeats) that it asks no earlier question than the ones it
shows or alerted (`DueOnTime`, `BatchInTurn`), and of what the runtime holds that
the question it shows is not older than the ones it alerted (`ShowsAlerted`), that
an alerted episode is known (`KnownOnceAlerted`) and that nothing is shown or
alerted that was not asked (`NotAhead`).  Episodes ask their questions in turn
(`LogInOrder`), so replays and catch-ups keep all of this; what a batch leaves is
followed event by event (`HandledUpTo`, by induction over the places of the batch,
`LeastNumber`).  `AlertCrashIsSafe` (`AlertCrash => MaxQuestions = 1`) is needed: a
runtime killed between two alerts of one batch forgot which question it showed, see
section 5.

`ShowsTheQuestion` says that a runtime which handled everything shows, of each
blocked pane, the question announced last.  It rests on two more parts.  `VInv` is
the promise of `_broadcast` that no event overtakes the list which shows its pane:
once a client is shown an open episode, no list behind it hides the episode
(`StaysShown`); a question comes behind a list that shows it, and whoever subscribed
has one behind which everything else comes (`ShownFirst`).  `PInv` follows the last
question of each open episode (`LastOpen`): the runtime shows it if its cursor is
past it (`ReadsHandled`), and the replay on its way either repeats it or holds only
later events (`ReplayIsWhole`), in each of the three branches of `_replay_frames`.
What follows it in the log are answers (`OnlyAnswersFollow`), which leave the
question shown, alone or in a batch.  `Calm` excludes the watchdog, kills of the
runtime, lists herdr does not answer and lists sent late; TLC finds the property
violated when any of them is let in, see section 5.

**SharedSettings.**  `IInv` is about what is away from the store.  `Travel`: a put
is in one queue only and not yet decided, so it is decided at most once.  `Truth`:
every document anybody holds or is sent is `Genuine`, one that a decided save
wrote at the revision after its base, and every reply says what happened.
`History`: the saves have bases of their own, all below the revision of the store.
Two genuine documents of one revision are then one, which is `RevisionsAgree`; the
base of a put that is accepted is genuine and has the revision of the store, so it
is the store's document, which is `NothingLost` and the guard of the register's
`Replace`.  `Settled` (what is decided stays so) carries `Truth` over a step; the
lemmas `MessageStep`, `EditorStep` and `PutStep` do that once for each kind of
action.  `TypesHold` adds `TInv`: the store is at most one revision on for each save
that was accepted, and nobody was told a revision it has not reached (`Reached`),
so the number of saves bounds every revision.  `~FileMayFail` is needed: a bridge that once served an unreadable file as
unset hands the old revisions out again.

**Connection.**  `IInv` adds to the types: "managed" is of the bridge this
connection reached (`ManagedIsThisBridge`), the pending probe was sent on this
connection (`ProbeIsOfThisConnection`), nobody is told of a connection between two
of them (`QuietBetween`), and whatever stop() finds, the loop ends
(`StopFindsIt`).

**T3Delivery.**  `Once` says that two commands that ran and send the message of one
press are one command.  A press is repeated when its reply was lost; it finds the
commands in the memory of deliveries or makes new ones.  `IInv` says: the
revisions commands are made for only grow (`Grows`), the memory has each key once
and in the order of the revisions (`MemoryIsWhole`), a message that ran is
remembered or its revision is passed (`AliveIsKnown`), at most one of its commands
is alive (`OneIsAlive`), and what is being sent is remembered (`SendingIsKnown`).
`Sizes` assumes that the actions offered at a revision fit into the memory
(`_DELIVERY_MEMORY = 256`, `t3.py:54`) and that T3 keeps the tickets it granted
(`~Refusals`); without either a press runs twice, see section 5.

**SelfUpdate.**  An update is the work of a process, for a newer version than its
own and for a runtime of that version (`TaskIsNewer`); what was verified is what
the virtualenv holds and was proven to run (`VerifiedIsThere`); a promise to come
back as a version is kept by being busy until the process has gone
(`PromiseHolds`), so no second request changes the virtualenv between promise and
exit.  On the runtime's side every snapshot names a version that ran and every
result "restarting" one that was proven (`FramesAreTrue`), which is what a job that
ends as "updated" rests on (`UpdatedIsTrue`).  `Given` says only that versions are
positive numbers and the bounds are numbers.

**Parts.**  A part of a run is the module it instantiates: as long as `part` has
its name, `Next` of the run is `Next` of the module, so the module's invariant
carries over (`LinkRuns`, `T3Runs`, `UpdateRuns`, `EventsRuns`, `DialogRuns`).
`PartIsHonest`, `PartIsDeliveredOnce` and `PartUpdatesHonestly` are the properties of
`RuntimeParts` itself, `EventsPartKnows`, `PartsAlertOnce`, `PartsShowEveryQuestion` and
`PartsTyped` those of `EventParts`.

Only model-checked: every liveness property (fairness and ENABLED are beyond the
prover); `AlertsWhatItLearns` of `EventFanout`; and the parts the table does not
name.

## 5. Where code and words differ

Five runs end in a violation of what the source says of itself:

* `EventHubTwice`: before it refuses for an answered episode, `begin_answer` reads
  the pane again and takes whatever it shows for the next question.  Between two
  questions it shows output, which lets a late answer through; asked again before
  that answer is typed, the agent gets it as the answer to the new question, and
  the next late answer passes in the same way.  Two answers are typed into one
  question, although "a prompt is answered exactly once whoever gets there first".
* `EventHubLateNote`: `end_answer` marks as answered the revision the episode has
  when the send returns.  If a poll applied the next question while the keys were
  on their way, that question counts as answered and every answer to it is
  refused, although the docstring refuses only what was already answered.
* `EventFanoutSpent`: a runtime that subscribes for the first time (or after a
  restart or a gap) during the second question of an episode gets the last
  `answered` and the last `blocked` event.  It marks the episode answered and has
  no earlier revision to re-open it with, so its banner refuses the answer,
  although "a multi-step prompt stays answerable".
* `T3Outage`: a failed poll renews the epoch, which is part of every revision.  A
  tile that is read-only because a delivery is in doubt can then be pressed again
  though the thread did not change, and the press makes new commands, although
  the tile "stays read-only until the thread changes".
* `BannerLookalike`: the answer from a banner is compared with a hash of the option
  list, not of the question.  The banner of one permission question approves the
  next one of the episode, although "a stale banner therefore never answers a
  later prompt".

Properties the runs check hold under conditions the constants name.  What
happens without them, each shown by TLC when the constant is turned:

| module | constant | what happens |
|---|---|---|
| `EventFanout` | `Watchdog` | the watchdog's second subscription empties the batch of the first; its `event_sync` moves the persisted cursor over what was dropped (`live_events.py:123`, `190`) |
| `EventFanout` | `RuntimeCrash` | `ShowsTheQuestion` fails: a restarted runtime has a cursor behind the blocked event, the bridge does not repeat the prompt, and none is read until the pane is drilled |
| `EventFanout` | `ListMayFail`, `SnapshotsInOrder` | `ShowsTheQuestion` fails: the blocked event of a pane the last list hides is dropped (`live_events.py`, `_ev_blocked`), and neither the next list nor the bridge repeats its question |
| `EventFanout` | `AlertCrash` | a runtime killed between noting an episode and alerting never alerts it; one killed between two alerts of a replayed batch repeats the first at the next replay, when that one was of an answered episode's next question (the batch re-opens the episode again, `live_events.py`, `_ev_blocked`) |
| `EventHub` | `RpcMayFail`, `ReadsInOrder` | a typing RPC whose reply is lost counts as not sent, reads applied out of order set the revision back: a second answer |
| `AgentList` | `SnapshotsInOrder`, `FlushMayFail` | a list stamped after a newer one, or a failed write of the clock, splits one block into two episodes |
| `SharedSettings` | `FileMayFail` | an unreadable file restarts the revisions, and a put of an old one overwrites a document its editor never saw |
| `Answers` | `WakesAtOnce` | a card reply that wakes its thread late marks the next question as answered |
| `Banners` | `AtOnce` | between the check and the send the agent may go on (`live.py:965–1021`) |
| `TelegramAlerts` | `PromptKnown` | a claim pinned after the wait for the prompt may be of the next question |
| `TelegramAlerts` | (`waited` in `hits`) | "Read again" after an answer pins the message to the question that was answered; a tap at it passes `_claim_stale`, the gate then reads the next question and takes the tap for it, unseen (`bridge_notify.py:112`, `events.py:424`); the property leaves these taps out |
| `TelegramAlerts` | (`armed`) | a tap that arms "Stop" at one alert is confirmed by a tap at the next one within the eight seconds (`bridge_notify.py:211`) |
| `BridgeLife` | (one file) | the embedded bridges of all sessions share one state file and one history; the last flush wins and the timers of the other sessions are lost at the restart, which "is exactly when the deck's timers must survive" (`bridge.py:2718`) |
| `BridgeLife` | (embedded) | `start_local_bridge` closes neither clock nor history: the debounced last write and queued rows are lost; a broadcast that dies is logged, and the bridge serves on without lists |
| `SemanticAPI` | `HoldsStill` | between the bridge's look and its keys the pane may ask something else, and the choice goes there (`choose_if_blocked`) |
| `TelegramOwner` | (left out) | a capability flip between decision and send loses or doubles an alert (`live.py:976`, `1013`) |
| `Terminals` | `EvictUnsent` | an observe that was never sent outlives its viewer |
| `DeckOverview` | `FleetChanges` | agents that come and go move tiles under a finger without the guard (`orchestrator.py:27–29`) |
| `DeckDrill` | `OfflineDrills` | a drill opened offline stays blank (`live.py:1546`) |
| `DeckMenus` | `BannersOfFolded` | a banner opens the drill of an agent whose tile is folded away; its pin goes to the first tile and takes it from whoever is pinned there (`orchestrator.py`, `_overview_position`) |
| `DeckMenus` | `PinsWhileSwapping` | a pin set while a reload is prepared is stored, and missing on the deck until the next reload |
| `DeckFrames` | `ViewLapses` | a commit does not confirm the preview's map |
| `Switching` | `SessionsFail` | sessions whose frame fails to render leak (`server.py:2878`); a failed connect's resync swallows an edit that was not applied yet |
| `SemanticAPI` | `SwapsAtOnce` | a confirmation survives a reload (`host.py:424`) |
| `UsagePoll` | `SlowSpawn` | `close()` gives up waiting before the app-server is spawned and leaves it behind |
| `UsageAlerts` | (`NewPeriod`) | a window without a reset time that is refilled while little of it was used is not noticed, so a level of the new period is not told (`usage_alerts.py:170`) |
| `UsageAlerts`, `History` | `Lags`, `LateRows` | a level is told again by a source that lags behind; a reply counts an interval as open and as ended |
| `T3Delivery` | `Refusals` | a third press runs twice once T3 refused a ticket it had granted; so does one at a revision with more than 256 deliveries |
| `T3Setup` | `EditsAnytime`, `RestartLies`, overlapping jobs | the rollback of one connect clears the credential of another; the token the runtime holds is revoked |
| `HookFiles` | `SavesAnytime` | a save of somebody else between read and write is lost |
| `UsageAgent` | `BootoutFails` | the agent and its file stay without a unit |
| `Services` | `MixesDomains`, `Kills` | two bridges run |
| `Services` | (`neglected`) | an ignored bootout leaves the user's agent running beside the system's bridge, or the other way round; an ignored `rm` leaves a second unit for the next start of the machine; after a failed copy the rollback starts the new unit (`service.py:384`, `395`, `424`, `440`, `448`) |
| `Switching` | (`counts.lost`) | a restore that fails in a rollback leaves a config without its token, or a marker the next start obeys (`server.py:2682–2732`) |
| `HerdrFeed` | (`NoLabels`) | one failed `worktree.list` takes the branches off all tiles until an event or an interval (`bridge.py:628–636`, `1237`) |
| `Subagents` | (`doubt`) | reports of two hooks that overlap reach herdr in any order, so the badge may show the older count until the next report; a failed report of a pane whose last entry ended is not repeated by the reconciler |
| `Subagents` | (`Leaves`) | a late hook of an old session empties the spool of the new one (`subagent_hook.py:521–530`) |
| `DeckPower` | `MovesAnytime` | the power of another port is cut |
| `ElgatoDeck` | `PressesOffline`, `Errors`, `SlowClient` | a key stays pending, or shows an older state |
| `ConfigFiles` | `SlowReads`, `HandsAnytime` | a read computes its revision last, so it names a newer file than it shows (`server.py:1548`); hand edits between write and resync are not shown |

## 6. Limits and plan

* The parts not named in section 4 are only model-checked.  Next to be proved:
  `Switching` and `Answers`, in this order, each as a part theorem in the style of
  those of `MCRuntimeParts`.
* Next to be modelled: the deferred done alerts of the notifier with its throttle, and start
  requests.
* A composition of `AgentList`'s jobs with the episodes of `EventHub`, so that a
  late stamp and a late answer meet in one model.
