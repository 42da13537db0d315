---------------------------- MODULE MCEventParts -----------------------------
(***************************************************************************)
(* Instances of EventFanout, each a behaviour of its own: two episodes     *)
(* with crashes and failed lists, the questions of one episode, and alerts *)
(* over reconnects, restarts and repeated subscriptions.  With fairness:   *)
(* what has to happen in the end, to the events a runtime hears of, to the *)
(* self-update, the list a client shows, the episodes and the answers.     *)
(***************************************************************************)
EXTENDS EventFanoutProofs, Integers, TLC, TLAPS

CONSTANT r1   \* model values

VARIABLES
    part,   \* the part this behaviour runs
    running, venv, managed, readers, busy, stage, task, promise, proven, ran,
    inbox, outbox, linked, asking, jobs, faults, herdr, now, up, live, restored,
    dirty, timer, file, job, said, view, ids, stops, agent, seen, snap, open, eps,
    shot, req, emitted

EventSymmetry == Permutations(Clients) \cup Permutations(Episodes)

Dialog == INSTANCE EventFanoutProofs WITH Clients <- {"c"}, Episodes <- {"e"},
    None <- None, MaxQuestions <- 2, RingMax <- 2, MaxSeq <- 3, MaxEpochs <- 1,
    MaxConnects <- 2, SnapshotsInOrder <- TRUE, ListMayFail <- FALSE,
    Watchdog <- FALSE, RuntimeCrash <- FALSE, AlertCrash <- FALSE
Learned == INSTANCE EventFanout WITH Clients <- {"c"}, Episodes <- {"e"},
    None <- None, MaxQuestions <- 1, RingMax <- 2, MaxSeq <- 2, MaxEpochs <- 1,
    MaxConnects <- 2, SnapshotsInOrder <- TRUE, ListMayFail <- FALSE,
    Watchdog <- TRUE, RuntimeCrash <- TRUE, AlertCrash <- FALSE
Update == INSTANCE SelfUpdate WITH Runtimes <- {"desk"}, ReadOnly <- {},
    Own <- [r \in {"desk"} |-> 2], FirstSelfUpdate <- 1, FirstVersion <- 1,
    MaxAsks <- 1, MaxFaults <- 1
Lists == INSTANCE AgentList WITH Panes <- {1}, Lists <- {"list"}, None <- None,
    MaxTurns <- 2, MaxNow <- 4, MaxStops <- 1, SnapshotsInOrder <- FALSE,
    CleanStops <- FALSE, FlushMayFail <- FALSE
Hub == INSTANCE EventHub WITH Panes <- {"p"}, Prompts <- {"q1", "q2"},
    Output <- "output", None <- None, Unread <- "unread", Requests <- {r1},
    Kinds <- {"choose_if_blocked"}, MaxTurns <- 3, Rereads <- 2,
    ReadsMayFail <- TRUE, ReadsInOrder <- FALSE, RpcMayFail <- TRUE,
    TerminalTyping <- TRUE, UnclaimedAnswers <- FALSE
Screen == INSTANCE EventHub WITH Panes <- {"p"}, Prompts <- {"q1", "q2"},
    Output <- "output", None <- None, Unread <- "unread", Requests <- {r1},
    Kinds <- {"choose_if_blocked"}, MaxTurns <- 3, Rereads <- 2,
    ReadsMayFail <- FALSE, ReadsInOrder <- FALSE, RpcMayFail <- FALSE,
    TerminalTyping <- TRUE, UnclaimedAnswers <- FALSE

\* The parts run with constants they are meant for.
ASSUME PartsAssumption ==
  /\ Lists!ListAssumption
  /\ Dialog!NoneAssumption

Off == "off"   \* the state of the parts that do not run

EventsStarts ==
  /\ part = "events" /\ Init
  /\ running = Off /\ venv = Off /\ managed = Off /\ readers = Off /\ busy = Off
  /\ stage = Off /\ task = Off /\ promise = Off /\ proven = Off /\ ran = Off
  /\ inbox = Off /\ outbox = Off /\ linked = Off /\ asking = Off /\ jobs = Off
  /\ faults = Off /\ herdr = Off /\ now = Off /\ up = Off /\ live = Off
  /\ restored = Off /\ dirty = Off /\ timer = Off /\ file = Off /\ job = Off
  /\ said = Off /\ view = Off /\ ids = Off /\ stops = Off /\ agent = Off
  /\ seen = Off /\ snap = Off /\ open = Off /\ eps = Off /\ shot = Off
  /\ req = Off /\ emitted = Off
DialogStarts ==
  /\ part = "prompts" /\ Dialog!Init
  /\ running = Off /\ venv = Off /\ managed = Off /\ readers = Off /\ busy = Off
  /\ stage = Off /\ task = Off /\ promise = Off /\ proven = Off /\ ran = Off
  /\ inbox = Off /\ outbox = Off /\ linked = Off /\ asking = Off /\ jobs = Off
  /\ faults = Off /\ herdr = Off /\ now = Off /\ up = Off /\ live = Off
  /\ restored = Off /\ dirty = Off /\ timer = Off /\ file = Off /\ job = Off
  /\ said = Off /\ view = Off /\ ids = Off /\ stops = Off /\ agent = Off
  /\ seen = Off /\ snap = Off /\ open = Off /\ eps = Off /\ shot = Off
  /\ req = Off /\ emitted = Off
LearnedStarts ==
  /\ part = "learned" /\ Learned!Init
  /\ running = Off /\ venv = Off /\ managed = Off /\ readers = Off /\ busy = Off
  /\ stage = Off /\ task = Off /\ promise = Off /\ proven = Off /\ ran = Off
  /\ inbox = Off /\ outbox = Off /\ linked = Off /\ asking = Off /\ jobs = Off
  /\ faults = Off /\ herdr = Off /\ now = Off /\ up = Off /\ live = Off
  /\ restored = Off /\ dirty = Off /\ timer = Off /\ file = Off /\ job = Off
  /\ said = Off /\ view = Off /\ ids = Off /\ stops = Off /\ agent = Off
  /\ seen = Off /\ snap = Off /\ open = Off /\ eps = Off /\ shot = Off
  /\ req = Off /\ emitted = Off
UpdateStarts ==
  /\ part = "update" /\ Update!Init
  /\ fleet = Off /\ epoch = Off /\ log = Off /\ low = Off /\ queue = Off
  /\ pump = Off /\ sub = Off /\ conn = Off /\ connects = Off /\ listing = Off
  /\ wire = Off /\ uplink = Off /\ mem = Off /\ disk = Off /\ alerted = Off
  /\ herdr = Off /\ now = Off /\ up = Off /\ live = Off /\ restored = Off
  /\ dirty = Off /\ timer = Off /\ file = Off /\ job = Off /\ said = Off
  /\ view = Off /\ ids = Off /\ stops = Off /\ agent = Off /\ seen = Off
  /\ snap = Off /\ open = Off /\ eps = Off /\ shot = Off /\ req = Off
  /\ emitted = Off
ListsStarts ==
  /\ part = "lists" /\ Lists!Init
  /\ fleet = Off /\ epoch = Off /\ log = Off /\ low = Off /\ queue = Off
  /\ pump = Off /\ sub = Off /\ conn = Off /\ connects = Off /\ listing = Off
  /\ wire = Off /\ uplink = Off /\ mem = Off /\ disk = Off /\ alerted = Off
  /\ running = Off /\ venv = Off /\ managed = Off /\ readers = Off /\ busy = Off
  /\ stage = Off /\ task = Off /\ promise = Off /\ proven = Off /\ ran = Off
  /\ inbox = Off /\ outbox = Off /\ linked = Off /\ asking = Off /\ jobs = Off
  /\ faults = Off /\ agent = Off /\ seen = Off /\ snap = Off /\ open = Off
  /\ eps = Off /\ shot = Off /\ req = Off /\ emitted = Off
HubStarts ==
  /\ part = "hub" /\ Hub!Init
  /\ fleet = Off /\ epoch = Off /\ log = Off /\ low = Off /\ queue = Off
  /\ pump = Off /\ sub = Off /\ conn = Off /\ connects = Off /\ listing = Off
  /\ wire = Off /\ uplink = Off /\ mem = Off /\ disk = Off /\ alerted = Off
  /\ running = Off /\ venv = Off /\ managed = Off /\ readers = Off /\ busy = Off
  /\ stage = Off /\ task = Off /\ promise = Off /\ proven = Off /\ ran = Off
  /\ inbox = Off /\ outbox = Off /\ linked = Off /\ asking = Off /\ jobs = Off
  /\ faults = Off /\ herdr = Off /\ now = Off /\ up = Off /\ live = Off
  /\ restored = Off /\ dirty = Off /\ timer = Off /\ file = Off /\ job = Off
  /\ said = Off /\ view = Off /\ ids = Off /\ stops = Off
ScreenStarts ==
  /\ part = "screen" /\ Screen!Init
  /\ fleet = Off /\ epoch = Off /\ log = Off /\ low = Off /\ queue = Off
  /\ pump = Off /\ sub = Off /\ conn = Off /\ connects = Off /\ listing = Off
  /\ wire = Off /\ uplink = Off /\ mem = Off /\ disk = Off /\ alerted = Off
  /\ running = Off /\ venv = Off /\ managed = Off /\ readers = Off /\ busy = Off
  /\ stage = Off /\ task = Off /\ promise = Off /\ proven = Off /\ ran = Off
  /\ inbox = Off /\ outbox = Off /\ linked = Off /\ asking = Off /\ jobs = Off
  /\ faults = Off /\ herdr = Off /\ now = Off /\ up = Off /\ live = Off
  /\ restored = Off /\ dirty = Off /\ timer = Off /\ file = Off /\ job = Off
  /\ said = Off /\ view = Off /\ ids = Off /\ stops = Off

PartsInit == EventsStarts \/ DialogStarts \/ LearnedStarts

EventsRest == <<part, running, venv, managed, readers, busy, stage, task,
    promise, proven, ran, inbox, outbox, linked, asking, jobs, faults, herdr,
    now, up, live, restored, dirty, timer, file, job, said, view, ids, stops,
    agent, seen, snap, open, eps, shot, req, emitted>>
DialogRest == <<part, running, venv, managed, readers, busy, stage, task,
    promise, proven, ran, inbox, outbox, linked, asking, jobs, faults, herdr,
    now, up, live, restored, dirty, timer, file, job, said, view, ids, stops,
    agent, seen, snap, open, eps, shot, req, emitted>>
LearnedRest == <<part, running, venv, managed, readers, busy, stage, task,
    promise, proven, ran, inbox, outbox, linked, asking, jobs, faults, herdr,
    now, up, live, restored, dirty, timer, file, job, said, view, ids, stops,
    agent, seen, snap, open, eps, shot, req, emitted>>
UpdateRest == <<part, fleet, epoch, log, low, queue, pump, sub, conn,
    connects, listing, wire, uplink, mem, disk, alerted, herdr, now, up, live,
    restored, dirty, timer, file, job, said, view, ids, stops, agent, seen,
    snap, open, eps, shot, req, emitted>>
ListsRest == <<part, fleet, epoch, log, low, queue, pump, sub, conn, connects,
    listing, wire, uplink, mem, disk, alerted, running, venv, managed,
    readers, busy, stage, task, promise, proven, ran, inbox, outbox, linked,
    asking, jobs, faults, agent, seen, snap, open, eps, shot, req, emitted>>
HubRest == <<part, fleet, epoch, log, low, queue, pump, sub, conn, connects,
    listing, wire, uplink, mem, disk, alerted, running, venv, managed,
    readers, busy, stage, task, promise, proven, ran, inbox, outbox, linked,
    asking, jobs, faults, herdr, now, up, live, restored, dirty, timer, file,
    job, said, view, ids, stops>>
ScreenRest == <<part, fleet, epoch, log, low, queue, pump, sub, conn,
    connects, listing, wire, uplink, mem, disk, alerted, running, venv,
    managed, readers, busy, stage, task, promise, proven, ran, inbox, outbox,
    linked, asking, jobs, faults, herdr, now, up, live, restored, dirty,
    timer, file, job, said, view, ids, stops>>

EventsSteps == part = "events" /\ Next /\ UNCHANGED EventsRest
DialogSteps == part = "prompts" /\ Dialog!Next /\ UNCHANGED DialogRest
LearnedSteps == part = "learned" /\ Learned!Next /\ UNCHANGED LearnedRest
UpdateSteps == part = "update" /\ Update!Next /\ UNCHANGED UpdateRest
ListsSteps == part = "lists" /\ Lists!Next /\ UNCHANGED ListsRest
HubSteps == part = "hub" /\ Hub!Next /\ UNCHANGED HubRest
ScreenSteps == part = "screen" /\ Screen!Next /\ UNCHANGED ScreenRest

PartsNext == EventsSteps \/ DialogSteps \/ LearnedSteps \/ UpdateSteps \/ ListsSteps \/
        HubSteps \/ ScreenSteps

allVars == <<part, fleet, epoch, log, low, queue, pump, sub, conn, connects,
          listing, wire, uplink, mem, disk, alerted, running, venv, managed,
          readers, busy, stage, task, promise, proven, ran, inbox, outbox, linked,
          asking, jobs, faults, herdr, now, up, live, restored, dirty, timer,
          file, job, said, view, ids, stops, agent, seen, snap, open, eps, shot,
          req, emitted>>

PartsSpec == PartsInit /\ [][PartsNext]_allVars

ProgressInit == EventsStarts \/ UpdateStarts \/ ListsStarts \/ HubStarts \/ ScreenStarts

\* The fairness of each part, see its module.
EventsFair(A) == part = "events" /\ A /\ UNCHANGED EventsRest
UpdateFair(A) == part = "update" /\ A /\ UNCHANGED UpdateRest
ListsFair(A) == part = "lists" /\ A /\ UNCHANGED ListsRest
HubFair(A) == part = "hub" /\ A /\ UNCHANGED HubRest
ScreenFair(A) == part = "screen" /\ A /\ UNCHANGED ScreenRest
ProgressFairness ==
  /\ WF_allVars(EventsFair(PumpTake))
  /\ \A c \in Clients : WF_allVars(EventsFair(Bridge(c))) /\ WF_allVars(EventsFair(Receive(c)))
  /\ WF_allVars(UpdateFair(Update!BridgeStep))
  /\ WF_allVars(ListsFair(Lists!Poll)) /\ WF_allVars(ListsFair(Lists!Flush))
  /\ \A j \in {"list"} : WF_allVars(ListsFair(Lists!Answer(j)))
  /\ WF_allVars(UpdateFair(Update!Handle("desk")))
  /\ WF_allVars(UpdateFair(Update!Connect("desk")))
  /\ WF_allVars(UpdateFair(Update!Begin("desk")))
  /\ WF_allVars(UpdateFair(Update!ReceiveResult("desk")))
  /\ WF_allVars(UpdateFair(Update!ReceiveSnapshot("desk")))
  /\ WF_allVars(HubFair(Hub!BroadcastSnapshot)) /\ WF_allVars(HubFair(Hub!Observe))
  /\ \A s \in Hub!Readers : WF_allVars(HubFair(Hub!Capture(s)))
  /\ \A e \in Hub!EpisodeIds : WF_allVars(HubFair(Hub!FirstRead(e)))
  /\ \A e \in Hub!EpisodeIds : WF_allVars(HubFair(Hub!PollUnanswered(e)))
  /\ \A e \in Hub!EpisodeIds : WF_allVars(HubFair(Hub!Reread(e)))
  /\ \A r \in {r1} : WF_allVars(HubFair(Hub!FreshRead(r)))
  /\ \A r \in {r1} : WF_allVars(HubFair(Hub!CheckPane(r)))
  /\ \A r \in {r1} : WF_allVars(HubFair(Hub!TypeAnswer(r)))
  /\ \A r \in {r1} : WF_allVars(HubFair(Hub!SendReply(r)))
  /\ \A r \in {r1} : WF_allVars(HubFair(Hub!WatchWakes(r)))
  /\ \A r \in {r1} : WF_allVars(HubFair(Hub!WatchRead(r)))
  /\ WF_allVars(ScreenFair(Screen!BroadcastSnapshot)) /\ WF_allVars(ScreenFair(Screen!Observe))
  /\ \A s \in Screen!Readers : WF_allVars(ScreenFair(Screen!Capture(s)))
  /\ \A e \in Screen!EpisodeIds : WF_allVars(ScreenFair(Screen!FirstRead(e)))
  /\ \A e \in Screen!EpisodeIds : WF_allVars(ScreenFair(Screen!PollUnanswered(e)))
  /\ \A e \in Screen!EpisodeIds : WF_allVars(ScreenFair(Screen!Reread(e)))
  /\ \A r \in {r1} : WF_allVars(ScreenFair(Screen!FreshRead(r)))
  /\ \A r \in {r1} : WF_allVars(ScreenFair(Screen!CheckPane(r)))
  /\ \A r \in {r1} : WF_allVars(ScreenFair(Screen!TypeAnswer(r)))
  /\ \A r \in {r1} : WF_allVars(ScreenFair(Screen!SendReply(r)))
  /\ \A r \in {r1} : WF_allVars(ScreenFair(Screen!WatchWakes(r)))
  /\ \A r \in {r1} : WF_allVars(ScreenFair(Screen!WatchRead(r)))

ProgressSpec == ProgressInit /\ [][PartsNext]_allVars /\ ProgressFairness

\* Every part keeps its types.
PartsTypeOK ==
  /\ part = "events" => TypeOK

\* A cursor covers only events whose open episodes are known.
CursorIsKnown == part = "events" => CursorKnows

\* A question is alerted once, over reconnects and restarts of both sides, also
\* when it is asked after another one of its episode was answered.
AlertsOnce ==
  /\ part = "events" => AlertedOnce
  /\ part = "prompts" => Dialog!AlertedOnce

\* An up-to-date runtime has the question each blocked pane asks.
ShowsEveryQuestion == part = "prompts" => Dialog!ShowsTheQuestion

\* No event is passed over without a gap that is told, and an open episode nobody
\* answered becomes known only by alerting it.
NothingIsSkipped ==
  [][/\ part = "events" => SkipsNone
     /\ part = "learned" => Learned!AlertsWhatItLearns]_allVars

\* A runtime that stays connected hears of everything that was emitted.
HandlesAll ==
  \A c \in Clients :
    (part = "events" /\ conn[c] = "up")
      ~> (part = "events" => conn[c] # "up" \/ UpToDate(c))

\* An update that was started ends, and whoever asked for it hears how.
UpdateEnds ==
  /\ (part = "update" /\ busy) ~> (part = "update" => ~busy)
  /\ (part = "update" /\ Update!Promised("desk"))
       ~> (part = "update" => ~Update!Running("desk"))

\* As long as any pane is left, every poll is broadcast, so no client keeps an
\* old list.
ViewsConvergeWithPanes ==
  <>[](part = "lists" /\ up /\ Lists!PanesLeft) => <>[](part = "lists" => Lists!Shows)

\* Every blocked episode is announced, although its first
\* read fails or times out, unless it ends.
BlockedIsAnnounced ==
  \A e \in Hub!EpisodeIds :
    (part = "hub" /\ Hub!Unannounced(e)) ~> (part = "hub" => ~Hub!Unannounced(e))

\* Every answer request comes to an end, and with it its hold on the episode,
\* whichever of its reads and RPCs fail.
RequestsEnd ==
  \A r \in {r1} :
    (part = "hub" /\ Hub!Asked(r)) ~> (part = "hub" => Hub!Settled(r))

\* As long as reads succeed, and while nobody answers through the bridge, a question that stays on the screen
\* of an open episode is what its clients are told in the end.
NewQuestionIsTold ==
  \A p \in {"p"}, q \in {"q1", "q2"} :
    (part = "screen" /\ Screen!Waiting(p, q))
      ~> (part = "screen" => (Screen!Waiting(p, q) => Screen!Told(p, q)))

-----------------------------------------------------------------------------
(* What the run checks of two parts, from the theorems about EventFanout.   *)

\* A step of a part is a step of the run that stays with this part.
LEMMA OneAtATime ==
  /\ EventsSteps => part' = "events"
  /\ DialogSteps => part' = "prompts"
  /\ LearnedSteps => part' = "learned"
  /\ UpdateSteps => part' = "update"
  /\ ListsSteps => part' = "lists"
  /\ HubSteps => part' = "hub"
  /\ ScreenSteps => part' = "screen"
<1>1. EventsSteps => part' = "events"
  BY DEF EventsSteps, EventsRest
<1>2. DialogSteps => part' = "prompts"
  BY DEF DialogSteps, DialogRest
<1>3. LearnedSteps => part' = "learned"
  BY DEF LearnedSteps, LearnedRest
<1>4. UpdateSteps => part' = "update"
  BY DEF UpdateSteps, UpdateRest
<1>5. ListsSteps => part' = "lists"
  BY DEF ListsSteps, ListsRest
<1>6. HubSteps => part' = "hub"
  BY DEF HubSteps, HubRest
<1>7. ScreenSteps => part' = "screen"
  BY DEF ScreenSteps, ScreenRest
<1> QED BY <1>1, <1>2, <1>3, <1>4, <1>5, <1>6, <1>7

\* A behaviour of the part with crashes and failed lists starts as EventFanout does,
\* and takes its steps.
LEMMA EventsRuns ==
  /\ PartsInit /\ part = "events" => Init
  /\ [PartsNext]_allVars /\ part' = "events" => part = "events" /\ [Next]_vars
<1>1. PartsInit /\ part = "events" => Init
  BY DEF PartsInit, EventsStarts, DialogStarts, LearnedStarts
<1>2. ASSUME [PartsNext]_allVars, part' = "events"
      PROVE  part = "events" /\ [Next]_vars
  <2>1. CASE UNCHANGED allVars
    BY <1>2, <2>1 DEF allVars, vars, hub, link, runtime
  <2>2. CASE EventsSteps
    BY <2>2 DEF EventsSteps, EventsRest
  <2>3. CASE PartsNext /\ ~EventsSteps
    BY <1>2, <2>3, OneAtATime DEF PartsNext
  <2> QED BY <1>2, <2>1, <2>2, <2>3
<1> QED BY <1>1, <1>2

\* The same of the one in which an episode asks a second question.
LEMMA DialogRuns ==
  /\ PartsInit /\ part = "prompts" => Dialog!Init
  /\ [PartsNext]_allVars /\ part' = "prompts" => part = "prompts" /\ [Dialog!Next]_(Dialog!vars)
<1>1. PartsInit /\ part = "prompts" => Dialog!Init
  BY DEF PartsInit, EventsStarts, DialogStarts, LearnedStarts
<1>2. ASSUME [PartsNext]_allVars, part' = "prompts"
      PROVE  part = "prompts" /\ [Dialog!Next]_(Dialog!vars)
  <2>1. CASE UNCHANGED allVars
    BY <1>2, <2>1 DEF allVars, Dialog!vars, Dialog!hub, Dialog!link, Dialog!runtime
  <2>2. CASE DialogSteps
    BY <2>2 DEF DialogSteps, DialogRest
  <2>3. CASE PartsNext /\ ~DialogSteps
    BY <1>2, <2>3, OneAtATime DEF PartsNext
  <2> QED BY <1>2, <2>1, <2>2, <2>3
<1> QED BY <1>1, <1>2

\* The sizes of the second part are sizes.
LEMMA DialogIsGiven == Dialog!FanoutAssumption /\ Dialog!NoneAssumption /\ Dialog!AlertCrashIsSafe
<1>1. Dialog!FanoutAssumption
  BY DEF Dialog!FanoutAssumption
<1>2. Dialog!NoneAssumption
  BY PartsAssumption
<1>3. Dialog!AlertCrashIsSafe
  BY DEF Dialog!AlertCrashIsSafe
<1> QED BY <1>1, <1>2, <1>3

\* The cursor a runtime saves (live_events.py, _ev_replay and _on_lifecycle) never
\* covers the blocked event of an open episode it does not know: for the part of
\* the run that has crashes and failed lists.
THEOREM EventsPartKnows ==
  ASSUME ~Watchdog
  PROVE  PartsSpec => []CursorIsKnown
<1> DEFINE EventsInv == part = "events" => IInv
<1>1. PartsInit => EventsInv
  BY InitIInv, EventsRuns
<1>2. EventsInv /\ [PartsNext]_allVars => EventsInv'
  BY StepIInv, EventsRuns
<1>3. EventsInv => CursorIsKnown
  BY DEF CursorIsKnown, IInv
<1> QED BY <1>1, <1>2, <1>3, PTL DEF PartsSpec

\* A runtime alerts a question once (live_events.py, _ev_handle and _ev_replay), in
\* the part with crashes and failed lists and in the one in which an episode asks a
\* second question.
THEOREM PartsAlertOnce ==
  ASSUME ~Watchdog, AlertCrashIsSafe
  PROVE  PartsSpec => []AlertsOnce
<1> DEFINE EventsInv == part = "events" => AInv
           DialogInv == part = "prompts" => Dialog!AInv
<1>1. PartsInit => EventsInv
  BY InitAInv, EventsRuns
<1>2. EventsInv /\ [PartsNext]_allVars => EventsInv'
  BY StepAInv, EventsRuns
<1>3. PartsInit => DialogInv
  BY DialogIsGiven, Dialog!InitAInv, DialogRuns
<1>4. DialogInv /\ [PartsNext]_allVars => DialogInv'
  BY DialogIsGiven, Dialog!StepAInv, DialogRuns
<1>5. EventsInv /\ DialogInv => AlertsOnce
  BY AInvOnce, DialogIsGiven, Dialog!AInvOnce DEF AlertsOnce
<1> QED BY <1>1, <1>2, <1>3, <1>4, <1>5, PTL DEF PartsSpec

\* The part with crashes and failed lists keeps its types.
THEOREM PartsTyped ==
  ASSUME ~Watchdog, AlertCrashIsSafe
  PROVE  PartsSpec => []PartsTypeOK
<1> DEFINE EventsInv == part = "events" => AInv
<1>1. PartsInit => EventsInv
  BY InitAInv, EventsRuns
<1>2. EventsInv /\ [PartsNext]_allVars => EventsInv'
  BY StepAInv, EventsRuns
<1>3. EventsInv => PartsTypeOK
  BY AInvTypes DEF PartsTypeOK
<1> QED BY <1>1, <1>2, <1>3, PTL DEF PartsSpec

\* An up-to-date runtime shows the question each blocked pane asks
\* (live_events.py, _ev_handle and _ev_replay), also when an episode asks a second
\* one and whatever a replay leaves out.
THEOREM PartsShowEveryQuestion ==
  PartsSpec => []ShowsEveryQuestion
<1> DEFINE DialogInv == part = "prompts" => Dialog!AInv /\ Dialog!VInv /\ Dialog!PInv
<1>1. Dialog!Calm
  BY DEF Dialog!Calm
<1>2. PartsInit => DialogInv
  BY DialogIsGiven, Dialog!InitAInv, Dialog!InitViews, Dialog!InitPrompts, DialogRuns
<1>3. DialogInv /\ [PartsNext]_allVars => DialogInv'
  BY <1>1, DialogIsGiven, Dialog!StepAInv, Dialog!StepPrompts, DialogRuns
<1>4. DialogInv => ShowsEveryQuestion
  BY DialogIsGiven, Dialog!PromptsShown DEF ShowsEveryQuestion, Dialog!AInv, Dialog!TInv
<1> QED BY <1>2, <1>3, <1>4, PTL DEF PartsSpec
==============================================================================
