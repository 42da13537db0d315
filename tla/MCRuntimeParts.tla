--------------------------- MODULE MCRuntimeParts ----------------------------
(***************************************************************************)
(* Parts of the runtime, and of the services that alert its user, that     *)
(* share no state, each a behaviour of its own: banners and their feed to  *)
(* the desktop, Telegram alerts and taps, the usage of the accounts, the   *)
(* connection to the bridge and its update, the semantic API, and the      *)
(* commands that set up T3, the hooks, the usage agent and the services.   *)
(***************************************************************************)
EXTENDS Integers, Sequences, FiniteSets, TLC, TLAPS

VARIABLES
    part,   \* the part this behaviour runs
    agent, lifecycle, todo, spent, bannered, threads, reminder, deferred, claim,
    lapses, screen, told, missed, last, notices, kept, acked, falling,
    droppedSeqs, shell, seen, posted, troubles, now, asked, hub, known, prompt,
    answered, tasks, record, chat, alerted, answers, hits, begun, reminded, armed,
    waiting, restarts, confirmed, bot, offset, interactor, poll, acted, ignored,
    fresh, changes, faults, bridges, undecided, mode, local, shut, pollers,
    evaluating, reports, goodAt, usedNow, polled, live, judging, trackers,
    alertCount, switches, state, stopping, conn, far, wire, probe, managed,
    attempt, running, venv, readers, busy, stage, task, promise, proven, ran,
    inbox, outbox, linked, asking, jobs, thread, late, link, cache, offer, tile,
    uncertain, deliveries, denied, job, held, minted, doubts, bounds, results,
    executions, challenges, wiring, source, sentAt, pane, looking, bridge, config,
    marker, picked, cred, session, gone, file, theirs, up, sent, queue, serving,
    replies, waits, outcome, summary, saves, drops, usage, unit, req, plist,
    system, loaded, neglected, runs, boots, used, plan, servers, proc, nextId, at,
    got, data, closing, tokens, mtime, holder, editors, deck, watched, budget

Extending(parent, field) == [ext |-> parent, sec |-> field :> 1, sel |-> FALSE]
GivenProfiles ==
  {"p" :> Extending("none", "f"), ("p" :> Extending("none", "f")) @@ ("q" :> Extending("p", "g"))}
LevelsOfServer == <<{1, 2}, {2}>>
CallerOfKey == [k \in {"a", "b", "c"} |-> IF k = "c" THEN "other" ELSE "one"]
GivenFiles ==
  { [rest |-> 0, listed |-> TRUE,
     hooks |-> [e \in {"start"} |-> << <<"user", "stale">>, <<"user">>, <<"ours">> >>]],
    [rest |-> 0, listed |-> TRUE,
     hooks |-> [e \in {"start", "other"} |-> IF e = "start" THEN <<>> ELSE << <<"stale">> >>]] }

Banner == INSTANCE Banners WITH MaxTurns <- 3, RemindMax <- 1, MaxLapses <- 0,
    AtOnce <- TRUE
Notices == INSTANCE NotifyFeed WITH Capacity <- 2, MaxItems <- 4, MaxFaults <- 2
Telegram == INSTANCE TelegramAlerts WITH MaxQuestions <- 3, MaxAlerts <- 3,
    MaxRestarts <- 0, RemindMax <- 0, Confirms <- {}, PromptKnown <- TRUE
Reminds == INSTANCE TelegramAlerts WITH MaxQuestions <- 2, MaxAlerts <- 2,
    MaxRestarts <- 1, RemindMax <- 1, Confirms <- {"stop"}, PromptKnown <- TRUE
Taps == INSTANCE TelegramPoll WITH Bots <- {1, 2}, MaxTaps <- 2, MaxChanges <- 1,
    MaxFaults <- 1
Sources == INSTANCE UsageSource WITH Servers <- {"a", "b"}, Grace <- 1,
    EmptyGrace <- 2, MaxNow <- 3, MaxReports <- 4, MaxPollers <- 2
Levels == INSTANCE UsageAlerts WITH Servers <- {1, 2}, Levels <- {1, 2},
    LevelsOf <- LevelsOfServer, OwnLevels <- {1, 2}, Lags <- FALSE,
    Dated <- BOOLEAN, PeriodDrop <- 1, MaxNow <- 1, MaxSwitches <- 3
Link == INSTANCE Connection WITH MaxConnects <- 2, MaxAttempt <- 1
Update == INSTANCE SelfUpdateProofs WITH Runtimes <- {"desk", "phone"},
    ReadOnly <- {"phone"},
    Own <- [r \in {"desk", "phone"} |-> IF r = "desk" THEN 2 ELSE 3],
    FirstSelfUpdate <- 1, FirstVersion <- 1, MaxAsks <- 1, MaxFaults <- 1
T3 == INSTANCE T3DeliveryProofs WITH Actions <- {"reply", "plan"},
    Plans <- {"plan"}, OnlyFirst <- {"plan"}, Memory <- 3, Refusals <- FALSE,
    MaxVersion <- 2, MaxEpoch <- 2, MaxPresses <- 2, MaxFaults <- 3
API == INSTANCE SemanticAPI WITH Keys <- {"a", "b", "c"}, CallerOf <- CallerOfKey,
    Terminals <- {1}, Ops <- {"approve", "text"}, KeyTtl <- 1, ConfirmTtl <- 1,
    KeyLimit <- 2, ConfirmLimit <- 1, SwapsAtOnce <- TRUE, HoldsStill <- TRUE,
    MaxNow <- 1, MaxIssued <- 1, MaxGen <- 2, MaxReloads <- 1, MaxQuestions <- 0
Picks == INSTANCE SemanticAPI WITH Keys <- {"a"}, CallerOf <- CallerOfKey,
    Terminals <- {1, 2}, Ops <- {"choice"}, KeyTtl <- 1, ConfirmTtl <- 1,
    KeyLimit <- 2, ConfirmLimit <- 1, SwapsAtOnce <- TRUE, HoldsStill <- TRUE,
    MaxNow <- 1, MaxIssued <- 0, MaxGen <- 2, MaxReloads <- 0, MaxQuestions <- 2
Setup == INSTANCE T3Setup WITH Jobs <- {1},
    Ops <- {"connect", "remote", "disconnect", "renew", "renewAll"},
    EditsAnytime <- FALSE, RestartLies <- FALSE, MaxSessions <- 3, MaxEdits <- 1,
    MaxFaults <- 2
Renewals == INSTANCE T3Setup WITH Jobs <- {1, 2}, Ops <- {"renew", "disconnect"},
    EditsAnytime <- FALSE, RestartLies <- FALSE, MaxSessions <- 3, MaxEdits <- 1,
    MaxFaults <- 1
Edits == INSTANCE HookFiles WITH Events <- {"start", "other"},
    Wanted <- {"start"}, Given <- GivenFiles, CliRuns <- TRUE,
    SavesAnytime <- FALSE, MaxReqs <- 1, MaxSaves <- 1, MaxDrops <- 0
Asks == INSTANCE HookFiles WITH Events <- {"start", "other"}, Wanted <- {"start"},
    Given <- {}, CliRuns <- FALSE, SavesAnytime <- FALSE, MaxReqs <- 2,
    MaxSaves <- 0, MaxDrops <- 1
Agent == INSTANCE UsageAgent WITH MaxAge <- 1, BootoutFails <- FALSE,
    LoginAnytime <- FALSE, MaxNow <- 1, MaxUses <- 1, MaxReqs <- 2, MaxFaults <- 1
Units == INSTANCE Services WITH Versions <- {1, 2}, MixesDomains <- FALSE,
    Kills <- FALSE, MaxRuns <- 2, MaxFaults <- 2, MaxBoots <- 1
Polls == INSTANCE UsagePoll WITH PaidOnly <- TRUE, CacheAge <- 0, StaleAge <- 1,
    SlowSpawn <- FALSE, MaxNow <- 2, MaxUsed <- 1, MaxFaults <- 1
Grows == INSTANCE UsagePoll WITH PaidOnly <- TRUE, CacheAge <- 0, StaleAge <- 0,
    SlowSpawn <- FALSE, MaxNow <- 1, MaxUsed <- 2, MaxFaults <- 1
Files == INSTANCE ConfigFiles WITH Editors <- {"e1", "e2"}, Blind <- {},
    Starts <- GivenProfiles, MaxChanges <- 2, MaxFaults <- 1, SlowReads <- FALSE,
    HandsAnytime <- FALSE
Blindly == INSTANCE ConfigFiles WITH Editors <- {"e1"}, Blind <- {"e1"},
    Starts <- GivenProfiles, MaxChanges <- 2, MaxFaults <- 0, SlowReads <- TRUE,
    HandsAnytime <- FALSE

\* The parts run with constants they are meant for.
ASSUME PartsAssumption ==
  /\ Banner!AtOnceBoolean
  /\ Notices!CapacityPositive
  /\ Telegram!PromptKnownBoolean
  /\ Reminds!PromptKnownBoolean
  /\ Sources!GracesPositive
  /\ Levels!LevelsOfType
  /\ T3!OfActions
  /\ Agent!UsageAgentConstants

Off == "off"   \* the state of the parts that do not run

BannerStarts ==
  /\ part = "banners" /\ Banner!Init
  /\ last = Off /\ notices = Off /\ kept = Off /\ acked = Off /\ falling = Off
  /\ droppedSeqs = Off /\ shell = Off /\ seen = Off /\ posted = Off
  /\ troubles = Off /\ now = Off /\ asked = Off /\ hub = Off /\ known = Off
  /\ prompt = Off /\ answered = Off /\ tasks = Off /\ record = Off /\ chat = Off
  /\ alerted = Off /\ answers = Off /\ hits = Off /\ begun = Off /\ reminded = Off
  /\ armed = Off /\ waiting = Off /\ restarts = Off /\ confirmed = Off
  /\ bot = Off /\ offset = Off /\ interactor = Off /\ poll = Off /\ acted = Off
  /\ ignored = Off /\ fresh = Off /\ changes = Off /\ faults = Off
  /\ bridges = Off /\ undecided = Off /\ mode = Off /\ local = Off /\ shut = Off
  /\ pollers = Off /\ evaluating = Off /\ reports = Off /\ goodAt = Off
  /\ usedNow = Off /\ polled = Off /\ live = Off /\ judging = Off
  /\ trackers = Off /\ alertCount = Off /\ switches = Off /\ state = Off
  /\ stopping = Off /\ conn = Off /\ far = Off /\ wire = Off /\ probe = Off
  /\ managed = Off /\ attempt = Off /\ running = Off /\ venv = Off
  /\ readers = Off /\ busy = Off /\ stage = Off /\ task = Off /\ promise = Off
  /\ proven = Off /\ ran = Off /\ inbox = Off /\ outbox = Off /\ linked = Off
  /\ asking = Off /\ jobs = Off /\ thread = Off /\ late = Off /\ link = Off
  /\ cache = Off /\ offer = Off /\ tile = Off /\ uncertain = Off
  /\ deliveries = Off /\ denied = Off /\ job = Off /\ held = Off /\ minted = Off
  /\ doubts = Off /\ bounds = Off /\ results = Off /\ executions = Off
  /\ challenges = Off /\ wiring = Off /\ source = Off /\ sentAt = Off
  /\ pane = Off /\ looking = Off /\ bridge = Off /\ config = Off /\ marker = Off
  /\ picked = Off /\ cred = Off /\ session = Off /\ gone = Off /\ file = Off
  /\ theirs = Off /\ up = Off /\ sent = Off /\ queue = Off /\ serving = Off
  /\ replies = Off /\ waits = Off /\ outcome = Off /\ summary = Off /\ saves = Off
  /\ drops = Off /\ usage = Off /\ unit = Off /\ req = Off /\ plist = Off
  /\ system = Off /\ loaded = Off /\ neglected = Off /\ runs = Off /\ boots = Off
  /\ used = Off /\ plan = Off /\ servers = Off /\ proc = Off /\ nextId = Off
  /\ at = Off /\ got = Off /\ data = Off /\ closing = Off /\ tokens = Off
  /\ mtime = Off /\ holder = Off /\ editors = Off /\ deck = Off /\ watched = Off
  /\ budget = Off
NoticesStarts ==
  /\ part = "notices" /\ Notices!Init
  /\ agent = Off /\ lifecycle = Off /\ todo = Off /\ spent = Off /\ bannered = Off
  /\ threads = Off /\ reminder = Off /\ deferred = Off /\ claim = Off
  /\ lapses = Off /\ screen = Off /\ told = Off /\ missed = Off /\ now = Off
  /\ asked = Off /\ hub = Off /\ known = Off /\ prompt = Off /\ answered = Off
  /\ tasks = Off /\ record = Off /\ chat = Off /\ alerted = Off /\ answers = Off
  /\ hits = Off /\ begun = Off /\ reminded = Off /\ armed = Off /\ waiting = Off
  /\ restarts = Off /\ confirmed = Off /\ bot = Off /\ offset = Off
  /\ interactor = Off /\ poll = Off /\ acted = Off /\ ignored = Off /\ fresh = Off
  /\ changes = Off /\ faults = Off /\ bridges = Off /\ undecided = Off
  /\ mode = Off /\ local = Off /\ shut = Off /\ pollers = Off /\ evaluating = Off
  /\ reports = Off /\ goodAt = Off /\ usedNow = Off /\ polled = Off /\ live = Off
  /\ judging = Off /\ trackers = Off /\ alertCount = Off /\ switches = Off
  /\ state = Off /\ stopping = Off /\ conn = Off /\ far = Off /\ wire = Off
  /\ probe = Off /\ managed = Off /\ attempt = Off /\ running = Off /\ venv = Off
  /\ readers = Off /\ busy = Off /\ stage = Off /\ task = Off /\ promise = Off
  /\ proven = Off /\ ran = Off /\ inbox = Off /\ outbox = Off /\ linked = Off
  /\ asking = Off /\ jobs = Off /\ thread = Off /\ late = Off /\ link = Off
  /\ cache = Off /\ offer = Off /\ tile = Off /\ uncertain = Off
  /\ deliveries = Off /\ denied = Off /\ job = Off /\ held = Off /\ minted = Off
  /\ doubts = Off /\ bounds = Off /\ results = Off /\ executions = Off
  /\ challenges = Off /\ wiring = Off /\ source = Off /\ sentAt = Off
  /\ pane = Off /\ looking = Off /\ bridge = Off /\ config = Off /\ marker = Off
  /\ picked = Off /\ cred = Off /\ session = Off /\ gone = Off /\ file = Off
  /\ theirs = Off /\ up = Off /\ sent = Off /\ queue = Off /\ serving = Off
  /\ replies = Off /\ waits = Off /\ outcome = Off /\ summary = Off /\ saves = Off
  /\ drops = Off /\ usage = Off /\ unit = Off /\ req = Off /\ plist = Off
  /\ system = Off /\ loaded = Off /\ neglected = Off /\ runs = Off /\ boots = Off
  /\ used = Off /\ plan = Off /\ servers = Off /\ proc = Off /\ nextId = Off
  /\ at = Off /\ got = Off /\ data = Off /\ closing = Off /\ tokens = Off
  /\ mtime = Off /\ holder = Off /\ editors = Off /\ deck = Off /\ watched = Off
  /\ budget = Off
TelegramStarts ==
  /\ part = "telegram" /\ Telegram!Init
  /\ agent = Off /\ lifecycle = Off /\ todo = Off /\ spent = Off /\ bannered = Off
  /\ threads = Off /\ deferred = Off /\ claim = Off /\ lapses = Off
  /\ screen = Off /\ told = Off /\ missed = Off /\ last = Off /\ notices = Off
  /\ kept = Off /\ acked = Off /\ falling = Off /\ droppedSeqs = Off
  /\ shell = Off /\ seen = Off /\ posted = Off /\ troubles = Off
  /\ confirmed = Off /\ bot = Off /\ offset = Off /\ interactor = Off
  /\ poll = Off /\ acted = Off /\ ignored = Off /\ fresh = Off /\ changes = Off
  /\ faults = Off /\ bridges = Off /\ undecided = Off /\ mode = Off /\ local = Off
  /\ shut = Off /\ pollers = Off /\ evaluating = Off /\ reports = Off
  /\ goodAt = Off /\ usedNow = Off /\ polled = Off /\ live = Off /\ judging = Off
  /\ trackers = Off /\ alertCount = Off /\ switches = Off /\ state = Off
  /\ stopping = Off /\ conn = Off /\ far = Off /\ wire = Off /\ probe = Off
  /\ managed = Off /\ attempt = Off /\ running = Off /\ venv = Off
  /\ readers = Off /\ busy = Off /\ stage = Off /\ task = Off /\ promise = Off
  /\ proven = Off /\ ran = Off /\ inbox = Off /\ outbox = Off /\ linked = Off
  /\ asking = Off /\ jobs = Off /\ thread = Off /\ late = Off /\ link = Off
  /\ cache = Off /\ offer = Off /\ tile = Off /\ uncertain = Off
  /\ deliveries = Off /\ denied = Off /\ job = Off /\ held = Off /\ minted = Off
  /\ doubts = Off /\ bounds = Off /\ results = Off /\ executions = Off
  /\ challenges = Off /\ wiring = Off /\ source = Off /\ sentAt = Off
  /\ pane = Off /\ looking = Off /\ bridge = Off /\ config = Off /\ marker = Off
  /\ picked = Off /\ cred = Off /\ session = Off /\ gone = Off /\ file = Off
  /\ theirs = Off /\ up = Off /\ sent = Off /\ queue = Off /\ serving = Off
  /\ replies = Off /\ waits = Off /\ outcome = Off /\ summary = Off /\ saves = Off
  /\ drops = Off /\ usage = Off /\ unit = Off /\ req = Off /\ plist = Off
  /\ system = Off /\ loaded = Off /\ neglected = Off /\ runs = Off /\ boots = Off
  /\ used = Off /\ plan = Off /\ servers = Off /\ proc = Off /\ nextId = Off
  /\ at = Off /\ got = Off /\ data = Off /\ closing = Off /\ tokens = Off
  /\ mtime = Off /\ holder = Off /\ editors = Off /\ deck = Off /\ watched = Off
  /\ budget = Off
RemindsStarts ==
  /\ part = "reminds" /\ Reminds!Init
  /\ agent = Off /\ lifecycle = Off /\ todo = Off /\ spent = Off /\ bannered = Off
  /\ threads = Off /\ deferred = Off /\ claim = Off /\ lapses = Off
  /\ screen = Off /\ told = Off /\ missed = Off /\ last = Off /\ notices = Off
  /\ kept = Off /\ acked = Off /\ falling = Off /\ droppedSeqs = Off
  /\ shell = Off /\ seen = Off /\ posted = Off /\ troubles = Off
  /\ confirmed = Off /\ bot = Off /\ offset = Off /\ interactor = Off
  /\ poll = Off /\ acted = Off /\ ignored = Off /\ fresh = Off /\ changes = Off
  /\ faults = Off /\ bridges = Off /\ undecided = Off /\ mode = Off /\ local = Off
  /\ shut = Off /\ pollers = Off /\ evaluating = Off /\ reports = Off
  /\ goodAt = Off /\ usedNow = Off /\ polled = Off /\ live = Off /\ judging = Off
  /\ trackers = Off /\ alertCount = Off /\ switches = Off /\ state = Off
  /\ stopping = Off /\ conn = Off /\ far = Off /\ wire = Off /\ probe = Off
  /\ managed = Off /\ attempt = Off /\ running = Off /\ venv = Off
  /\ readers = Off /\ busy = Off /\ stage = Off /\ task = Off /\ promise = Off
  /\ proven = Off /\ ran = Off /\ inbox = Off /\ outbox = Off /\ linked = Off
  /\ asking = Off /\ jobs = Off /\ thread = Off /\ late = Off /\ link = Off
  /\ cache = Off /\ offer = Off /\ tile = Off /\ uncertain = Off
  /\ deliveries = Off /\ denied = Off /\ job = Off /\ held = Off /\ minted = Off
  /\ doubts = Off /\ bounds = Off /\ results = Off /\ executions = Off
  /\ challenges = Off /\ wiring = Off /\ source = Off /\ sentAt = Off
  /\ pane = Off /\ looking = Off /\ bridge = Off /\ config = Off /\ marker = Off
  /\ picked = Off /\ cred = Off /\ session = Off /\ gone = Off /\ file = Off
  /\ theirs = Off /\ up = Off /\ sent = Off /\ queue = Off /\ serving = Off
  /\ replies = Off /\ waits = Off /\ outcome = Off /\ summary = Off /\ saves = Off
  /\ drops = Off /\ usage = Off /\ unit = Off /\ req = Off /\ plist = Off
  /\ system = Off /\ loaded = Off /\ neglected = Off /\ runs = Off /\ boots = Off
  /\ used = Off /\ plan = Off /\ servers = Off /\ proc = Off /\ nextId = Off
  /\ at = Off /\ got = Off /\ data = Off /\ closing = Off /\ tokens = Off
  /\ mtime = Off /\ holder = Off /\ editors = Off /\ deck = Off /\ watched = Off
  /\ budget = Off
TapsStarts ==
  /\ part = "taps" /\ Taps!Init
  /\ agent = Off /\ lifecycle = Off /\ todo = Off /\ spent = Off /\ bannered = Off
  /\ threads = Off /\ reminder = Off /\ deferred = Off /\ claim = Off
  /\ lapses = Off /\ screen = Off /\ told = Off /\ missed = Off /\ last = Off
  /\ notices = Off /\ kept = Off /\ acked = Off /\ falling = Off
  /\ droppedSeqs = Off /\ shell = Off /\ seen = Off /\ troubles = Off /\ now = Off
  /\ asked = Off /\ hub = Off /\ known = Off /\ prompt = Off /\ answered = Off
  /\ tasks = Off /\ record = Off /\ chat = Off /\ alerted = Off /\ answers = Off
  /\ hits = Off /\ begun = Off /\ reminded = Off /\ armed = Off /\ waiting = Off
  /\ restarts = Off /\ bridges = Off /\ undecided = Off /\ mode = Off
  /\ local = Off /\ shut = Off /\ pollers = Off /\ evaluating = Off
  /\ reports = Off /\ goodAt = Off /\ usedNow = Off /\ polled = Off /\ live = Off
  /\ judging = Off /\ trackers = Off /\ alertCount = Off /\ switches = Off
  /\ state = Off /\ stopping = Off /\ conn = Off /\ far = Off /\ wire = Off
  /\ probe = Off /\ managed = Off /\ attempt = Off /\ running = Off /\ venv = Off
  /\ readers = Off /\ busy = Off /\ stage = Off /\ task = Off /\ promise = Off
  /\ proven = Off /\ ran = Off /\ inbox = Off /\ outbox = Off /\ linked = Off
  /\ asking = Off /\ jobs = Off /\ thread = Off /\ late = Off /\ link = Off
  /\ cache = Off /\ offer = Off /\ tile = Off /\ uncertain = Off
  /\ deliveries = Off /\ denied = Off /\ job = Off /\ held = Off /\ minted = Off
  /\ doubts = Off /\ bounds = Off /\ results = Off /\ executions = Off
  /\ challenges = Off /\ wiring = Off /\ source = Off /\ sentAt = Off
  /\ pane = Off /\ looking = Off /\ bridge = Off /\ config = Off /\ marker = Off
  /\ picked = Off /\ cred = Off /\ session = Off /\ gone = Off /\ file = Off
  /\ theirs = Off /\ up = Off /\ sent = Off /\ queue = Off /\ serving = Off
  /\ replies = Off /\ waits = Off /\ outcome = Off /\ summary = Off /\ saves = Off
  /\ drops = Off /\ usage = Off /\ unit = Off /\ req = Off /\ plist = Off
  /\ system = Off /\ loaded = Off /\ neglected = Off /\ runs = Off /\ boots = Off
  /\ used = Off /\ plan = Off /\ servers = Off /\ proc = Off /\ nextId = Off
  /\ at = Off /\ got = Off /\ data = Off /\ closing = Off /\ tokens = Off
  /\ mtime = Off /\ holder = Off /\ editors = Off /\ deck = Off /\ watched = Off
  /\ budget = Off
SourcesStarts ==
  /\ part = "usage" /\ Sources!Init
  /\ agent = Off /\ lifecycle = Off /\ todo = Off /\ spent = Off /\ bannered = Off
  /\ threads = Off /\ reminder = Off /\ deferred = Off /\ claim = Off
  /\ lapses = Off /\ screen = Off /\ told = Off /\ missed = Off /\ last = Off
  /\ notices = Off /\ kept = Off /\ acked = Off /\ falling = Off
  /\ droppedSeqs = Off /\ shell = Off /\ seen = Off /\ posted = Off
  /\ troubles = Off /\ asked = Off /\ hub = Off /\ known = Off /\ prompt = Off
  /\ answered = Off /\ tasks = Off /\ record = Off /\ chat = Off /\ alerted = Off
  /\ answers = Off /\ hits = Off /\ begun = Off /\ reminded = Off /\ armed = Off
  /\ waiting = Off /\ restarts = Off /\ confirmed = Off /\ bot = Off
  /\ offset = Off /\ interactor = Off /\ poll = Off /\ acted = Off
  /\ ignored = Off /\ fresh = Off /\ changes = Off /\ faults = Off
  /\ usedNow = Off /\ polled = Off /\ live = Off /\ judging = Off
  /\ trackers = Off /\ alertCount = Off /\ switches = Off /\ state = Off
  /\ stopping = Off /\ conn = Off /\ far = Off /\ wire = Off /\ probe = Off
  /\ managed = Off /\ attempt = Off /\ running = Off /\ venv = Off
  /\ readers = Off /\ busy = Off /\ stage = Off /\ task = Off /\ promise = Off
  /\ proven = Off /\ ran = Off /\ inbox = Off /\ outbox = Off /\ linked = Off
  /\ asking = Off /\ jobs = Off /\ thread = Off /\ late = Off /\ link = Off
  /\ cache = Off /\ offer = Off /\ tile = Off /\ uncertain = Off
  /\ deliveries = Off /\ denied = Off /\ job = Off /\ held = Off /\ minted = Off
  /\ doubts = Off /\ bounds = Off /\ results = Off /\ executions = Off
  /\ challenges = Off /\ wiring = Off /\ source = Off /\ sentAt = Off
  /\ pane = Off /\ looking = Off /\ bridge = Off /\ config = Off /\ marker = Off
  /\ picked = Off /\ cred = Off /\ session = Off /\ gone = Off /\ file = Off
  /\ theirs = Off /\ up = Off /\ sent = Off /\ queue = Off /\ serving = Off
  /\ replies = Off /\ waits = Off /\ outcome = Off /\ summary = Off /\ saves = Off
  /\ drops = Off /\ usage = Off /\ unit = Off /\ req = Off /\ plist = Off
  /\ system = Off /\ loaded = Off /\ neglected = Off /\ runs = Off /\ boots = Off
  /\ used = Off /\ plan = Off /\ servers = Off /\ proc = Off /\ nextId = Off
  /\ at = Off /\ got = Off /\ data = Off /\ closing = Off /\ tokens = Off
  /\ mtime = Off /\ holder = Off /\ editors = Off /\ deck = Off /\ watched = Off
  /\ budget = Off
LevelsStarts ==
  /\ part = "levels" /\ Levels!Init
  /\ agent = Off /\ lifecycle = Off /\ todo = Off /\ spent = Off /\ bannered = Off
  /\ threads = Off /\ reminder = Off /\ deferred = Off /\ claim = Off
  /\ lapses = Off /\ screen = Off /\ told = Off /\ missed = Off /\ last = Off
  /\ notices = Off /\ kept = Off /\ acked = Off /\ falling = Off
  /\ droppedSeqs = Off /\ shell = Off /\ seen = Off /\ posted = Off
  /\ troubles = Off /\ now = Off /\ asked = Off /\ hub = Off /\ known = Off
  /\ prompt = Off /\ answered = Off /\ tasks = Off /\ record = Off /\ chat = Off
  /\ alerted = Off /\ answers = Off /\ hits = Off /\ begun = Off /\ reminded = Off
  /\ armed = Off /\ waiting = Off /\ restarts = Off /\ confirmed = Off
  /\ bot = Off /\ offset = Off /\ interactor = Off /\ poll = Off /\ acted = Off
  /\ ignored = Off /\ fresh = Off /\ changes = Off /\ faults = Off
  /\ bridges = Off /\ undecided = Off /\ mode = Off /\ local = Off /\ shut = Off
  /\ pollers = Off /\ evaluating = Off /\ reports = Off /\ goodAt = Off
  /\ state = Off /\ stopping = Off /\ conn = Off /\ far = Off /\ wire = Off
  /\ probe = Off /\ managed = Off /\ attempt = Off /\ running = Off /\ venv = Off
  /\ readers = Off /\ busy = Off /\ stage = Off /\ task = Off /\ promise = Off
  /\ proven = Off /\ ran = Off /\ inbox = Off /\ outbox = Off /\ linked = Off
  /\ asking = Off /\ jobs = Off /\ thread = Off /\ late = Off /\ link = Off
  /\ cache = Off /\ offer = Off /\ tile = Off /\ uncertain = Off
  /\ deliveries = Off /\ denied = Off /\ job = Off /\ held = Off /\ minted = Off
  /\ doubts = Off /\ bounds = Off /\ results = Off /\ executions = Off
  /\ challenges = Off /\ wiring = Off /\ source = Off /\ sentAt = Off
  /\ pane = Off /\ looking = Off /\ bridge = Off /\ config = Off /\ marker = Off
  /\ picked = Off /\ cred = Off /\ session = Off /\ gone = Off /\ file = Off
  /\ theirs = Off /\ up = Off /\ sent = Off /\ queue = Off /\ serving = Off
  /\ replies = Off /\ waits = Off /\ outcome = Off /\ summary = Off /\ saves = Off
  /\ drops = Off /\ usage = Off /\ unit = Off /\ req = Off /\ plist = Off
  /\ system = Off /\ loaded = Off /\ neglected = Off /\ runs = Off /\ boots = Off
  /\ used = Off /\ plan = Off /\ servers = Off /\ proc = Off /\ nextId = Off
  /\ at = Off /\ got = Off /\ data = Off /\ closing = Off /\ tokens = Off
  /\ mtime = Off /\ holder = Off /\ editors = Off /\ deck = Off /\ watched = Off
  /\ budget = Off
LinkStarts ==
  /\ part = "link" /\ Link!Init
  /\ agent = Off /\ lifecycle = Off /\ todo = Off /\ spent = Off /\ bannered = Off
  /\ threads = Off /\ reminder = Off /\ deferred = Off /\ claim = Off
  /\ lapses = Off /\ screen = Off /\ missed = Off /\ last = Off /\ notices = Off
  /\ kept = Off /\ acked = Off /\ falling = Off /\ droppedSeqs = Off
  /\ shell = Off /\ seen = Off /\ posted = Off /\ troubles = Off /\ now = Off
  /\ hub = Off /\ known = Off /\ prompt = Off /\ answered = Off /\ tasks = Off
  /\ record = Off /\ chat = Off /\ alerted = Off /\ answers = Off /\ hits = Off
  /\ begun = Off /\ reminded = Off /\ armed = Off /\ waiting = Off
  /\ restarts = Off /\ confirmed = Off /\ bot = Off /\ offset = Off
  /\ interactor = Off /\ poll = Off /\ acted = Off /\ ignored = Off /\ fresh = Off
  /\ changes = Off /\ faults = Off /\ bridges = Off /\ undecided = Off
  /\ mode = Off /\ local = Off /\ shut = Off /\ pollers = Off /\ evaluating = Off
  /\ reports = Off /\ goodAt = Off /\ usedNow = Off /\ polled = Off /\ live = Off
  /\ judging = Off /\ trackers = Off /\ alertCount = Off /\ switches = Off
  /\ running = Off /\ venv = Off /\ readers = Off /\ busy = Off /\ stage = Off
  /\ task = Off /\ promise = Off /\ proven = Off /\ ran = Off /\ inbox = Off
  /\ outbox = Off /\ linked = Off /\ asking = Off /\ jobs = Off /\ thread = Off
  /\ late = Off /\ link = Off /\ cache = Off /\ offer = Off /\ tile = Off
  /\ uncertain = Off /\ deliveries = Off /\ denied = Off /\ job = Off
  /\ held = Off /\ minted = Off /\ doubts = Off /\ bounds = Off /\ results = Off
  /\ executions = Off /\ challenges = Off /\ wiring = Off /\ source = Off
  /\ sentAt = Off /\ pane = Off /\ looking = Off /\ bridge = Off /\ config = Off
  /\ marker = Off /\ picked = Off /\ cred = Off /\ session = Off /\ gone = Off
  /\ file = Off /\ theirs = Off /\ up = Off /\ sent = Off /\ queue = Off
  /\ serving = Off /\ replies = Off /\ waits = Off /\ outcome = Off
  /\ summary = Off /\ saves = Off /\ drops = Off /\ usage = Off /\ unit = Off
  /\ req = Off /\ plist = Off /\ system = Off /\ loaded = Off /\ neglected = Off
  /\ runs = Off /\ boots = Off /\ used = Off /\ plan = Off /\ servers = Off
  /\ proc = Off /\ nextId = Off /\ at = Off /\ got = Off /\ data = Off
  /\ closing = Off /\ tokens = Off /\ mtime = Off /\ holder = Off /\ editors = Off
  /\ deck = Off /\ watched = Off /\ budget = Off
UpdateStarts ==
  /\ part = "update" /\ Update!Init
  /\ agent = Off /\ lifecycle = Off /\ todo = Off /\ spent = Off /\ bannered = Off
  /\ threads = Off /\ reminder = Off /\ deferred = Off /\ claim = Off
  /\ lapses = Off /\ screen = Off /\ told = Off /\ missed = Off /\ last = Off
  /\ notices = Off /\ kept = Off /\ acked = Off /\ falling = Off
  /\ droppedSeqs = Off /\ shell = Off /\ seen = Off /\ posted = Off
  /\ troubles = Off /\ now = Off /\ asked = Off /\ hub = Off /\ known = Off
  /\ prompt = Off /\ answered = Off /\ tasks = Off /\ record = Off /\ chat = Off
  /\ alerted = Off /\ answers = Off /\ hits = Off /\ begun = Off /\ reminded = Off
  /\ armed = Off /\ waiting = Off /\ restarts = Off /\ confirmed = Off
  /\ bot = Off /\ offset = Off /\ interactor = Off /\ poll = Off /\ acted = Off
  /\ ignored = Off /\ fresh = Off /\ changes = Off /\ bridges = Off
  /\ undecided = Off /\ mode = Off /\ local = Off /\ shut = Off /\ pollers = Off
  /\ evaluating = Off /\ reports = Off /\ goodAt = Off /\ usedNow = Off
  /\ polled = Off /\ live = Off /\ judging = Off /\ trackers = Off
  /\ alertCount = Off /\ switches = Off /\ state = Off /\ stopping = Off
  /\ conn = Off /\ far = Off /\ wire = Off /\ probe = Off /\ attempt = Off
  /\ thread = Off /\ late = Off /\ link = Off /\ cache = Off /\ offer = Off
  /\ tile = Off /\ uncertain = Off /\ deliveries = Off /\ denied = Off
  /\ job = Off /\ held = Off /\ minted = Off /\ doubts = Off /\ bounds = Off
  /\ results = Off /\ executions = Off /\ challenges = Off /\ wiring = Off
  /\ source = Off /\ sentAt = Off /\ pane = Off /\ looking = Off /\ bridge = Off
  /\ config = Off /\ marker = Off /\ picked = Off /\ cred = Off /\ session = Off
  /\ gone = Off /\ file = Off /\ theirs = Off /\ up = Off /\ sent = Off
  /\ queue = Off /\ serving = Off /\ replies = Off /\ waits = Off /\ outcome = Off
  /\ summary = Off /\ saves = Off /\ drops = Off /\ usage = Off /\ unit = Off
  /\ req = Off /\ plist = Off /\ system = Off /\ loaded = Off /\ neglected = Off
  /\ runs = Off /\ boots = Off /\ used = Off /\ plan = Off /\ servers = Off
  /\ proc = Off /\ nextId = Off /\ at = Off /\ got = Off /\ data = Off
  /\ closing = Off /\ tokens = Off /\ mtime = Off /\ holder = Off /\ editors = Off
  /\ deck = Off /\ watched = Off /\ budget = Off
T3Starts ==
  /\ part = "t3" /\ T3!Init
  /\ agent = Off /\ lifecycle = Off /\ todo = Off /\ spent = Off /\ bannered = Off
  /\ threads = Off /\ reminder = Off /\ deferred = Off /\ claim = Off
  /\ lapses = Off /\ screen = Off /\ told = Off /\ missed = Off /\ last = Off
  /\ notices = Off /\ kept = Off /\ acked = Off /\ falling = Off
  /\ droppedSeqs = Off /\ shell = Off /\ seen = Off /\ posted = Off
  /\ troubles = Off /\ now = Off /\ asked = Off /\ hub = Off /\ known = Off
  /\ prompt = Off /\ answered = Off /\ tasks = Off /\ record = Off /\ chat = Off
  /\ alerted = Off /\ answers = Off /\ hits = Off /\ begun = Off /\ reminded = Off
  /\ armed = Off /\ waiting = Off /\ restarts = Off /\ confirmed = Off
  /\ bot = Off /\ offset = Off /\ interactor = Off /\ poll = Off /\ acted = Off
  /\ ignored = Off /\ fresh = Off /\ changes = Off /\ faults = Off
  /\ bridges = Off /\ undecided = Off /\ mode = Off /\ local = Off /\ shut = Off
  /\ pollers = Off /\ evaluating = Off /\ reports = Off /\ goodAt = Off
  /\ usedNow = Off /\ polled = Off /\ live = Off /\ judging = Off
  /\ trackers = Off /\ alertCount = Off /\ switches = Off /\ state = Off
  /\ stopping = Off /\ conn = Off /\ far = Off /\ wire = Off /\ probe = Off
  /\ managed = Off /\ attempt = Off /\ running = Off /\ venv = Off
  /\ readers = Off /\ busy = Off /\ stage = Off /\ task = Off /\ promise = Off
  /\ proven = Off /\ ran = Off /\ inbox = Off /\ outbox = Off /\ linked = Off
  /\ asking = Off /\ jobs = Off /\ results = Off /\ executions = Off
  /\ challenges = Off /\ wiring = Off /\ source = Off /\ sentAt = Off
  /\ pane = Off /\ looking = Off /\ bridge = Off /\ config = Off /\ marker = Off
  /\ picked = Off /\ cred = Off /\ session = Off /\ gone = Off /\ file = Off
  /\ theirs = Off /\ up = Off /\ sent = Off /\ queue = Off /\ serving = Off
  /\ replies = Off /\ waits = Off /\ outcome = Off /\ summary = Off /\ saves = Off
  /\ drops = Off /\ usage = Off /\ unit = Off /\ req = Off /\ plist = Off
  /\ system = Off /\ loaded = Off /\ neglected = Off /\ runs = Off /\ boots = Off
  /\ used = Off /\ plan = Off /\ servers = Off /\ proc = Off /\ nextId = Off
  /\ at = Off /\ got = Off /\ data = Off /\ closing = Off /\ tokens = Off
  /\ mtime = Off /\ holder = Off /\ editors = Off /\ deck = Off /\ watched = Off
  /\ budget = Off
APIStarts ==
  /\ part = "api" /\ API!Init
  /\ agent = Off /\ lifecycle = Off /\ todo = Off /\ bannered = Off
  /\ threads = Off /\ reminder = Off /\ deferred = Off /\ claim = Off
  /\ lapses = Off /\ screen = Off /\ missed = Off /\ last = Off /\ notices = Off
  /\ kept = Off /\ acked = Off /\ falling = Off /\ droppedSeqs = Off
  /\ shell = Off /\ seen = Off /\ posted = Off /\ troubles = Off /\ hub = Off
  /\ known = Off /\ prompt = Off /\ answered = Off /\ tasks = Off /\ record = Off
  /\ chat = Off /\ alerted = Off /\ answers = Off /\ hits = Off /\ begun = Off
  /\ reminded = Off /\ armed = Off /\ waiting = Off /\ restarts = Off
  /\ confirmed = Off /\ bot = Off /\ offset = Off /\ interactor = Off
  /\ poll = Off /\ acted = Off /\ ignored = Off /\ fresh = Off /\ changes = Off
  /\ faults = Off /\ bridges = Off /\ undecided = Off /\ mode = Off /\ local = Off
  /\ shut = Off /\ pollers = Off /\ evaluating = Off /\ reports = Off
  /\ goodAt = Off /\ usedNow = Off /\ polled = Off /\ live = Off /\ judging = Off
  /\ trackers = Off /\ alertCount = Off /\ switches = Off /\ state = Off
  /\ stopping = Off /\ conn = Off /\ far = Off /\ probe = Off /\ managed = Off
  /\ attempt = Off /\ running = Off /\ venv = Off /\ readers = Off /\ busy = Off
  /\ stage = Off /\ task = Off /\ promise = Off /\ proven = Off /\ ran = Off
  /\ inbox = Off /\ outbox = Off /\ linked = Off /\ asking = Off /\ jobs = Off
  /\ thread = Off /\ late = Off /\ link = Off /\ cache = Off /\ offer = Off
  /\ tile = Off /\ uncertain = Off /\ deliveries = Off /\ denied = Off
  /\ job = Off /\ held = Off /\ minted = Off /\ doubts = Off /\ bounds = Off
  /\ config = Off /\ marker = Off /\ picked = Off /\ cred = Off /\ session = Off
  /\ gone = Off /\ file = Off /\ theirs = Off /\ up = Off /\ sent = Off
  /\ queue = Off /\ serving = Off /\ replies = Off /\ waits = Off /\ outcome = Off
  /\ summary = Off /\ saves = Off /\ drops = Off /\ usage = Off /\ unit = Off
  /\ req = Off /\ plist = Off /\ system = Off /\ loaded = Off /\ neglected = Off
  /\ runs = Off /\ boots = Off /\ used = Off /\ plan = Off /\ servers = Off
  /\ proc = Off /\ nextId = Off /\ at = Off /\ got = Off /\ data = Off
  /\ closing = Off /\ tokens = Off /\ mtime = Off /\ holder = Off /\ editors = Off
  /\ deck = Off /\ watched = Off /\ budget = Off
PicksStarts ==
  /\ part = "choices" /\ Picks!Init
  /\ agent = Off /\ lifecycle = Off /\ todo = Off /\ bannered = Off
  /\ threads = Off /\ reminder = Off /\ deferred = Off /\ claim = Off
  /\ lapses = Off /\ screen = Off /\ missed = Off /\ last = Off /\ notices = Off
  /\ kept = Off /\ acked = Off /\ falling = Off /\ droppedSeqs = Off
  /\ shell = Off /\ seen = Off /\ posted = Off /\ troubles = Off /\ hub = Off
  /\ known = Off /\ prompt = Off /\ answered = Off /\ tasks = Off /\ record = Off
  /\ chat = Off /\ alerted = Off /\ answers = Off /\ hits = Off /\ begun = Off
  /\ reminded = Off /\ armed = Off /\ waiting = Off /\ restarts = Off
  /\ confirmed = Off /\ bot = Off /\ offset = Off /\ interactor = Off
  /\ poll = Off /\ acted = Off /\ ignored = Off /\ fresh = Off /\ changes = Off
  /\ faults = Off /\ bridges = Off /\ undecided = Off /\ mode = Off /\ local = Off
  /\ shut = Off /\ pollers = Off /\ evaluating = Off /\ reports = Off
  /\ goodAt = Off /\ usedNow = Off /\ polled = Off /\ live = Off /\ judging = Off
  /\ trackers = Off /\ alertCount = Off /\ switches = Off /\ state = Off
  /\ stopping = Off /\ conn = Off /\ far = Off /\ probe = Off /\ managed = Off
  /\ attempt = Off /\ running = Off /\ venv = Off /\ readers = Off /\ busy = Off
  /\ stage = Off /\ task = Off /\ promise = Off /\ proven = Off /\ ran = Off
  /\ inbox = Off /\ outbox = Off /\ linked = Off /\ asking = Off /\ jobs = Off
  /\ thread = Off /\ late = Off /\ link = Off /\ cache = Off /\ offer = Off
  /\ tile = Off /\ uncertain = Off /\ deliveries = Off /\ denied = Off
  /\ job = Off /\ held = Off /\ minted = Off /\ doubts = Off /\ bounds = Off
  /\ config = Off /\ marker = Off /\ picked = Off /\ cred = Off /\ session = Off
  /\ gone = Off /\ file = Off /\ theirs = Off /\ up = Off /\ sent = Off
  /\ queue = Off /\ serving = Off /\ replies = Off /\ waits = Off /\ outcome = Off
  /\ summary = Off /\ saves = Off /\ drops = Off /\ usage = Off /\ unit = Off
  /\ req = Off /\ plist = Off /\ system = Off /\ loaded = Off /\ neglected = Off
  /\ runs = Off /\ boots = Off /\ used = Off /\ plan = Off /\ servers = Off
  /\ proc = Off /\ nextId = Off /\ at = Off /\ got = Off /\ data = Off
  /\ closing = Off /\ tokens = Off /\ mtime = Off /\ holder = Off /\ editors = Off
  /\ deck = Off /\ watched = Off /\ budget = Off
SetupStarts ==
  /\ part = "setup" /\ Setup!Init
  /\ lifecycle = Off /\ todo = Off /\ spent = Off /\ bannered = Off
  /\ threads = Off /\ reminder = Off /\ deferred = Off /\ claim = Off
  /\ lapses = Off /\ screen = Off /\ told = Off /\ missed = Off /\ last = Off
  /\ notices = Off /\ kept = Off /\ acked = Off /\ falling = Off
  /\ droppedSeqs = Off /\ shell = Off /\ seen = Off /\ posted = Off
  /\ troubles = Off /\ now = Off /\ asked = Off /\ hub = Off /\ known = Off
  /\ prompt = Off /\ answered = Off /\ tasks = Off /\ record = Off /\ chat = Off
  /\ alerted = Off /\ answers = Off /\ hits = Off /\ begun = Off /\ reminded = Off
  /\ armed = Off /\ waiting = Off /\ restarts = Off /\ confirmed = Off
  /\ bot = Off /\ offset = Off /\ interactor = Off /\ poll = Off /\ acted = Off
  /\ ignored = Off /\ fresh = Off /\ changes = Off /\ bridges = Off
  /\ undecided = Off /\ mode = Off /\ local = Off /\ shut = Off /\ pollers = Off
  /\ evaluating = Off /\ reports = Off /\ goodAt = Off /\ usedNow = Off
  /\ polled = Off /\ live = Off /\ judging = Off /\ trackers = Off
  /\ alertCount = Off /\ switches = Off /\ state = Off /\ stopping = Off
  /\ conn = Off /\ far = Off /\ wire = Off /\ probe = Off /\ managed = Off
  /\ attempt = Off /\ running = Off /\ venv = Off /\ readers = Off /\ busy = Off
  /\ stage = Off /\ task = Off /\ promise = Off /\ proven = Off /\ ran = Off
  /\ inbox = Off /\ outbox = Off /\ linked = Off /\ asking = Off /\ jobs = Off
  /\ thread = Off /\ late = Off /\ link = Off /\ cache = Off /\ offer = Off
  /\ tile = Off /\ uncertain = Off /\ deliveries = Off /\ denied = Off
  /\ minted = Off /\ doubts = Off /\ bounds = Off /\ results = Off
  /\ executions = Off /\ challenges = Off /\ wiring = Off /\ source = Off
  /\ sentAt = Off /\ pane = Off /\ looking = Off /\ bridge = Off /\ file = Off
  /\ theirs = Off /\ up = Off /\ sent = Off /\ queue = Off /\ serving = Off
  /\ replies = Off /\ waits = Off /\ outcome = Off /\ summary = Off /\ saves = Off
  /\ drops = Off /\ usage = Off /\ unit = Off /\ req = Off /\ plist = Off
  /\ system = Off /\ loaded = Off /\ neglected = Off /\ runs = Off /\ boots = Off
  /\ used = Off /\ plan = Off /\ servers = Off /\ proc = Off /\ nextId = Off
  /\ at = Off /\ got = Off /\ data = Off /\ closing = Off /\ tokens = Off
  /\ mtime = Off /\ holder = Off /\ editors = Off /\ deck = Off /\ watched = Off
  /\ budget = Off
RenewalsStarts ==
  /\ part = "renewals" /\ Renewals!Init
  /\ lifecycle = Off /\ todo = Off /\ spent = Off /\ bannered = Off
  /\ threads = Off /\ reminder = Off /\ deferred = Off /\ claim = Off
  /\ lapses = Off /\ screen = Off /\ told = Off /\ missed = Off /\ last = Off
  /\ notices = Off /\ kept = Off /\ acked = Off /\ falling = Off
  /\ droppedSeqs = Off /\ shell = Off /\ seen = Off /\ posted = Off
  /\ troubles = Off /\ now = Off /\ asked = Off /\ hub = Off /\ known = Off
  /\ prompt = Off /\ answered = Off /\ tasks = Off /\ record = Off /\ chat = Off
  /\ alerted = Off /\ answers = Off /\ hits = Off /\ begun = Off /\ reminded = Off
  /\ armed = Off /\ waiting = Off /\ restarts = Off /\ confirmed = Off
  /\ bot = Off /\ offset = Off /\ interactor = Off /\ poll = Off /\ acted = Off
  /\ ignored = Off /\ fresh = Off /\ changes = Off /\ bridges = Off
  /\ undecided = Off /\ mode = Off /\ local = Off /\ shut = Off /\ pollers = Off
  /\ evaluating = Off /\ reports = Off /\ goodAt = Off /\ usedNow = Off
  /\ polled = Off /\ live = Off /\ judging = Off /\ trackers = Off
  /\ alertCount = Off /\ switches = Off /\ state = Off /\ stopping = Off
  /\ conn = Off /\ far = Off /\ wire = Off /\ probe = Off /\ managed = Off
  /\ attempt = Off /\ running = Off /\ venv = Off /\ readers = Off /\ busy = Off
  /\ stage = Off /\ task = Off /\ promise = Off /\ proven = Off /\ ran = Off
  /\ inbox = Off /\ outbox = Off /\ linked = Off /\ asking = Off /\ jobs = Off
  /\ thread = Off /\ late = Off /\ link = Off /\ cache = Off /\ offer = Off
  /\ tile = Off /\ uncertain = Off /\ deliveries = Off /\ denied = Off
  /\ minted = Off /\ doubts = Off /\ bounds = Off /\ results = Off
  /\ executions = Off /\ challenges = Off /\ wiring = Off /\ source = Off
  /\ sentAt = Off /\ pane = Off /\ looking = Off /\ bridge = Off /\ file = Off
  /\ theirs = Off /\ up = Off /\ sent = Off /\ queue = Off /\ serving = Off
  /\ replies = Off /\ waits = Off /\ outcome = Off /\ summary = Off /\ saves = Off
  /\ drops = Off /\ usage = Off /\ unit = Off /\ req = Off /\ plist = Off
  /\ system = Off /\ loaded = Off /\ neglected = Off /\ runs = Off /\ boots = Off
  /\ used = Off /\ plan = Off /\ servers = Off /\ proc = Off /\ nextId = Off
  /\ at = Off /\ got = Off /\ data = Off /\ closing = Off /\ tokens = Off
  /\ mtime = Off /\ holder = Off /\ editors = Off /\ deck = Off /\ watched = Off
  /\ budget = Off
EditsStarts ==
  /\ part = "edits" /\ Edits!Init
  /\ agent = Off /\ lifecycle = Off /\ todo = Off /\ spent = Off /\ bannered = Off
  /\ threads = Off /\ reminder = Off /\ deferred = Off /\ claim = Off
  /\ lapses = Off /\ screen = Off /\ told = Off /\ missed = Off /\ last = Off
  /\ notices = Off /\ kept = Off /\ acked = Off /\ falling = Off
  /\ droppedSeqs = Off /\ shell = Off /\ seen = Off /\ posted = Off
  /\ troubles = Off /\ now = Off /\ hub = Off /\ known = Off /\ prompt = Off
  /\ answered = Off /\ tasks = Off /\ record = Off /\ chat = Off /\ alerted = Off
  /\ answers = Off /\ hits = Off /\ begun = Off /\ reminded = Off /\ armed = Off
  /\ waiting = Off /\ restarts = Off /\ confirmed = Off /\ bot = Off
  /\ offset = Off /\ interactor = Off /\ poll = Off /\ acted = Off
  /\ ignored = Off /\ fresh = Off /\ changes = Off /\ faults = Off
  /\ bridges = Off /\ undecided = Off /\ mode = Off /\ local = Off /\ shut = Off
  /\ pollers = Off /\ evaluating = Off /\ reports = Off /\ goodAt = Off
  /\ usedNow = Off /\ polled = Off /\ live = Off /\ judging = Off
  /\ trackers = Off /\ alertCount = Off /\ switches = Off /\ state = Off
  /\ stopping = Off /\ conn = Off /\ far = Off /\ wire = Off /\ probe = Off
  /\ managed = Off /\ attempt = Off /\ running = Off /\ venv = Off
  /\ readers = Off /\ busy = Off /\ stage = Off /\ task = Off /\ promise = Off
  /\ proven = Off /\ ran = Off /\ inbox = Off /\ outbox = Off /\ linked = Off
  /\ asking = Off /\ jobs = Off /\ thread = Off /\ late = Off /\ link = Off
  /\ cache = Off /\ offer = Off /\ tile = Off /\ uncertain = Off
  /\ deliveries = Off /\ denied = Off /\ held = Off /\ minted = Off
  /\ doubts = Off /\ bounds = Off /\ results = Off /\ executions = Off
  /\ challenges = Off /\ wiring = Off /\ source = Off /\ sentAt = Off
  /\ pane = Off /\ looking = Off /\ bridge = Off /\ config = Off /\ marker = Off
  /\ picked = Off /\ cred = Off /\ session = Off /\ gone = Off /\ usage = Off
  /\ unit = Off /\ req = Off /\ plist = Off /\ system = Off /\ loaded = Off
  /\ neglected = Off /\ runs = Off /\ boots = Off /\ used = Off /\ plan = Off
  /\ servers = Off /\ proc = Off /\ nextId = Off /\ at = Off /\ got = Off
  /\ data = Off /\ closing = Off /\ tokens = Off /\ mtime = Off /\ holder = Off
  /\ editors = Off /\ deck = Off /\ watched = Off /\ budget = Off
AsksStarts ==
  /\ part = "asks" /\ Asks!Init
  /\ agent = Off /\ lifecycle = Off /\ todo = Off /\ spent = Off /\ bannered = Off
  /\ threads = Off /\ reminder = Off /\ deferred = Off /\ claim = Off
  /\ lapses = Off /\ screen = Off /\ told = Off /\ missed = Off /\ last = Off
  /\ notices = Off /\ kept = Off /\ acked = Off /\ falling = Off
  /\ droppedSeqs = Off /\ shell = Off /\ seen = Off /\ posted = Off
  /\ troubles = Off /\ now = Off /\ hub = Off /\ known = Off /\ prompt = Off
  /\ answered = Off /\ tasks = Off /\ record = Off /\ chat = Off /\ alerted = Off
  /\ answers = Off /\ hits = Off /\ begun = Off /\ reminded = Off /\ armed = Off
  /\ waiting = Off /\ restarts = Off /\ confirmed = Off /\ bot = Off
  /\ offset = Off /\ interactor = Off /\ poll = Off /\ acted = Off
  /\ ignored = Off /\ fresh = Off /\ changes = Off /\ faults = Off
  /\ bridges = Off /\ undecided = Off /\ mode = Off /\ local = Off /\ shut = Off
  /\ pollers = Off /\ evaluating = Off /\ reports = Off /\ goodAt = Off
  /\ usedNow = Off /\ polled = Off /\ live = Off /\ judging = Off
  /\ trackers = Off /\ alertCount = Off /\ switches = Off /\ state = Off
  /\ stopping = Off /\ conn = Off /\ far = Off /\ wire = Off /\ probe = Off
  /\ managed = Off /\ attempt = Off /\ running = Off /\ venv = Off
  /\ readers = Off /\ busy = Off /\ stage = Off /\ task = Off /\ promise = Off
  /\ proven = Off /\ ran = Off /\ inbox = Off /\ outbox = Off /\ linked = Off
  /\ asking = Off /\ jobs = Off /\ thread = Off /\ late = Off /\ link = Off
  /\ cache = Off /\ offer = Off /\ tile = Off /\ uncertain = Off
  /\ deliveries = Off /\ denied = Off /\ held = Off /\ minted = Off
  /\ doubts = Off /\ bounds = Off /\ results = Off /\ executions = Off
  /\ challenges = Off /\ wiring = Off /\ source = Off /\ sentAt = Off
  /\ pane = Off /\ looking = Off /\ bridge = Off /\ config = Off /\ marker = Off
  /\ picked = Off /\ cred = Off /\ session = Off /\ gone = Off /\ usage = Off
  /\ unit = Off /\ req = Off /\ plist = Off /\ system = Off /\ loaded = Off
  /\ neglected = Off /\ runs = Off /\ boots = Off /\ used = Off /\ plan = Off
  /\ servers = Off /\ proc = Off /\ nextId = Off /\ at = Off /\ got = Off
  /\ data = Off /\ closing = Off /\ tokens = Off /\ mtime = Off /\ holder = Off
  /\ editors = Off /\ deck = Off /\ watched = Off /\ budget = Off
AgentStarts ==
  /\ part = "agent" /\ Agent!Init
  /\ lifecycle = Off /\ todo = Off /\ spent = Off /\ bannered = Off
  /\ threads = Off /\ reminder = Off /\ deferred = Off /\ claim = Off
  /\ lapses = Off /\ screen = Off /\ told = Off /\ missed = Off /\ last = Off
  /\ notices = Off /\ kept = Off /\ acked = Off /\ falling = Off
  /\ droppedSeqs = Off /\ shell = Off /\ seen = Off /\ posted = Off
  /\ troubles = Off /\ asked = Off /\ hub = Off /\ known = Off /\ prompt = Off
  /\ answered = Off /\ tasks = Off /\ record = Off /\ chat = Off /\ alerted = Off
  /\ answers = Off /\ hits = Off /\ begun = Off /\ reminded = Off /\ armed = Off
  /\ waiting = Off /\ restarts = Off /\ confirmed = Off /\ bot = Off
  /\ offset = Off /\ interactor = Off /\ poll = Off /\ acted = Off
  /\ ignored = Off /\ fresh = Off /\ changes = Off /\ bridges = Off
  /\ undecided = Off /\ mode = Off /\ local = Off /\ shut = Off /\ pollers = Off
  /\ evaluating = Off /\ reports = Off /\ goodAt = Off /\ usedNow = Off
  /\ polled = Off /\ live = Off /\ judging = Off /\ trackers = Off
  /\ alertCount = Off /\ switches = Off /\ state = Off /\ stopping = Off
  /\ conn = Off /\ far = Off /\ wire = Off /\ probe = Off /\ managed = Off
  /\ attempt = Off /\ running = Off /\ venv = Off /\ readers = Off /\ busy = Off
  /\ stage = Off /\ task = Off /\ promise = Off /\ proven = Off /\ ran = Off
  /\ inbox = Off /\ outbox = Off /\ linked = Off /\ asking = Off /\ jobs = Off
  /\ thread = Off /\ late = Off /\ link = Off /\ cache = Off /\ offer = Off
  /\ tile = Off /\ uncertain = Off /\ deliveries = Off /\ denied = Off
  /\ job = Off /\ held = Off /\ minted = Off /\ doubts = Off /\ bounds = Off
  /\ results = Off /\ executions = Off /\ challenges = Off /\ wiring = Off
  /\ source = Off /\ sentAt = Off /\ pane = Off /\ looking = Off /\ config = Off
  /\ marker = Off /\ picked = Off /\ cred = Off /\ gone = Off /\ theirs = Off
  /\ sent = Off /\ queue = Off /\ serving = Off /\ replies = Off /\ waits = Off
  /\ outcome = Off /\ summary = Off /\ saves = Off /\ drops = Off /\ plist = Off
  /\ system = Off /\ loaded = Off /\ neglected = Off /\ runs = Off /\ boots = Off
  /\ used = Off /\ plan = Off /\ servers = Off /\ proc = Off /\ nextId = Off
  /\ at = Off /\ got = Off /\ data = Off /\ closing = Off /\ tokens = Off
  /\ mtime = Off /\ holder = Off /\ editors = Off /\ deck = Off /\ watched = Off
  /\ budget = Off
UnitsStarts ==
  /\ part = "units" /\ Units!Init
  /\ agent = Off /\ lifecycle = Off /\ todo = Off /\ spent = Off /\ bannered = Off
  /\ threads = Off /\ reminder = Off /\ deferred = Off /\ claim = Off
  /\ lapses = Off /\ screen = Off /\ told = Off /\ missed = Off /\ last = Off
  /\ notices = Off /\ kept = Off /\ acked = Off /\ falling = Off
  /\ droppedSeqs = Off /\ shell = Off /\ seen = Off /\ posted = Off
  /\ troubles = Off /\ now = Off /\ asked = Off /\ hub = Off /\ known = Off
  /\ prompt = Off /\ answered = Off /\ tasks = Off /\ record = Off /\ chat = Off
  /\ alerted = Off /\ answers = Off /\ hits = Off /\ begun = Off /\ reminded = Off
  /\ armed = Off /\ waiting = Off /\ restarts = Off /\ confirmed = Off
  /\ bot = Off /\ offset = Off /\ interactor = Off /\ poll = Off /\ acted = Off
  /\ ignored = Off /\ fresh = Off /\ changes = Off /\ bridges = Off
  /\ undecided = Off /\ mode = Off /\ local = Off /\ shut = Off /\ pollers = Off
  /\ evaluating = Off /\ reports = Off /\ goodAt = Off /\ usedNow = Off
  /\ polled = Off /\ live = Off /\ judging = Off /\ trackers = Off
  /\ alertCount = Off /\ switches = Off /\ state = Off /\ stopping = Off
  /\ conn = Off /\ far = Off /\ wire = Off /\ probe = Off /\ managed = Off
  /\ attempt = Off /\ running = Off /\ readers = Off /\ busy = Off /\ stage = Off
  /\ task = Off /\ promise = Off /\ proven = Off /\ ran = Off /\ inbox = Off
  /\ outbox = Off /\ linked = Off /\ asking = Off /\ jobs = Off /\ thread = Off
  /\ late = Off /\ link = Off /\ cache = Off /\ offer = Off /\ tile = Off
  /\ uncertain = Off /\ deliveries = Off /\ denied = Off /\ held = Off
  /\ minted = Off /\ doubts = Off /\ bounds = Off /\ results = Off
  /\ executions = Off /\ challenges = Off /\ wiring = Off /\ source = Off
  /\ sentAt = Off /\ pane = Off /\ looking = Off /\ bridge = Off /\ config = Off
  /\ marker = Off /\ picked = Off /\ cred = Off /\ session = Off /\ gone = Off
  /\ file = Off /\ theirs = Off /\ up = Off /\ sent = Off /\ queue = Off
  /\ serving = Off /\ replies = Off /\ waits = Off /\ outcome = Off
  /\ summary = Off /\ saves = Off /\ drops = Off /\ usage = Off /\ unit = Off
  /\ req = Off /\ used = Off /\ plan = Off /\ servers = Off /\ proc = Off
  /\ nextId = Off /\ at = Off /\ got = Off /\ data = Off /\ closing = Off
  /\ tokens = Off /\ mtime = Off /\ holder = Off /\ editors = Off /\ deck = Off
  /\ watched = Off /\ budget = Off
PollsStarts ==
  /\ part = "poll" /\ Polls!Init
  /\ agent = Off /\ lifecycle = Off /\ todo = Off /\ spent = Off /\ bannered = Off
  /\ threads = Off /\ reminder = Off /\ deferred = Off /\ claim = Off
  /\ lapses = Off /\ screen = Off /\ told = Off /\ missed = Off /\ last = Off
  /\ notices = Off /\ kept = Off /\ acked = Off /\ falling = Off
  /\ droppedSeqs = Off /\ shell = Off /\ seen = Off /\ posted = Off
  /\ troubles = Off /\ hub = Off /\ known = Off /\ prompt = Off /\ answered = Off
  /\ tasks = Off /\ record = Off /\ chat = Off /\ alerted = Off /\ answers = Off
  /\ hits = Off /\ begun = Off /\ reminded = Off /\ armed = Off /\ waiting = Off
  /\ restarts = Off /\ confirmed = Off /\ bot = Off /\ offset = Off
  /\ interactor = Off /\ poll = Off /\ acted = Off /\ ignored = Off /\ fresh = Off
  /\ changes = Off /\ bridges = Off /\ undecided = Off /\ mode = Off
  /\ local = Off /\ shut = Off /\ pollers = Off /\ evaluating = Off
  /\ reports = Off /\ goodAt = Off /\ usedNow = Off /\ live = Off /\ judging = Off
  /\ trackers = Off /\ alertCount = Off /\ switches = Off /\ state = Off
  /\ stopping = Off /\ conn = Off /\ far = Off /\ wire = Off /\ probe = Off
  /\ managed = Off /\ attempt = Off /\ running = Off /\ venv = Off
  /\ readers = Off /\ busy = Off /\ stage = Off /\ task = Off /\ promise = Off
  /\ proven = Off /\ ran = Off /\ inbox = Off /\ outbox = Off /\ linked = Off
  /\ asking = Off /\ jobs = Off /\ thread = Off /\ late = Off /\ link = Off
  /\ offer = Off /\ tile = Off /\ uncertain = Off /\ deliveries = Off
  /\ denied = Off /\ job = Off /\ held = Off /\ minted = Off /\ doubts = Off
  /\ bounds = Off /\ results = Off /\ executions = Off /\ challenges = Off
  /\ wiring = Off /\ source = Off /\ sentAt = Off /\ pane = Off /\ looking = Off
  /\ bridge = Off /\ config = Off /\ marker = Off /\ picked = Off /\ cred = Off
  /\ session = Off /\ gone = Off /\ file = Off /\ theirs = Off /\ up = Off
  /\ sent = Off /\ serving = Off /\ replies = Off /\ waits = Off /\ outcome = Off
  /\ summary = Off /\ saves = Off /\ drops = Off /\ usage = Off /\ unit = Off
  /\ req = Off /\ plist = Off /\ system = Off /\ loaded = Off /\ neglected = Off
  /\ runs = Off /\ boots = Off /\ tokens = Off /\ mtime = Off /\ holder = Off
  /\ editors = Off /\ deck = Off /\ watched = Off /\ budget = Off
GrowsStarts ==
  /\ part = "grows" /\ Grows!Init
  /\ agent = Off /\ lifecycle = Off /\ todo = Off /\ spent = Off /\ bannered = Off
  /\ threads = Off /\ reminder = Off /\ deferred = Off /\ claim = Off
  /\ lapses = Off /\ screen = Off /\ told = Off /\ missed = Off /\ last = Off
  /\ notices = Off /\ kept = Off /\ acked = Off /\ falling = Off
  /\ droppedSeqs = Off /\ shell = Off /\ seen = Off /\ posted = Off
  /\ troubles = Off /\ hub = Off /\ known = Off /\ prompt = Off /\ answered = Off
  /\ tasks = Off /\ record = Off /\ chat = Off /\ alerted = Off /\ answers = Off
  /\ hits = Off /\ begun = Off /\ reminded = Off /\ armed = Off /\ waiting = Off
  /\ restarts = Off /\ confirmed = Off /\ bot = Off /\ offset = Off
  /\ interactor = Off /\ poll = Off /\ acted = Off /\ ignored = Off /\ fresh = Off
  /\ changes = Off /\ bridges = Off /\ undecided = Off /\ mode = Off
  /\ local = Off /\ shut = Off /\ pollers = Off /\ evaluating = Off
  /\ reports = Off /\ goodAt = Off /\ usedNow = Off /\ live = Off /\ judging = Off
  /\ trackers = Off /\ alertCount = Off /\ switches = Off /\ state = Off
  /\ stopping = Off /\ conn = Off /\ far = Off /\ wire = Off /\ probe = Off
  /\ managed = Off /\ attempt = Off /\ running = Off /\ venv = Off
  /\ readers = Off /\ busy = Off /\ stage = Off /\ task = Off /\ promise = Off
  /\ proven = Off /\ ran = Off /\ inbox = Off /\ outbox = Off /\ linked = Off
  /\ asking = Off /\ jobs = Off /\ thread = Off /\ late = Off /\ link = Off
  /\ offer = Off /\ tile = Off /\ uncertain = Off /\ deliveries = Off
  /\ denied = Off /\ job = Off /\ held = Off /\ minted = Off /\ doubts = Off
  /\ bounds = Off /\ results = Off /\ executions = Off /\ challenges = Off
  /\ wiring = Off /\ source = Off /\ sentAt = Off /\ pane = Off /\ looking = Off
  /\ bridge = Off /\ config = Off /\ marker = Off /\ picked = Off /\ cred = Off
  /\ session = Off /\ gone = Off /\ file = Off /\ theirs = Off /\ up = Off
  /\ sent = Off /\ serving = Off /\ replies = Off /\ waits = Off /\ outcome = Off
  /\ summary = Off /\ saves = Off /\ drops = Off /\ usage = Off /\ unit = Off
  /\ req = Off /\ plist = Off /\ system = Off /\ loaded = Off /\ neglected = Off
  /\ runs = Off /\ boots = Off /\ tokens = Off /\ mtime = Off /\ holder = Off
  /\ editors = Off /\ deck = Off /\ watched = Off /\ budget = Off
FilesStarts ==
  /\ part = "config" /\ Files!Init
  /\ agent = Off /\ lifecycle = Off /\ todo = Off /\ spent = Off /\ bannered = Off
  /\ threads = Off /\ reminder = Off /\ deferred = Off /\ claim = Off
  /\ lapses = Off /\ screen = Off /\ told = Off /\ missed = Off /\ last = Off
  /\ notices = Off /\ acked = Off /\ falling = Off /\ droppedSeqs = Off
  /\ shell = Off /\ seen = Off /\ posted = Off /\ troubles = Off /\ now = Off
  /\ asked = Off /\ hub = Off /\ known = Off /\ prompt = Off /\ answered = Off
  /\ tasks = Off /\ record = Off /\ chat = Off /\ alerted = Off /\ answers = Off
  /\ hits = Off /\ begun = Off /\ reminded = Off /\ armed = Off /\ waiting = Off
  /\ restarts = Off /\ confirmed = Off /\ bot = Off /\ offset = Off
  /\ interactor = Off /\ poll = Off /\ acted = Off /\ ignored = Off /\ fresh = Off
  /\ changes = Off /\ faults = Off /\ bridges = Off /\ undecided = Off
  /\ mode = Off /\ shut = Off /\ pollers = Off /\ evaluating = Off
  /\ reports = Off /\ goodAt = Off /\ usedNow = Off /\ polled = Off /\ live = Off
  /\ judging = Off /\ trackers = Off /\ alertCount = Off /\ switches = Off
  /\ state = Off /\ stopping = Off /\ conn = Off /\ far = Off /\ wire = Off
  /\ probe = Off /\ managed = Off /\ attempt = Off /\ running = Off /\ venv = Off
  /\ readers = Off /\ busy = Off /\ stage = Off /\ task = Off /\ promise = Off
  /\ proven = Off /\ ran = Off /\ inbox = Off /\ outbox = Off /\ linked = Off
  /\ asking = Off /\ jobs = Off /\ thread = Off /\ late = Off /\ link = Off
  /\ cache = Off /\ offer = Off /\ tile = Off /\ uncertain = Off
  /\ deliveries = Off /\ denied = Off /\ job = Off /\ held = Off /\ minted = Off
  /\ doubts = Off /\ bounds = Off /\ results = Off /\ executions = Off
  /\ challenges = Off /\ wiring = Off /\ source = Off /\ sentAt = Off
  /\ pane = Off /\ looking = Off /\ bridge = Off /\ marker = Off /\ picked = Off
  /\ cred = Off /\ session = Off /\ gone = Off /\ file = Off /\ theirs = Off
  /\ up = Off /\ sent = Off /\ queue = Off /\ serving = Off /\ replies = Off
  /\ waits = Off /\ outcome = Off /\ summary = Off /\ saves = Off /\ drops = Off
  /\ usage = Off /\ unit = Off /\ req = Off /\ plist = Off /\ system = Off
  /\ loaded = Off /\ neglected = Off /\ runs = Off /\ boots = Off /\ used = Off
  /\ plan = Off /\ servers = Off /\ proc = Off /\ nextId = Off /\ at = Off
  /\ got = Off /\ data = Off /\ closing = Off
BlindlyStarts ==
  /\ part = "slow" /\ Blindly!Init
  /\ agent = Off /\ lifecycle = Off /\ todo = Off /\ spent = Off /\ bannered = Off
  /\ threads = Off /\ reminder = Off /\ deferred = Off /\ claim = Off
  /\ lapses = Off /\ screen = Off /\ told = Off /\ missed = Off /\ last = Off
  /\ notices = Off /\ acked = Off /\ falling = Off /\ droppedSeqs = Off
  /\ shell = Off /\ seen = Off /\ posted = Off /\ troubles = Off /\ now = Off
  /\ asked = Off /\ hub = Off /\ known = Off /\ prompt = Off /\ answered = Off
  /\ tasks = Off /\ record = Off /\ chat = Off /\ alerted = Off /\ answers = Off
  /\ hits = Off /\ begun = Off /\ reminded = Off /\ armed = Off /\ waiting = Off
  /\ restarts = Off /\ confirmed = Off /\ bot = Off /\ offset = Off
  /\ interactor = Off /\ poll = Off /\ acted = Off /\ ignored = Off /\ fresh = Off
  /\ changes = Off /\ faults = Off /\ bridges = Off /\ undecided = Off
  /\ mode = Off /\ shut = Off /\ pollers = Off /\ evaluating = Off
  /\ reports = Off /\ goodAt = Off /\ usedNow = Off /\ polled = Off /\ live = Off
  /\ judging = Off /\ trackers = Off /\ alertCount = Off /\ switches = Off
  /\ state = Off /\ stopping = Off /\ conn = Off /\ far = Off /\ wire = Off
  /\ probe = Off /\ managed = Off /\ attempt = Off /\ running = Off /\ venv = Off
  /\ readers = Off /\ busy = Off /\ stage = Off /\ task = Off /\ promise = Off
  /\ proven = Off /\ ran = Off /\ inbox = Off /\ outbox = Off /\ linked = Off
  /\ asking = Off /\ jobs = Off /\ thread = Off /\ late = Off /\ link = Off
  /\ cache = Off /\ offer = Off /\ tile = Off /\ uncertain = Off
  /\ deliveries = Off /\ denied = Off /\ job = Off /\ held = Off /\ minted = Off
  /\ doubts = Off /\ bounds = Off /\ results = Off /\ executions = Off
  /\ challenges = Off /\ wiring = Off /\ source = Off /\ sentAt = Off
  /\ pane = Off /\ looking = Off /\ bridge = Off /\ marker = Off /\ picked = Off
  /\ cred = Off /\ session = Off /\ gone = Off /\ file = Off /\ theirs = Off
  /\ up = Off /\ sent = Off /\ queue = Off /\ serving = Off /\ replies = Off
  /\ waits = Off /\ outcome = Off /\ summary = Off /\ saves = Off /\ drops = Off
  /\ usage = Off /\ unit = Off /\ req = Off /\ plist = Off /\ system = Off
  /\ loaded = Off /\ neglected = Off /\ runs = Off /\ boots = Off /\ used = Off
  /\ plan = Off /\ servers = Off /\ proc = Off /\ nextId = Off /\ at = Off
  /\ got = Off /\ data = Off /\ closing = Off

Init == BannerStarts \/ NoticesStarts \/ TelegramStarts \/ RemindsStarts \/ TapsStarts \/
        SourcesStarts \/ LevelsStarts \/ LinkStarts \/ UpdateStarts \/ T3Starts \/
        APIStarts \/ PicksStarts \/ SetupStarts \/ RenewalsStarts \/
        EditsStarts \/ AsksStarts \/ AgentStarts \/ UnitsStarts \/ PollsStarts \/
        GrowsStarts \/ FilesStarts \/ BlindlyStarts

BannerRest == <<part, last, notices, kept, acked, falling, droppedSeqs, shell,
    seen, posted, troubles, now, asked, hub, known, prompt, answered, tasks,
    record, chat, alerted, answers, hits, begun, reminded, armed, waiting,
    restarts, confirmed, bot, offset, interactor, poll, acted, ignored, fresh,
    changes, faults, bridges, undecided, mode, local, shut, pollers,
    evaluating, reports, goodAt, usedNow, polled, live, judging, trackers,
    alertCount, switches, state, stopping, conn, far, wire, probe, managed,
    attempt, running, venv, readers, busy, stage, task, promise, proven, ran,
    inbox, outbox, linked, asking, jobs, thread, late, link, cache, offer,
    tile, uncertain, deliveries, denied, job, held, minted, doubts, bounds,
    results, executions, challenges, wiring, source, sentAt, pane, looking,
    bridge, config, marker, picked, cred, session, gone, file, theirs, up,
    sent, queue, serving, replies, waits, outcome, summary, saves, drops,
    usage, unit, req, plist, system, loaded, neglected, runs, boots, used,
    plan, servers, proc, nextId, at, got, data, closing, tokens, mtime,
    holder, editors, deck, watched, budget>>
NoticesRest == <<part, agent, lifecycle, todo, spent, bannered, threads,
    reminder, deferred, claim, lapses, screen, told, missed, now, asked, hub,
    known, prompt, answered, tasks, record, chat, alerted, answers, hits,
    begun, reminded, armed, waiting, restarts, confirmed, bot, offset,
    interactor, poll, acted, ignored, fresh, changes, faults, bridges,
    undecided, mode, local, shut, pollers, evaluating, reports, goodAt,
    usedNow, polled, live, judging, trackers, alertCount, switches, state,
    stopping, conn, far, wire, probe, managed, attempt, running, venv,
    readers, busy, stage, task, promise, proven, ran, inbox, outbox, linked,
    asking, jobs, thread, late, link, cache, offer, tile, uncertain,
    deliveries, denied, job, held, minted, doubts, bounds, results,
    executions, challenges, wiring, source, sentAt, pane, looking, bridge,
    config, marker, picked, cred, session, gone, file, theirs, up, sent,
    queue, serving, replies, waits, outcome, summary, saves, drops, usage,
    unit, req, plist, system, loaded, neglected, runs, boots, used, plan,
    servers, proc, nextId, at, got, data, closing, tokens, mtime, holder,
    editors, deck, watched, budget>>
TelegramRest == <<part, agent, lifecycle, todo, spent, bannered, threads,
    deferred, claim, lapses, screen, told, missed, last, notices, kept, acked,
    falling, droppedSeqs, shell, seen, posted, troubles, confirmed, bot,
    offset, interactor, poll, acted, ignored, fresh, changes, faults, bridges,
    undecided, mode, local, shut, pollers, evaluating, reports, goodAt,
    usedNow, polled, live, judging, trackers, alertCount, switches, state,
    stopping, conn, far, wire, probe, managed, attempt, running, venv,
    readers, busy, stage, task, promise, proven, ran, inbox, outbox, linked,
    asking, jobs, thread, late, link, cache, offer, tile, uncertain,
    deliveries, denied, job, held, minted, doubts, bounds, results,
    executions, challenges, wiring, source, sentAt, pane, looking, bridge,
    config, marker, picked, cred, session, gone, file, theirs, up, sent,
    queue, serving, replies, waits, outcome, summary, saves, drops, usage,
    unit, req, plist, system, loaded, neglected, runs, boots, used, plan,
    servers, proc, nextId, at, got, data, closing, tokens, mtime, holder,
    editors, deck, watched, budget>>
RemindsRest == <<part, agent, lifecycle, todo, spent, bannered, threads,
    deferred, claim, lapses, screen, told, missed, last, notices, kept, acked,
    falling, droppedSeqs, shell, seen, posted, troubles, confirmed, bot,
    offset, interactor, poll, acted, ignored, fresh, changes, faults, bridges,
    undecided, mode, local, shut, pollers, evaluating, reports, goodAt,
    usedNow, polled, live, judging, trackers, alertCount, switches, state,
    stopping, conn, far, wire, probe, managed, attempt, running, venv,
    readers, busy, stage, task, promise, proven, ran, inbox, outbox, linked,
    asking, jobs, thread, late, link, cache, offer, tile, uncertain,
    deliveries, denied, job, held, minted, doubts, bounds, results,
    executions, challenges, wiring, source, sentAt, pane, looking, bridge,
    config, marker, picked, cred, session, gone, file, theirs, up, sent,
    queue, serving, replies, waits, outcome, summary, saves, drops, usage,
    unit, req, plist, system, loaded, neglected, runs, boots, used, plan,
    servers, proc, nextId, at, got, data, closing, tokens, mtime, holder,
    editors, deck, watched, budget>>
TapsRest == <<part, agent, lifecycle, todo, spent, bannered, threads,
    reminder, deferred, claim, lapses, screen, told, missed, last, notices,
    kept, acked, falling, droppedSeqs, shell, seen, troubles, now, asked, hub,
    known, prompt, answered, tasks, record, chat, alerted, answers, hits,
    begun, reminded, armed, waiting, restarts, bridges, undecided, mode,
    local, shut, pollers, evaluating, reports, goodAt, usedNow, polled, live,
    judging, trackers, alertCount, switches, state, stopping, conn, far, wire,
    probe, managed, attempt, running, venv, readers, busy, stage, task,
    promise, proven, ran, inbox, outbox, linked, asking, jobs, thread, late,
    link, cache, offer, tile, uncertain, deliveries, denied, job, held,
    minted, doubts, bounds, results, executions, challenges, wiring, source,
    sentAt, pane, looking, bridge, config, marker, picked, cred, session,
    gone, file, theirs, up, sent, queue, serving, replies, waits, outcome,
    summary, saves, drops, usage, unit, req, plist, system, loaded, neglected,
    runs, boots, used, plan, servers, proc, nextId, at, got, data, closing,
    tokens, mtime, holder, editors, deck, watched, budget>>
SourcesRest == <<part, agent, lifecycle, todo, spent, bannered, threads,
    reminder, deferred, claim, lapses, screen, told, missed, last, notices,
    kept, acked, falling, droppedSeqs, shell, seen, posted, troubles, asked,
    hub, known, prompt, answered, tasks, record, chat, alerted, answers, hits,
    begun, reminded, armed, waiting, restarts, confirmed, bot, offset,
    interactor, poll, acted, ignored, fresh, changes, faults, usedNow, polled,
    live, judging, trackers, alertCount, switches, state, stopping, conn, far,
    wire, probe, managed, attempt, running, venv, readers, busy, stage, task,
    promise, proven, ran, inbox, outbox, linked, asking, jobs, thread, late,
    link, cache, offer, tile, uncertain, deliveries, denied, job, held,
    minted, doubts, bounds, results, executions, challenges, wiring, source,
    sentAt, pane, looking, bridge, config, marker, picked, cred, session,
    gone, file, theirs, up, sent, queue, serving, replies, waits, outcome,
    summary, saves, drops, usage, unit, req, plist, system, loaded, neglected,
    runs, boots, used, plan, servers, proc, nextId, at, got, data, closing,
    tokens, mtime, holder, editors, deck, watched, budget>>
LevelsRest == <<part, agent, lifecycle, todo, spent, bannered, threads,
    reminder, deferred, claim, lapses, screen, told, missed, last, notices,
    kept, acked, falling, droppedSeqs, shell, seen, posted, troubles, now,
    asked, hub, known, prompt, answered, tasks, record, chat, alerted,
    answers, hits, begun, reminded, armed, waiting, restarts, confirmed, bot,
    offset, interactor, poll, acted, ignored, fresh, changes, faults, bridges,
    undecided, mode, local, shut, pollers, evaluating, reports, goodAt, state,
    stopping, conn, far, wire, probe, managed, attempt, running, venv,
    readers, busy, stage, task, promise, proven, ran, inbox, outbox, linked,
    asking, jobs, thread, late, link, cache, offer, tile, uncertain,
    deliveries, denied, job, held, minted, doubts, bounds, results,
    executions, challenges, wiring, source, sentAt, pane, looking, bridge,
    config, marker, picked, cred, session, gone, file, theirs, up, sent,
    queue, serving, replies, waits, outcome, summary, saves, drops, usage,
    unit, req, plist, system, loaded, neglected, runs, boots, used, plan,
    servers, proc, nextId, at, got, data, closing, tokens, mtime, holder,
    editors, deck, watched, budget>>
LinkRest == <<part, agent, lifecycle, todo, spent, bannered, threads,
    reminder, deferred, claim, lapses, screen, missed, last, notices, kept,
    acked, falling, droppedSeqs, shell, seen, posted, troubles, now, hub,
    known, prompt, answered, tasks, record, chat, alerted, answers, hits,
    begun, reminded, armed, waiting, restarts, confirmed, bot, offset,
    interactor, poll, acted, ignored, fresh, changes, faults, bridges,
    undecided, mode, local, shut, pollers, evaluating, reports, goodAt,
    usedNow, polled, live, judging, trackers, alertCount, switches, running,
    venv, readers, busy, stage, task, promise, proven, ran, inbox, outbox,
    linked, asking, jobs, thread, late, link, cache, offer, tile, uncertain,
    deliveries, denied, job, held, minted, doubts, bounds, results,
    executions, challenges, wiring, source, sentAt, pane, looking, bridge,
    config, marker, picked, cred, session, gone, file, theirs, up, sent,
    queue, serving, replies, waits, outcome, summary, saves, drops, usage,
    unit, req, plist, system, loaded, neglected, runs, boots, used, plan,
    servers, proc, nextId, at, got, data, closing, tokens, mtime, holder,
    editors, deck, watched, budget>>
UpdateRest == <<part, agent, lifecycle, todo, spent, bannered, threads,
    reminder, deferred, claim, lapses, screen, told, missed, last, notices,
    kept, acked, falling, droppedSeqs, shell, seen, posted, troubles, now,
    asked, hub, known, prompt, answered, tasks, record, chat, alerted,
    answers, hits, begun, reminded, armed, waiting, restarts, confirmed, bot,
    offset, interactor, poll, acted, ignored, fresh, changes, bridges,
    undecided, mode, local, shut, pollers, evaluating, reports, goodAt,
    usedNow, polled, live, judging, trackers, alertCount, switches, state,
    stopping, conn, far, wire, probe, attempt, thread, late, link, cache,
    offer, tile, uncertain, deliveries, denied, job, held, minted, doubts,
    bounds, results, executions, challenges, wiring, source, sentAt, pane,
    looking, bridge, config, marker, picked, cred, session, gone, file,
    theirs, up, sent, queue, serving, replies, waits, outcome, summary, saves,
    drops, usage, unit, req, plist, system, loaded, neglected, runs, boots,
    used, plan, servers, proc, nextId, at, got, data, closing, tokens, mtime,
    holder, editors, deck, watched, budget>>
T3Rest == <<part, agent, lifecycle, todo, spent, bannered, threads, reminder,
    deferred, claim, lapses, screen, told, missed, last, notices, kept, acked,
    falling, droppedSeqs, shell, seen, posted, troubles, now, asked, hub,
    known, prompt, answered, tasks, record, chat, alerted, answers, hits,
    begun, reminded, armed, waiting, restarts, confirmed, bot, offset,
    interactor, poll, acted, ignored, fresh, changes, faults, bridges,
    undecided, mode, local, shut, pollers, evaluating, reports, goodAt,
    usedNow, polled, live, judging, trackers, alertCount, switches, state,
    stopping, conn, far, wire, probe, managed, attempt, running, venv,
    readers, busy, stage, task, promise, proven, ran, inbox, outbox, linked,
    asking, jobs, results, executions, challenges, wiring, source, sentAt,
    pane, looking, bridge, config, marker, picked, cred, session, gone, file,
    theirs, up, sent, queue, serving, replies, waits, outcome, summary, saves,
    drops, usage, unit, req, plist, system, loaded, neglected, runs, boots,
    used, plan, servers, proc, nextId, at, got, data, closing, tokens, mtime,
    holder, editors, deck, watched, budget>>
APIRest == <<part, agent, lifecycle, todo, bannered, threads, reminder,
    deferred, claim, lapses, screen, missed, last, notices, kept, acked,
    falling, droppedSeqs, shell, seen, posted, troubles, hub, known, prompt,
    answered, tasks, record, chat, alerted, answers, hits, begun, reminded,
    armed, waiting, restarts, confirmed, bot, offset, interactor, poll, acted,
    ignored, fresh, changes, faults, bridges, undecided, mode, local, shut,
    pollers, evaluating, reports, goodAt, usedNow, polled, live, judging,
    trackers, alertCount, switches, state, stopping, conn, far, probe,
    managed, attempt, running, venv, readers, busy, stage, task, promise,
    proven, ran, inbox, outbox, linked, asking, jobs, thread, late, link,
    cache, offer, tile, uncertain, deliveries, denied, job, held, minted,
    doubts, bounds, config, marker, picked, cred, session, gone, file, theirs,
    up, sent, queue, serving, replies, waits, outcome, summary, saves, drops,
    usage, unit, req, plist, system, loaded, neglected, runs, boots, used,
    plan, servers, proc, nextId, at, got, data, closing, tokens, mtime,
    holder, editors, deck, watched, budget>>
PicksRest == <<part, agent, lifecycle, todo, bannered, threads, reminder,
    deferred, claim, lapses, screen, missed, last, notices, kept, acked,
    falling, droppedSeqs, shell, seen, posted, troubles, hub, known, prompt,
    answered, tasks, record, chat, alerted, answers, hits, begun, reminded,
    armed, waiting, restarts, confirmed, bot, offset, interactor, poll, acted,
    ignored, fresh, changes, faults, bridges, undecided, mode, local, shut,
    pollers, evaluating, reports, goodAt, usedNow, polled, live, judging,
    trackers, alertCount, switches, state, stopping, conn, far, probe,
    managed, attempt, running, venv, readers, busy, stage, task, promise,
    proven, ran, inbox, outbox, linked, asking, jobs, thread, late, link,
    cache, offer, tile, uncertain, deliveries, denied, job, held, minted,
    doubts, bounds, config, marker, picked, cred, session, gone, file, theirs,
    up, sent, queue, serving, replies, waits, outcome, summary, saves, drops,
    usage, unit, req, plist, system, loaded, neglected, runs, boots, used,
    plan, servers, proc, nextId, at, got, data, closing, tokens, mtime,
    holder, editors, deck, watched, budget>>
SetupRest == <<part, lifecycle, todo, spent, bannered, threads, reminder,
    deferred, claim, lapses, screen, told, missed, last, notices, kept, acked,
    falling, droppedSeqs, shell, seen, posted, troubles, now, asked, hub,
    known, prompt, answered, tasks, record, chat, alerted, answers, hits,
    begun, reminded, armed, waiting, restarts, confirmed, bot, offset,
    interactor, poll, acted, ignored, fresh, changes, bridges, undecided,
    mode, local, shut, pollers, evaluating, reports, goodAt, usedNow, polled,
    live, judging, trackers, alertCount, switches, state, stopping, conn, far,
    wire, probe, managed, attempt, running, venv, readers, busy, stage, task,
    promise, proven, ran, inbox, outbox, linked, asking, jobs, thread, late,
    link, cache, offer, tile, uncertain, deliveries, denied, minted, doubts,
    bounds, results, executions, challenges, wiring, source, sentAt, pane,
    looking, bridge, file, theirs, up, sent, queue, serving, replies, waits,
    outcome, summary, saves, drops, usage, unit, req, plist, system, loaded,
    neglected, runs, boots, used, plan, servers, proc, nextId, at, got, data,
    closing, tokens, mtime, holder, editors, deck, watched, budget>>
RenewalsRest == <<part, lifecycle, todo, spent, bannered, threads, reminder,
    deferred, claim, lapses, screen, told, missed, last, notices, kept, acked,
    falling, droppedSeqs, shell, seen, posted, troubles, now, asked, hub,
    known, prompt, answered, tasks, record, chat, alerted, answers, hits,
    begun, reminded, armed, waiting, restarts, confirmed, bot, offset,
    interactor, poll, acted, ignored, fresh, changes, bridges, undecided,
    mode, local, shut, pollers, evaluating, reports, goodAt, usedNow, polled,
    live, judging, trackers, alertCount, switches, state, stopping, conn, far,
    wire, probe, managed, attempt, running, venv, readers, busy, stage, task,
    promise, proven, ran, inbox, outbox, linked, asking, jobs, thread, late,
    link, cache, offer, tile, uncertain, deliveries, denied, minted, doubts,
    bounds, results, executions, challenges, wiring, source, sentAt, pane,
    looking, bridge, file, theirs, up, sent, queue, serving, replies, waits,
    outcome, summary, saves, drops, usage, unit, req, plist, system, loaded,
    neglected, runs, boots, used, plan, servers, proc, nextId, at, got, data,
    closing, tokens, mtime, holder, editors, deck, watched, budget>>
EditsRest == <<part, agent, lifecycle, todo, spent, bannered, threads,
    reminder, deferred, claim, lapses, screen, told, missed, last, notices,
    kept, acked, falling, droppedSeqs, shell, seen, posted, troubles, now,
    hub, known, prompt, answered, tasks, record, chat, alerted, answers, hits,
    begun, reminded, armed, waiting, restarts, confirmed, bot, offset,
    interactor, poll, acted, ignored, fresh, changes, faults, bridges,
    undecided, mode, local, shut, pollers, evaluating, reports, goodAt,
    usedNow, polled, live, judging, trackers, alertCount, switches, state,
    stopping, conn, far, wire, probe, managed, attempt, running, venv,
    readers, busy, stage, task, promise, proven, ran, inbox, outbox, linked,
    asking, jobs, thread, late, link, cache, offer, tile, uncertain,
    deliveries, denied, held, minted, doubts, bounds, results, executions,
    challenges, wiring, source, sentAt, pane, looking, bridge, config, marker,
    picked, cred, session, gone, usage, unit, req, plist, system, loaded,
    neglected, runs, boots, used, plan, servers, proc, nextId, at, got, data,
    closing, tokens, mtime, holder, editors, deck, watched, budget>>
AsksRest == <<part, agent, lifecycle, todo, spent, bannered, threads,
    reminder, deferred, claim, lapses, screen, told, missed, last, notices,
    kept, acked, falling, droppedSeqs, shell, seen, posted, troubles, now,
    hub, known, prompt, answered, tasks, record, chat, alerted, answers, hits,
    begun, reminded, armed, waiting, restarts, confirmed, bot, offset,
    interactor, poll, acted, ignored, fresh, changes, faults, bridges,
    undecided, mode, local, shut, pollers, evaluating, reports, goodAt,
    usedNow, polled, live, judging, trackers, alertCount, switches, state,
    stopping, conn, far, wire, probe, managed, attempt, running, venv,
    readers, busy, stage, task, promise, proven, ran, inbox, outbox, linked,
    asking, jobs, thread, late, link, cache, offer, tile, uncertain,
    deliveries, denied, held, minted, doubts, bounds, results, executions,
    challenges, wiring, source, sentAt, pane, looking, bridge, config, marker,
    picked, cred, session, gone, usage, unit, req, plist, system, loaded,
    neglected, runs, boots, used, plan, servers, proc, nextId, at, got, data,
    closing, tokens, mtime, holder, editors, deck, watched, budget>>
AgentRest == <<part, lifecycle, todo, spent, bannered, threads, reminder,
    deferred, claim, lapses, screen, told, missed, last, notices, kept, acked,
    falling, droppedSeqs, shell, seen, posted, troubles, asked, hub, known,
    prompt, answered, tasks, record, chat, alerted, answers, hits, begun,
    reminded, armed, waiting, restarts, confirmed, bot, offset, interactor,
    poll, acted, ignored, fresh, changes, bridges, undecided, mode, local,
    shut, pollers, evaluating, reports, goodAt, usedNow, polled, live,
    judging, trackers, alertCount, switches, state, stopping, conn, far, wire,
    probe, managed, attempt, running, venv, readers, busy, stage, task,
    promise, proven, ran, inbox, outbox, linked, asking, jobs, thread, late,
    link, cache, offer, tile, uncertain, deliveries, denied, job, held,
    minted, doubts, bounds, results, executions, challenges, wiring, source,
    sentAt, pane, looking, config, marker, picked, cred, gone, theirs, sent,
    queue, serving, replies, waits, outcome, summary, saves, drops, plist,
    system, loaded, neglected, runs, boots, used, plan, servers, proc, nextId,
    at, got, data, closing, tokens, mtime, holder, editors, deck, watched,
    budget>>
UnitsRest == <<part, agent, lifecycle, todo, spent, bannered, threads,
    reminder, deferred, claim, lapses, screen, told, missed, last, notices,
    kept, acked, falling, droppedSeqs, shell, seen, posted, troubles, now,
    asked, hub, known, prompt, answered, tasks, record, chat, alerted,
    answers, hits, begun, reminded, armed, waiting, restarts, confirmed, bot,
    offset, interactor, poll, acted, ignored, fresh, changes, bridges,
    undecided, mode, local, shut, pollers, evaluating, reports, goodAt,
    usedNow, polled, live, judging, trackers, alertCount, switches, state,
    stopping, conn, far, wire, probe, managed, attempt, running, readers,
    busy, stage, task, promise, proven, ran, inbox, outbox, linked, asking,
    jobs, thread, late, link, cache, offer, tile, uncertain, deliveries,
    denied, held, minted, doubts, bounds, results, executions, challenges,
    wiring, source, sentAt, pane, looking, bridge, config, marker, picked,
    cred, session, gone, file, theirs, up, sent, queue, serving, replies,
    waits, outcome, summary, saves, drops, usage, unit, req, used, plan,
    servers, proc, nextId, at, got, data, closing, tokens, mtime, holder,
    editors, deck, watched, budget>>
PollsRest == <<part, agent, lifecycle, todo, spent, bannered, threads,
    reminder, deferred, claim, lapses, screen, told, missed, last, notices,
    kept, acked, falling, droppedSeqs, shell, seen, posted, troubles, hub,
    known, prompt, answered, tasks, record, chat, alerted, answers, hits,
    begun, reminded, armed, waiting, restarts, confirmed, bot, offset,
    interactor, poll, acted, ignored, fresh, changes, bridges, undecided,
    mode, local, shut, pollers, evaluating, reports, goodAt, usedNow, live,
    judging, trackers, alertCount, switches, state, stopping, conn, far, wire,
    probe, managed, attempt, running, venv, readers, busy, stage, task,
    promise, proven, ran, inbox, outbox, linked, asking, jobs, thread, late,
    link, offer, tile, uncertain, deliveries, denied, job, held, minted,
    doubts, bounds, results, executions, challenges, wiring, source, sentAt,
    pane, looking, bridge, config, marker, picked, cred, session, gone, file,
    theirs, up, sent, serving, replies, waits, outcome, summary, saves, drops,
    usage, unit, req, plist, system, loaded, neglected, runs, boots, tokens,
    mtime, holder, editors, deck, watched, budget>>
GrowsRest == <<part, agent, lifecycle, todo, spent, bannered, threads,
    reminder, deferred, claim, lapses, screen, told, missed, last, notices,
    kept, acked, falling, droppedSeqs, shell, seen, posted, troubles, hub,
    known, prompt, answered, tasks, record, chat, alerted, answers, hits,
    begun, reminded, armed, waiting, restarts, confirmed, bot, offset,
    interactor, poll, acted, ignored, fresh, changes, bridges, undecided,
    mode, local, shut, pollers, evaluating, reports, goodAt, usedNow, live,
    judging, trackers, alertCount, switches, state, stopping, conn, far, wire,
    probe, managed, attempt, running, venv, readers, busy, stage, task,
    promise, proven, ran, inbox, outbox, linked, asking, jobs, thread, late,
    link, offer, tile, uncertain, deliveries, denied, job, held, minted,
    doubts, bounds, results, executions, challenges, wiring, source, sentAt,
    pane, looking, bridge, config, marker, picked, cred, session, gone, file,
    theirs, up, sent, serving, replies, waits, outcome, summary, saves, drops,
    usage, unit, req, plist, system, loaded, neglected, runs, boots, tokens,
    mtime, holder, editors, deck, watched, budget>>
FilesRest == <<part, agent, lifecycle, todo, spent, bannered, threads,
    reminder, deferred, claim, lapses, screen, told, missed, last, notices,
    acked, falling, droppedSeqs, shell, seen, posted, troubles, now, asked,
    hub, known, prompt, answered, tasks, record, chat, alerted, answers, hits,
    begun, reminded, armed, waiting, restarts, confirmed, bot, offset,
    interactor, poll, acted, ignored, fresh, changes, faults, bridges,
    undecided, mode, shut, pollers, evaluating, reports, goodAt, usedNow,
    polled, live, judging, trackers, alertCount, switches, state, stopping,
    conn, far, wire, probe, managed, attempt, running, venv, readers, busy,
    stage, task, promise, proven, ran, inbox, outbox, linked, asking, jobs,
    thread, late, link, cache, offer, tile, uncertain, deliveries, denied,
    job, held, minted, doubts, bounds, results, executions, challenges,
    wiring, source, sentAt, pane, looking, bridge, marker, picked, cred,
    session, gone, file, theirs, up, sent, queue, serving, replies, waits,
    outcome, summary, saves, drops, usage, unit, req, plist, system, loaded,
    neglected, runs, boots, used, plan, servers, proc, nextId, at, got, data,
    closing>>
BlindlyRest == <<part, agent, lifecycle, todo, spent, bannered, threads,
    reminder, deferred, claim, lapses, screen, told, missed, last, notices,
    acked, falling, droppedSeqs, shell, seen, posted, troubles, now, asked,
    hub, known, prompt, answered, tasks, record, chat, alerted, answers, hits,
    begun, reminded, armed, waiting, restarts, confirmed, bot, offset,
    interactor, poll, acted, ignored, fresh, changes, faults, bridges,
    undecided, mode, shut, pollers, evaluating, reports, goodAt, usedNow,
    polled, live, judging, trackers, alertCount, switches, state, stopping,
    conn, far, wire, probe, managed, attempt, running, venv, readers, busy,
    stage, task, promise, proven, ran, inbox, outbox, linked, asking, jobs,
    thread, late, link, cache, offer, tile, uncertain, deliveries, denied,
    job, held, minted, doubts, bounds, results, executions, challenges,
    wiring, source, sentAt, pane, looking, bridge, marker, picked, cred,
    session, gone, file, theirs, up, sent, queue, serving, replies, waits,
    outcome, summary, saves, drops, usage, unit, req, plist, system, loaded,
    neglected, runs, boots, used, plan, servers, proc, nextId, at, got, data,
    closing>>

BannerSteps == part = "banners" /\ Banner!Next /\ UNCHANGED BannerRest
NoticesSteps == part = "notices" /\ Notices!Next /\ UNCHANGED NoticesRest
TelegramSteps == part = "telegram" /\ Telegram!Next /\ UNCHANGED TelegramRest
RemindsSteps == part = "reminds" /\ Reminds!Next /\ UNCHANGED RemindsRest
TapsSteps == part = "taps" /\ Taps!Next /\ UNCHANGED TapsRest
SourcesSteps == part = "usage" /\ Sources!Next /\ UNCHANGED SourcesRest
LevelsSteps == part = "levels" /\ Levels!Next /\ UNCHANGED LevelsRest
LinkSteps == part = "link" /\ Link!Next /\ UNCHANGED LinkRest
UpdateSteps == part = "update" /\ Update!Next /\ UNCHANGED UpdateRest
T3Steps == part = "t3" /\ T3!Next /\ UNCHANGED T3Rest
APISteps == part = "api" /\ API!Next /\ UNCHANGED APIRest
PicksSteps == part = "choices" /\ Picks!Next /\ UNCHANGED PicksRest
SetupSteps == part = "setup" /\ Setup!Next /\ UNCHANGED SetupRest
RenewalsSteps == part = "renewals" /\ Renewals!Next /\ UNCHANGED RenewalsRest
EditsSteps == part = "edits" /\ Edits!Next /\ UNCHANGED EditsRest
AsksSteps == part = "asks" /\ Asks!Next /\ UNCHANGED AsksRest
AgentSteps == part = "agent" /\ Agent!Next /\ UNCHANGED AgentRest
UnitsSteps == part = "units" /\ Units!Next /\ UNCHANGED UnitsRest
PollsSteps == part = "poll" /\ Polls!Next /\ UNCHANGED PollsRest
GrowsSteps == part = "grows" /\ Grows!Next /\ UNCHANGED GrowsRest
FilesSteps == part = "config" /\ Files!Next /\ UNCHANGED FilesRest
BlindlySteps == part = "slow" /\ Blindly!Next /\ UNCHANGED BlindlyRest

Next == BannerSteps \/ NoticesSteps \/ TelegramSteps \/ RemindsSteps \/ TapsSteps \/
        SourcesSteps \/ LevelsSteps \/ LinkSteps \/ UpdateSteps \/ T3Steps \/
        APISteps \/ PicksSteps \/ SetupSteps \/ RenewalsSteps \/ EditsSteps \/
        AsksSteps \/ AgentSteps \/ UnitsSteps \/ PollsSteps \/ GrowsSteps \/
        FilesSteps \/ BlindlySteps

vars == <<part, agent, lifecycle, todo, spent, bannered, threads, reminder,
          deferred, claim, lapses, screen, told, missed, last, notices, kept,
          acked, falling, droppedSeqs, shell, seen, posted, troubles, now, asked,
          hub, known, prompt, answered, tasks, record, chat, alerted, answers,
          hits, begun, reminded, armed, waiting, restarts, confirmed, bot, offset,
          interactor, poll, acted, ignored, fresh, changes, faults, bridges,
          undecided, mode, local, shut, pollers, evaluating, reports, goodAt,
          usedNow, polled, live, judging, trackers, alertCount, switches, state,
          stopping, conn, far, wire, probe, managed, attempt, running, venv,
          readers, busy, stage, task, promise, proven, ran, inbox, outbox, linked,
          asking, jobs, thread, late, link, cache, offer, tile, uncertain,
          deliveries, denied, job, held, minted, doubts, bounds, results,
          executions, challenges, wiring, source, sentAt, pane, looking, bridge,
          config, marker, picked, cred, session, gone, file, theirs, up, sent,
          queue, serving, replies, waits, outcome, summary, saves, drops, usage,
          unit, req, plist, system, loaded, neglected, runs, boots, used, plan,
          servers, proc, nextId, at, got, data, closing, tokens, mtime, holder,
          editors, deck, watched, budget>>

Spec == Init /\ [][Next]_vars

\* Every part keeps its types.
TypeOK ==
  /\ part = "banners" => Banner!TypeOK
  /\ part = "notices" => Notices!TypeOK
  /\ part = "telegram" => Telegram!TypeOK
  /\ part = "reminds" => Reminds!TypeOK
  /\ part = "taps" => Taps!TypeOK
  /\ part = "usage" => Sources!TypeOK
  /\ part = "levels" => Levels!TypeOK
  /\ part = "link" => Link!TypeOK
  /\ part = "update" => Update!TypeOK
  /\ part = "t3" => T3!TypeOK
  /\ part = "api" => API!TypeOK
  /\ part = "choices" => Picks!TypeOK
  /\ part = "setup" => Setup!TypeOK
  /\ part = "renewals" => Renewals!TypeOK
  /\ part = "edits" => Edits!TypeOK
  /\ part = "asks" => Asks!TypeOK
  /\ part = "agent" => Agent!TypeOK
  /\ part = "units" => Units!TypeOK
  /\ part = "poll" => Polls!TypeOK
  /\ part = "grows" => Grows!TypeOK
  /\ part = "config" => Files!TypeOK
  /\ part = "slow" => Blindly!TypeOK

\* A banner is of the block it names, its reminder too, and it reaches the
\* desktop once although shells restart and replies are lost.
BannersAreTrue ==
  /\ part = "banners" => Banner!BannersAreTrue
  /\ part = "notices" => Notices!BannersArrive

\* What a tap in Telegram answers is the question its alert showed, and it is
\* answered once, over rebuilt interactors and repeated updates.
AnswersAreOfTheAlert ==
  /\ part = "telegram" => Telegram!AlertsAreOfTheQuestion
  /\ part = "reminds" => Reminds!AlertsAreOfTheQuestion
  /\ part = "taps" => Taps!TapsActOnce

\* One poller reads the accounts, and a level is announced once a period,
\* whichever source the deck turns to; what the poller read is the answer to its
\* own question, and it leaves no app-server behind.
UsageIsToldOnce ==
  /\ part = "usage" => Sources!OnePoller
  /\ part = "poll" => Polls!PollIsHonest
  /\ part = "grows" => Grows!PollIsHonest
  /\ part = "levels" => Levels!AnnouncedOnce

\* What a connection asked is answered by that connection only, and a stop ends it.
ConnectionIsHonest == part = "link" => Link!ConnectionIsHonest

\* A bridge comes back as the version it promised, and says "updated" only then.
UpdateIsHonest == part = "update" => Update!UpdateIsHonest

\* A press at a T3 thread runs once, whatever replies are lost, late or repeated.
DeliveredOnce == part = "t3" => T3!DeliveredOnce

\* A request sends once for its key, and only what was confirmed for it; a choice is
\* typed into the question it was made for; the
\* own poller starts only after the grace; a level that is told was reached; a T3
\* thread in doubt gets no new command; a connect does not lose local sessions; a
\* failed poll hides no usage that is fresh enough.
NothingUnasked ==
  [][/\ part = "api" => API!OncePerKey /\ API!ConfirmedForThis
     /\ part = "choices" => Picks!OncePerKey /\ Picks!ChoicesAreMeant
     /\ part = "usage" => Sources!SwitchesLate
     /\ part = "levels" => Levels!LevelReached
     /\ part = "t3" => T3!LockHolds
     /\ part = "poll" => Polls!FailureKeeps /\ Polls!CodexGrows
     /\ part = "grows" => Grows!FailureKeeps /\ Grows!CodexGrows
     /\ part = "setup" => Setup!ChoiceStep]_vars

\* A command that sets something up is done or undone, whatever step fails: a
\* configured T3 server has a token it honours, the hooks of others stay, a file
\* of usage has an agent, and one bridge runs.
SetupsAreWhole ==
  /\ part = "setup" => /\ Setup!StoredIsHonoured /\ Setup!NoneIsLeftBehind
                       /\ Setup!HeldIsHonoured
  /\ part = "renewals" => Renewals!StoredIsHonoured
  /\ part \in {"edits", "asks"} => Edits!TheirsAreKept /\ Edits!EditsSettle
  /\ part = "asks" => Asks!HeardOfItsOwn
  /\ part = "agent" => Agent!FileHasAnAgent
  /\ part = "units" => Units!ServicesAreWhole

\* A saved change of the configuration is not undone by an older read, the deck
\* shows what the files say and never connects with the placeholder of a
\* validation, and what the editor reads can be applied.
ConfigIsKept ==
  /\ part = "config" => Files!ConfigIsKept
  /\ part = "slow" => /\ Blindly!PlaceholderStaysIn /\ Blindly!FilesAreShown
                      /\ Blindly!ReadIsSound

-----------------------------------------------------------------------------
(* What the run checks of three parts, from the theorems about them.       *)

\* A step of a part is a step of the run that stays with this part.
LEMMA OneAtATime ==
  /\ BannerSteps => part' = "banners"
  /\ NoticesSteps => part' = "notices"
  /\ TelegramSteps => part' = "telegram"
  /\ RemindsSteps => part' = "reminds"
  /\ TapsSteps => part' = "taps"
  /\ SourcesSteps => part' = "usage"
  /\ LevelsSteps => part' = "levels"
  /\ LinkSteps => part' = "link"
  /\ UpdateSteps => part' = "update"
  /\ T3Steps => part' = "t3"
  /\ APISteps => part' = "api"
  /\ PicksSteps => part' = "choices"
  /\ SetupSteps => part' = "setup"
  /\ RenewalsSteps => part' = "renewals"
  /\ EditsSteps => part' = "edits"
  /\ AsksSteps => part' = "asks"
  /\ AgentSteps => part' = "agent"
  /\ UnitsSteps => part' = "units"
  /\ PollsSteps => part' = "poll"
  /\ GrowsSteps => part' = "grows"
  /\ FilesSteps => part' = "config"
  /\ BlindlySteps => part' = "slow"
<1>1. BannerSteps => part' = "banners"
  BY DEF BannerSteps, BannerRest
<1>2. NoticesSteps => part' = "notices"
  BY DEF NoticesSteps, NoticesRest
<1>3. TelegramSteps => part' = "telegram"
  BY DEF TelegramSteps, TelegramRest
<1>4. RemindsSteps => part' = "reminds"
  BY DEF RemindsSteps, RemindsRest
<1>5. TapsSteps => part' = "taps"
  BY DEF TapsSteps, TapsRest
<1>6. SourcesSteps => part' = "usage"
  BY DEF SourcesSteps, SourcesRest
<1>7. LevelsSteps => part' = "levels"
  BY DEF LevelsSteps, LevelsRest
<1>8. LinkSteps => part' = "link"
  BY DEF LinkSteps, LinkRest
<1>9. UpdateSteps => part' = "update"
  BY DEF UpdateSteps, UpdateRest
<1>10. T3Steps => part' = "t3"
  BY DEF T3Steps, T3Rest
<1>11. APISteps => part' = "api"
  BY DEF APISteps, APIRest
<1>12. PicksSteps => part' = "choices"
  BY DEF PicksSteps, PicksRest
<1>13. SetupSteps => part' = "setup"
  BY DEF SetupSteps, SetupRest
<1>14. RenewalsSteps => part' = "renewals"
  BY DEF RenewalsSteps, RenewalsRest
<1>15. EditsSteps => part' = "edits"
  BY DEF EditsSteps, EditsRest
<1>16. AsksSteps => part' = "asks"
  BY DEF AsksSteps, AsksRest
<1>17. AgentSteps => part' = "agent"
  BY DEF AgentSteps, AgentRest
<1>18. UnitsSteps => part' = "units"
  BY DEF UnitsSteps, UnitsRest
<1>19. PollsSteps => part' = "poll"
  BY DEF PollsSteps, PollsRest
<1>20. GrowsSteps => part' = "grows"
  BY DEF GrowsSteps, GrowsRest
<1>21. FilesSteps => part' = "config"
  BY DEF FilesSteps, FilesRest
<1>22. BlindlySteps => part' = "slow"
  BY DEF BlindlySteps, BlindlyRest
<1> QED BY <1>1, <1>2, <1>3, <1>4, <1>5, <1>6, <1>7, <1>8, <1>9, <1>10, <1>11,
         <1>12, <1>13, <1>14, <1>15, <1>16, <1>17, <1>18, <1>19, <1>20, <1>21,
         <1>22

\* A behaviour that runs the connection starts as the connection does, and
\* takes its steps.
LEMMA LinkRuns ==
  /\ Init /\ part = "link" => Link!Init
  /\ [Next]_vars /\ part' = "link" => part = "link" /\ [Link!Next]_(Link!connectionVars)
<1>1. Init /\ part = "link" => Link!Init
  BY DEF Init, BannerStarts, NoticesStarts, TelegramStarts, RemindsStarts,
         TapsStarts, SourcesStarts, LevelsStarts, LinkStarts, UpdateStarts,
         T3Starts, APIStarts, PicksStarts, SetupStarts, RenewalsStarts,
         EditsStarts, AsksStarts, AgentStarts, UnitsStarts, PollsStarts,
         GrowsStarts, FilesStarts, BlindlyStarts
<1>2. ASSUME [Next]_vars, part' = "link"
      PROVE  part = "link" /\ [Link!Next]_(Link!connectionVars)
  <2>1. CASE UNCHANGED vars
    BY <1>2, <2>1 DEF vars, Link!connectionVars
  <2>2. CASE LinkSteps
    BY <2>2 DEF LinkSteps, LinkRest
  <2>3. CASE Next /\ ~LinkSteps
    BY <1>2, <2>3, OneAtATime DEF Next
  <2> QED BY <1>2, <2>1, <2>2, <2>3
<1> QED BY <1>1, <1>2

\* The same of one that runs the T3 thread.
LEMMA T3Runs ==
  /\ Init /\ part = "t3" => T3!Init
  /\ [Next]_vars /\ part' = "t3" => part = "t3" /\ [T3!Next]_(T3!deliveryVars)
<1>1. Init /\ part = "t3" => T3!Init
  BY DEF Init, BannerStarts, NoticesStarts, TelegramStarts, RemindsStarts,
         TapsStarts, SourcesStarts, LevelsStarts, LinkStarts, UpdateStarts,
         T3Starts, APIStarts, PicksStarts, SetupStarts, RenewalsStarts,
         EditsStarts, AsksStarts, AgentStarts, UnitsStarts, PollsStarts,
         GrowsStarts, FilesStarts, BlindlyStarts
<1>2. ASSUME [Next]_vars, part' = "t3"
      PROVE  part = "t3" /\ [T3!Next]_(T3!deliveryVars)
  <2>1. CASE UNCHANGED vars
    BY <1>2, <2>1 DEF vars, T3!deliveryVars
  <2>2. CASE T3Steps
    BY <2>2 DEF T3Steps, T3Rest
  <2>3. CASE Next /\ ~T3Steps
    BY <1>2, <2>3, OneAtATime DEF Next
  <2> QED BY <1>2, <2>1, <2>2, <2>3
<1> QED BY <1>1, <1>2

\* The same of one that runs the self-update.
LEMMA UpdateRuns ==
  /\ Init /\ part = "update" => Update!Init
  /\ [Next]_vars /\ part' = "update" => part = "update" /\ [Update!Next]_(Update!vars)
<1>1. Init /\ part = "update" => Update!Init
  BY DEF Init, BannerStarts, NoticesStarts, TelegramStarts, RemindsStarts,
         TapsStarts, SourcesStarts, LevelsStarts, LinkStarts, UpdateStarts,
         T3Starts, APIStarts, PicksStarts, SetupStarts, RenewalsStarts,
         EditsStarts, AsksStarts, AgentStarts, UnitsStarts, PollsStarts,
         GrowsStarts, FilesStarts, BlindlyStarts
<1>2. ASSUME [Next]_vars, part' = "update"
      PROVE  part = "update" /\ [Update!Next]_(Update!vars)
  <2>1. CASE UNCHANGED vars
    BY <1>2, <2>1 DEF vars, Update!vars
  <2>2. CASE UpdateSteps
    BY <2>2 DEF UpdateSteps, UpdateRest
  <2>3. CASE Next /\ ~UpdateSteps
    BY <1>2, <2>3, OneAtATime DEF Next
  <2> QED BY <1>2, <2>1, <2>2, <2>3
<1> QED BY <1>1, <1>2

\* The actions of the run fit into what is remembered.
LEMMA T3IsSized == T3!Sizes
<1>1. T3!IsFiniteSet({"plan"}) /\ T3!Cardinality({"plan"}) = 1
  BY T3!FS_Singleton
<1>2. /\ T3!IsFiniteSet({"plan"} \cup {"reply"})
      /\ T3!Cardinality({"plan"} \cup {"reply"}) \in {1, 2}
  BY <1>1, T3!FS_AddElement
<1>3. {"plan"} \cup {"reply"} = {"reply", "plan"}
  OBVIOUS
<1>4. T3!IsFiniteSet({"reply", "plan"}) /\ T3!Cardinality({"reply", "plan"}) <= 3
  BY <1>2, <1>3
<1> QED BY <1>4 DEF T3!Sizes, T3!OfActions

\* What a connection asked is answered by that connection only, a stop finds
\* whatever runs, and nobody is told of a connection between two of them: for
\* the part of the run, whatever the bridge does (connector.py).
THEOREM PartIsHonest == Spec => []ConnectionIsHonest
<1> DEFINE LinkInv == part = "link" => Link!IInv
<1>0. Link!Bounds
  BY DEF Link!Bounds
<1>1. Init => LinkInv
  BY <1>0, Link!InitIInv, LinkRuns
<1>2. LinkInv /\ [Next]_vars => LinkInv'
  BY <1>0, Link!StepIInv, LinkRuns
<1>3. LinkInv => ConnectionIsHonest
  BY Link!IsHonest DEF ConnectionIsHonest
<1> QED BY <1>1, <1>2, <1>3, PTL DEF Spec

\* A press at a T3 thread runs once, and a tile that can be pressed shows a
\* detail as new as its shell: for the part of the run, whatever replies are
\* lost, late or repeated (t3.py).
THEOREM PartIsDeliveredOnce == Spec => []DeliveredOnce
<1> DEFINE T3Inv == part = "t3" => T3!IInv
<1>1. Init => T3Inv
  BY T3IsSized, T3!InitIInv, T3Runs
<1>2. T3Inv /\ [Next]_vars => T3Inv'
  BY T3IsSized, T3!StepIInv, T3Runs
<1>3. T3Inv => DeliveredOnce
  BY T3!IsDeliveredOnce DEF DeliveredOnce
<1> QED BY <1>1, <1>2, <1>3, PTL DEF Spec

\* The runtimes of the run have versions.
LEMMA UpdateIsGiven == Update!Given
<1>1. [r \in {"desk", "phone"} |-> IF r = "desk" THEN 2 ELSE 3]
        \in [{"desk", "phone"} -> Nat \ {0}]
  OBVIOUS
<1> QED BY <1>1 DEF Update!Given, Update!Gone

\* A bridge comes back as the version it promised, "updated" is said of a version
\* that was proven, and nothing pulls the bridge back: for the part of the run,
\* however often it crashes or an install fails half way (self_update.py).
THEOREM PartUpdatesHonestly == Spec => []UpdateIsHonest
<1> DEFINE UpdateInv == part = "update" => Update!IInv
<1>1. Init => UpdateInv
  BY UpdateIsGiven, Update!InitIInv, UpdateRuns
<1>2. UpdateInv /\ [Next]_vars => UpdateInv'
  BY UpdateIsGiven, Update!StepIInv, UpdateRuns
<1>3. UpdateInv => UpdateIsHonest
  BY Update!PromisesAreHonest DEF UpdateIsHonest
<1> QED BY <1>1, <1>2, <1>3, PTL DEF Spec
==============================================================================
