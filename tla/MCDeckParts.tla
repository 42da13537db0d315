----------------------------- MODULE MCDeckParts -----------------------------
(***************************************************************************)
(* Parts of the deck that share no state, each a behaviour of its own: the *)
(* supervisor of the physical deck, the overview grid with its press       *)
(* guard, the drill of one pane, the frames of the web deck, the switches  *)
(* between sources, the power of the D200, the backend of the Stream Deck  *)
(* plugin, the menus with the triage loop and the pins, the lives of the   *)
(* bridges, and the answers from card, banner and deck.                    *)
(***************************************************************************)
EXTENDS Integers, Sequences, FiniteSets

VARIABLES
    part,   \* the part this behaviour runs
    rendered, latest, tickers, delivering, lock, sup, active, device, built, gone,
    wake, reconfigure, stopping, pump, shown, written, failed, config, setter,
    attempts, restart, faults, agent, since, display, placed, ranks, target,
    adopt, changed, page, away, dirty, frame, lastShown, misled, now, changes,
    port, pin, saved, present, checked, thread, moves, real, told, up, inbox,
    outbox, s, writer, last, due, priming, steady, reqs, drops, pane, turns,
    bridge, toBridge, toRuntime, block, preread, reading, revision, spent, banner,
    card, waits, woken, asked, typed, outcome, known, answered, done, drill,
    triage, launcher, menu, origin, unfolded, spot, pins, stored, profile, next,
    toggled, swaps, pinned, events, sent, owed, down, began, req, missing, reads,
    detection, armed, unseen, source, orch, seqs, stale, ticks, presses, split,
    version, list, reader, dock, herdr, open, todo, why, clock, kept, noted, rows,
    stop, deck, files, secret, marker, app, running, reloader, baseline, holder,
    tx, counts

Device == INSTANCE PhysicalDeck WITH MaxFrames <- 1, MaxTickers <- 1,
    MaxFaults <- 1, MaxConfigs <- 1
Grid == INSTANCE DeckOverview WITH Panes <- 1..3, Slots <- 2, Guard <- 2,
    Settle <- 3, FleetChanges <- FALSE, MaxChanges <- 2, MaxNow <- 3
Power == INSTANCE DeckPower WITH Ports <- {1, 2}, Pins <- {0}, PresentTtl <- 1,
    LocationTtl <- 2, MovesAnytime <- FALSE, MaxRequests <- 2, MaxNow <- 1,
    MaxMoves <- 0, MaxFaults <- 0
Pinned == INSTANCE DeckPower WITH Ports <- {1, 2}, Pins <- {0, 1},
    PresentTtl <- 1, LocationTtl <- 2, MovesAnytime <- FALSE, MaxRequests <- 1,
    MaxNow <- 2, MaxMoves <- 1, MaxFaults <- 1
Asked == INSTANCE ElgatoDeck WITH Agents <- {1}, Errors <- FALSE,
    PressesOffline <- FALSE, SlowClient <- FALSE, MaxAsks <- 2, MaxTerms <- 1,
    MaxReqs <- 2, MaxDrops <- 0, MaxClients <- 1
Moved == INSTANCE ElgatoDeck WITH Agents <- {1}, Errors <- FALSE,
    PressesOffline <- FALSE, SlowClient <- FALSE, MaxAsks <- 2, MaxTerms <- 2,
    MaxReqs <- 1, MaxDrops <- 0, MaxClients <- 1
Joined == INSTANCE ElgatoDeck WITH Agents <- {1}, Errors <- FALSE,
    PressesOffline <- FALSE, SlowClient <- FALSE, MaxAsks <- 1, MaxTerms <- 1,
    MaxReqs <- 2, MaxDrops <- 1, MaxClients <- 2
Picked == INSTANCE ElgatoDeck WITH Agents <- {1, 2}, Errors <- FALSE,
    PressesOffline <- FALSE, SlowClient <- FALSE, MaxAsks <- 1, MaxTerms <- 1,
    MaxReqs <- 1, MaxDrops <- 0, MaxClients <- 1
Answer == INSTANCE Answers WITH Events <- TRUE, Chooses <- TRUE, Alike <- FALSE,
    Ways <- {"card", "banner", "drill"}, WakesAtOnce <- TRUE, MaxQuestions <- 2,
    MaxRequests <- 2, MaxFaults <- 0, MaxReads <- 0
Means == INSTANCE Answers WITH Events <- TRUE, Chooses <- TRUE, Alike <- FALSE,
    Ways <- {"card", "banner", "drill", "reply", "text", "stop", "focus"},
    WakesAtOnce <- TRUE, MaxQuestions <- 2, MaxRequests <- 1, MaxFaults <- 0,
    MaxReads <- 1
Older == INSTANCE Answers WITH Events <- FALSE, Chooses <- FALSE, Alike <- FALSE,
    Ways <- {"card", "banner", "drill", "reply", "text"}, WakesAtOnce <- TRUE,
    MaxQuestions <- 2, MaxRequests <- 1, MaxFaults <- 1, MaxReads <- 1
Loop == INSTANCE DeckMenus WITH Agents <- {1, 2}, Profiles <- {"a"},
    Stamps <- TRUE, Skewed <- FALSE, Folds <- TRUE, BannersOfFolded <- FALSE,
    PinsWhileSwapping <- FALSE, MaxTurns <- 3, MaxSwaps <- 0, MaxPins <- 0
Menus == INSTANCE DeckMenus WITH Agents <- {1, 2}, Profiles <- {"a", "b"},
    Stamps <- TRUE, Skewed <- FALSE, Folds <- FALSE, BannersOfFolded <- FALSE,
    PinsWhileSwapping <- FALSE, MaxTurns <- 1, MaxSwaps <- 1, MaxPins <- 2
Drill == INSTANCE DeckDrill WITH Panes <- {"p"}, MaxTurns <- 2, MaxReads <- 2,
    MaxDrops <- 1, OfflineDrills <- FALSE
Frames == INSTANCE DeckFrames WITH MaxData <- 1, MaxSwaps <- 1, MaxTicks <- 1,
    FullTicks <- 2, MaxPresses <- 1, ViewLapses <- FALSE
Single == INSTANCE BridgeLife WITH HasService <- FALSE, Sessions <- 1,
    SlowWriter <- FALSE, QueueMax <- 1, MaxRunners <- 2, MaxTurns <- 1,
    MaxNotes <- 0, MaxBoots <- 0
Pair == INSTANCE BridgeLife WITH HasService <- FALSE, Sessions <- 2,
    SlowWriter <- FALSE, QueueMax <- 1, MaxRunners <- 2, MaxTurns <- 2,
    MaxNotes <- 0, MaxBoots <- 0
Serves == INSTANCE BridgeLife WITH HasService <- TRUE, Sessions <- 0,
    SlowWriter <- FALSE, QueueMax <- 1, MaxRunners <- 0, MaxTurns <- 1,
    MaxNotes <- 4, MaxBoots <- 2
Switch == INSTANCE Switching WITH
    Choices <- {"demo", "local", "sessions", "both", "remote", "saved"},
    MaxConnects <- 2, MaxEdits <- 1, MaxFails <- 2, MaxCrashes <- 1,
    SessionsFail <- FALSE

Off == "off"   \* the state of the parts that do not run

DeviceStarts ==
  /\ part = "device" /\ Device!Init
  /\ agent = Off /\ since = Off /\ display = Off /\ placed = Off /\ ranks = Off
  /\ target = Off /\ adopt = Off /\ changed = Off /\ page = Off /\ away = Off
  /\ dirty = Off /\ frame = Off /\ lastShown = Off /\ misled = Off /\ now = Off
  /\ changes = Off /\ port = Off /\ pin = Off /\ saved = Off /\ present = Off
  /\ checked = Off /\ thread = Off /\ moves = Off /\ real = Off /\ told = Off
  /\ up = Off /\ inbox = Off /\ outbox = Off /\ s = Off /\ writer = Off
  /\ last = Off /\ due = Off /\ priming = Off /\ steady = Off /\ reqs = Off
  /\ drops = Off /\ pane = Off /\ turns = Off /\ bridge = Off /\ toBridge = Off
  /\ toRuntime = Off /\ block = Off /\ preread = Off /\ reading = Off
  /\ revision = Off /\ spent = Off /\ banner = Off /\ card = Off /\ waits = Off
  /\ woken = Off /\ asked = Off /\ typed = Off /\ outcome = Off /\ known = Off
  /\ answered = Off /\ done = Off /\ drill = Off /\ triage = Off /\ launcher = Off
  /\ menu = Off /\ origin = Off /\ unfolded = Off /\ spot = Off /\ pins = Off
  /\ stored = Off /\ profile = Off /\ next = Off /\ toggled = Off /\ swaps = Off
  /\ pinned = Off /\ events = Off /\ sent = Off /\ owed = Off /\ down = Off
  /\ began = Off /\ req = Off /\ missing = Off /\ reads = Off /\ detection = Off
  /\ armed = Off /\ unseen = Off /\ source = Off /\ orch = Off /\ seqs = Off
  /\ stale = Off /\ ticks = Off /\ presses = Off /\ split = Off /\ version = Off
  /\ list = Off /\ reader = Off /\ dock = Off /\ herdr = Off /\ open = Off
  /\ todo = Off /\ why = Off /\ clock = Off /\ kept = Off /\ noted = Off
  /\ rows = Off /\ stop = Off /\ deck = Off /\ files = Off /\ secret = Off
  /\ marker = Off /\ app = Off /\ running = Off /\ reloader = Off
  /\ baseline = Off /\ holder = Off /\ tx = Off /\ counts = Off
GridStarts ==
  /\ part = "overview" /\ Grid!Init
  /\ rendered = Off /\ latest = Off /\ tickers = Off /\ delivering = Off
  /\ lock = Off /\ sup = Off /\ active = Off /\ device = Off /\ built = Off
  /\ gone = Off /\ wake = Off /\ reconfigure = Off /\ stopping = Off /\ pump = Off
  /\ shown = Off /\ written = Off /\ failed = Off /\ config = Off /\ setter = Off
  /\ attempts = Off /\ restart = Off /\ faults = Off /\ port = Off /\ pin = Off
  /\ saved = Off /\ present = Off /\ checked = Off /\ thread = Off /\ moves = Off
  /\ real = Off /\ told = Off /\ up = Off /\ inbox = Off /\ outbox = Off
  /\ s = Off /\ writer = Off /\ last = Off /\ due = Off /\ priming = Off
  /\ steady = Off /\ reqs = Off /\ drops = Off /\ pane = Off /\ turns = Off
  /\ bridge = Off /\ toBridge = Off /\ toRuntime = Off /\ block = Off
  /\ preread = Off /\ reading = Off /\ revision = Off /\ spent = Off
  /\ banner = Off /\ card = Off /\ waits = Off /\ woken = Off /\ asked = Off
  /\ typed = Off /\ outcome = Off /\ known = Off /\ answered = Off /\ done = Off
  /\ drill = Off /\ triage = Off /\ launcher = Off /\ menu = Off /\ origin = Off
  /\ unfolded = Off /\ spot = Off /\ pins = Off /\ stored = Off /\ profile = Off
  /\ next = Off /\ toggled = Off /\ swaps = Off /\ pinned = Off /\ events = Off
  /\ sent = Off /\ owed = Off /\ down = Off /\ began = Off /\ req = Off
  /\ missing = Off /\ reads = Off /\ detection = Off /\ armed = Off
  /\ unseen = Off /\ source = Off /\ orch = Off /\ seqs = Off /\ stale = Off
  /\ ticks = Off /\ presses = Off /\ split = Off /\ version = Off /\ list = Off
  /\ reader = Off /\ dock = Off /\ herdr = Off /\ open = Off /\ todo = Off
  /\ why = Off /\ clock = Off /\ kept = Off /\ noted = Off /\ rows = Off
  /\ stop = Off /\ deck = Off /\ files = Off /\ secret = Off /\ marker = Off
  /\ app = Off /\ running = Off /\ reloader = Off /\ baseline = Off
  /\ holder = Off /\ tx = Off /\ counts = Off
PowerStarts ==
  /\ part = "power" /\ Power!Init
  /\ rendered = Off /\ latest = Off /\ tickers = Off /\ delivering = Off
  /\ lock = Off /\ sup = Off /\ active = Off /\ device = Off /\ built = Off
  /\ gone = Off /\ wake = Off /\ reconfigure = Off /\ stopping = Off /\ pump = Off
  /\ shown = Off /\ written = Off /\ failed = Off /\ config = Off /\ setter = Off
  /\ attempts = Off /\ restart = Off /\ agent = Off /\ display = Off
  /\ placed = Off /\ ranks = Off /\ target = Off /\ adopt = Off /\ changed = Off
  /\ page = Off /\ dirty = Off /\ frame = Off /\ lastShown = Off /\ misled = Off
  /\ changes = Off /\ real = Off /\ told = Off /\ up = Off /\ inbox = Off
  /\ outbox = Off /\ s = Off /\ writer = Off /\ last = Off /\ due = Off
  /\ priming = Off /\ steady = Off /\ reqs = Off /\ drops = Off /\ pane = Off
  /\ turns = Off /\ bridge = Off /\ toBridge = Off /\ toRuntime = Off
  /\ block = Off /\ preread = Off /\ reading = Off /\ revision = Off
  /\ spent = Off /\ banner = Off /\ card = Off /\ waits = Off /\ woken = Off
  /\ asked = Off /\ typed = Off /\ outcome = Off /\ known = Off /\ answered = Off
  /\ done = Off /\ drill = Off /\ triage = Off /\ launcher = Off /\ menu = Off
  /\ origin = Off /\ unfolded = Off /\ spot = Off /\ pins = Off /\ stored = Off
  /\ profile = Off /\ next = Off /\ toggled = Off /\ swaps = Off /\ pinned = Off
  /\ events = Off /\ sent = Off /\ owed = Off /\ down = Off /\ began = Off
  /\ req = Off /\ missing = Off /\ reads = Off /\ detection = Off /\ armed = Off
  /\ unseen = Off /\ source = Off /\ orch = Off /\ seqs = Off /\ stale = Off
  /\ ticks = Off /\ presses = Off /\ split = Off /\ version = Off /\ list = Off
  /\ reader = Off /\ dock = Off /\ herdr = Off /\ open = Off /\ todo = Off
  /\ why = Off /\ clock = Off /\ kept = Off /\ noted = Off /\ rows = Off
  /\ stop = Off /\ deck = Off /\ files = Off /\ secret = Off /\ marker = Off
  /\ app = Off /\ running = Off /\ reloader = Off /\ baseline = Off
  /\ holder = Off /\ tx = Off /\ counts = Off
PinnedStarts ==
  /\ part = "pinned" /\ Pinned!Init
  /\ rendered = Off /\ latest = Off /\ tickers = Off /\ delivering = Off
  /\ lock = Off /\ sup = Off /\ active = Off /\ device = Off /\ built = Off
  /\ gone = Off /\ wake = Off /\ reconfigure = Off /\ stopping = Off /\ pump = Off
  /\ shown = Off /\ written = Off /\ failed = Off /\ config = Off /\ setter = Off
  /\ attempts = Off /\ restart = Off /\ agent = Off /\ display = Off
  /\ placed = Off /\ ranks = Off /\ target = Off /\ adopt = Off /\ changed = Off
  /\ page = Off /\ dirty = Off /\ frame = Off /\ lastShown = Off /\ misled = Off
  /\ changes = Off /\ real = Off /\ told = Off /\ up = Off /\ inbox = Off
  /\ outbox = Off /\ s = Off /\ writer = Off /\ last = Off /\ due = Off
  /\ priming = Off /\ steady = Off /\ reqs = Off /\ drops = Off /\ pane = Off
  /\ turns = Off /\ bridge = Off /\ toBridge = Off /\ toRuntime = Off
  /\ block = Off /\ preread = Off /\ reading = Off /\ revision = Off
  /\ spent = Off /\ banner = Off /\ card = Off /\ waits = Off /\ woken = Off
  /\ asked = Off /\ typed = Off /\ outcome = Off /\ known = Off /\ answered = Off
  /\ done = Off /\ drill = Off /\ triage = Off /\ launcher = Off /\ menu = Off
  /\ origin = Off /\ unfolded = Off /\ spot = Off /\ pins = Off /\ stored = Off
  /\ profile = Off /\ next = Off /\ toggled = Off /\ swaps = Off /\ pinned = Off
  /\ events = Off /\ sent = Off /\ owed = Off /\ down = Off /\ began = Off
  /\ req = Off /\ missing = Off /\ reads = Off /\ detection = Off /\ armed = Off
  /\ unseen = Off /\ source = Off /\ orch = Off /\ seqs = Off /\ stale = Off
  /\ ticks = Off /\ presses = Off /\ split = Off /\ version = Off /\ list = Off
  /\ reader = Off /\ dock = Off /\ herdr = Off /\ open = Off /\ todo = Off
  /\ why = Off /\ clock = Off /\ kept = Off /\ noted = Off /\ rows = Off
  /\ stop = Off /\ deck = Off /\ files = Off /\ secret = Off /\ marker = Off
  /\ app = Off /\ running = Off /\ reloader = Off /\ baseline = Off
  /\ holder = Off /\ tx = Off /\ counts = Off
AskedStarts ==
  /\ part = "asked" /\ Asked!Init
  /\ rendered = Off /\ latest = Off /\ tickers = Off /\ delivering = Off
  /\ lock = Off /\ sup = Off /\ active = Off /\ device = Off /\ built = Off
  /\ gone = Off /\ wake = Off /\ reconfigure = Off /\ stopping = Off /\ pump = Off
  /\ written = Off /\ failed = Off /\ config = Off /\ setter = Off
  /\ attempts = Off /\ restart = Off /\ faults = Off /\ agent = Off /\ since = Off
  /\ display = Off /\ placed = Off /\ ranks = Off /\ target = Off /\ adopt = Off
  /\ changed = Off /\ page = Off /\ away = Off /\ dirty = Off /\ frame = Off
  /\ lastShown = Off /\ misled = Off /\ now = Off /\ changes = Off /\ port = Off
  /\ pin = Off /\ saved = Off /\ present = Off /\ checked = Off /\ thread = Off
  /\ moves = Off /\ pane = Off /\ turns = Off /\ bridge = Off /\ toBridge = Off
  /\ toRuntime = Off /\ block = Off /\ preread = Off /\ reading = Off
  /\ revision = Off /\ spent = Off /\ banner = Off /\ card = Off /\ waits = Off
  /\ woken = Off /\ asked = Off /\ typed = Off /\ outcome = Off /\ known = Off
  /\ answered = Off /\ done = Off /\ drill = Off /\ triage = Off /\ launcher = Off
  /\ menu = Off /\ origin = Off /\ unfolded = Off /\ spot = Off /\ pins = Off
  /\ stored = Off /\ profile = Off /\ next = Off /\ toggled = Off /\ swaps = Off
  /\ pinned = Off /\ events = Off /\ sent = Off /\ owed = Off /\ down = Off
  /\ began = Off /\ req = Off /\ missing = Off /\ reads = Off /\ detection = Off
  /\ armed = Off /\ unseen = Off /\ source = Off /\ orch = Off /\ seqs = Off
  /\ stale = Off /\ ticks = Off /\ presses = Off /\ split = Off /\ version = Off
  /\ list = Off /\ reader = Off /\ dock = Off /\ herdr = Off /\ open = Off
  /\ todo = Off /\ why = Off /\ clock = Off /\ kept = Off /\ noted = Off
  /\ rows = Off /\ stop = Off /\ deck = Off /\ files = Off /\ secret = Off
  /\ marker = Off /\ app = Off /\ running = Off /\ reloader = Off
  /\ baseline = Off /\ holder = Off /\ tx = Off /\ counts = Off
MovedStarts ==
  /\ part = "moved" /\ Moved!Init
  /\ rendered = Off /\ latest = Off /\ tickers = Off /\ delivering = Off
  /\ lock = Off /\ sup = Off /\ active = Off /\ device = Off /\ built = Off
  /\ gone = Off /\ wake = Off /\ reconfigure = Off /\ stopping = Off /\ pump = Off
  /\ written = Off /\ failed = Off /\ config = Off /\ setter = Off
  /\ attempts = Off /\ restart = Off /\ faults = Off /\ agent = Off /\ since = Off
  /\ display = Off /\ placed = Off /\ ranks = Off /\ target = Off /\ adopt = Off
  /\ changed = Off /\ page = Off /\ away = Off /\ dirty = Off /\ frame = Off
  /\ lastShown = Off /\ misled = Off /\ now = Off /\ changes = Off /\ port = Off
  /\ pin = Off /\ saved = Off /\ present = Off /\ checked = Off /\ thread = Off
  /\ moves = Off /\ pane = Off /\ turns = Off /\ bridge = Off /\ toBridge = Off
  /\ toRuntime = Off /\ block = Off /\ preread = Off /\ reading = Off
  /\ revision = Off /\ spent = Off /\ banner = Off /\ card = Off /\ waits = Off
  /\ woken = Off /\ asked = Off /\ typed = Off /\ outcome = Off /\ known = Off
  /\ answered = Off /\ done = Off /\ drill = Off /\ triage = Off /\ launcher = Off
  /\ menu = Off /\ origin = Off /\ unfolded = Off /\ spot = Off /\ pins = Off
  /\ stored = Off /\ profile = Off /\ next = Off /\ toggled = Off /\ swaps = Off
  /\ pinned = Off /\ events = Off /\ sent = Off /\ owed = Off /\ down = Off
  /\ began = Off /\ req = Off /\ missing = Off /\ reads = Off /\ detection = Off
  /\ armed = Off /\ unseen = Off /\ source = Off /\ orch = Off /\ seqs = Off
  /\ stale = Off /\ ticks = Off /\ presses = Off /\ split = Off /\ version = Off
  /\ list = Off /\ reader = Off /\ dock = Off /\ herdr = Off /\ open = Off
  /\ todo = Off /\ why = Off /\ clock = Off /\ kept = Off /\ noted = Off
  /\ rows = Off /\ stop = Off /\ deck = Off /\ files = Off /\ secret = Off
  /\ marker = Off /\ app = Off /\ running = Off /\ reloader = Off
  /\ baseline = Off /\ holder = Off /\ tx = Off /\ counts = Off
JoinedStarts ==
  /\ part = "joined" /\ Joined!Init
  /\ rendered = Off /\ latest = Off /\ tickers = Off /\ delivering = Off
  /\ lock = Off /\ sup = Off /\ active = Off /\ device = Off /\ built = Off
  /\ gone = Off /\ wake = Off /\ reconfigure = Off /\ stopping = Off /\ pump = Off
  /\ written = Off /\ failed = Off /\ config = Off /\ setter = Off
  /\ attempts = Off /\ restart = Off /\ faults = Off /\ agent = Off /\ since = Off
  /\ display = Off /\ placed = Off /\ ranks = Off /\ target = Off /\ adopt = Off
  /\ changed = Off /\ page = Off /\ away = Off /\ dirty = Off /\ frame = Off
  /\ lastShown = Off /\ misled = Off /\ now = Off /\ changes = Off /\ port = Off
  /\ pin = Off /\ saved = Off /\ present = Off /\ checked = Off /\ thread = Off
  /\ moves = Off /\ pane = Off /\ turns = Off /\ bridge = Off /\ toBridge = Off
  /\ toRuntime = Off /\ block = Off /\ preread = Off /\ reading = Off
  /\ revision = Off /\ spent = Off /\ banner = Off /\ card = Off /\ waits = Off
  /\ woken = Off /\ asked = Off /\ typed = Off /\ outcome = Off /\ known = Off
  /\ answered = Off /\ done = Off /\ drill = Off /\ triage = Off /\ launcher = Off
  /\ menu = Off /\ origin = Off /\ unfolded = Off /\ spot = Off /\ pins = Off
  /\ stored = Off /\ profile = Off /\ next = Off /\ toggled = Off /\ swaps = Off
  /\ pinned = Off /\ events = Off /\ sent = Off /\ owed = Off /\ down = Off
  /\ began = Off /\ req = Off /\ missing = Off /\ reads = Off /\ detection = Off
  /\ armed = Off /\ unseen = Off /\ source = Off /\ orch = Off /\ seqs = Off
  /\ stale = Off /\ ticks = Off /\ presses = Off /\ split = Off /\ version = Off
  /\ list = Off /\ reader = Off /\ dock = Off /\ herdr = Off /\ open = Off
  /\ todo = Off /\ why = Off /\ clock = Off /\ kept = Off /\ noted = Off
  /\ rows = Off /\ stop = Off /\ deck = Off /\ files = Off /\ secret = Off
  /\ marker = Off /\ app = Off /\ running = Off /\ reloader = Off
  /\ baseline = Off /\ holder = Off /\ tx = Off /\ counts = Off
PickedStarts ==
  /\ part = "picks" /\ Picked!Init
  /\ rendered = Off /\ latest = Off /\ tickers = Off /\ delivering = Off
  /\ lock = Off /\ sup = Off /\ active = Off /\ device = Off /\ built = Off
  /\ gone = Off /\ wake = Off /\ reconfigure = Off /\ stopping = Off /\ pump = Off
  /\ written = Off /\ failed = Off /\ config = Off /\ setter = Off
  /\ attempts = Off /\ restart = Off /\ faults = Off /\ agent = Off /\ since = Off
  /\ display = Off /\ placed = Off /\ ranks = Off /\ target = Off /\ adopt = Off
  /\ changed = Off /\ page = Off /\ away = Off /\ dirty = Off /\ frame = Off
  /\ lastShown = Off /\ misled = Off /\ now = Off /\ changes = Off /\ port = Off
  /\ pin = Off /\ saved = Off /\ present = Off /\ checked = Off /\ thread = Off
  /\ moves = Off /\ pane = Off /\ turns = Off /\ bridge = Off /\ toBridge = Off
  /\ toRuntime = Off /\ block = Off /\ preread = Off /\ reading = Off
  /\ revision = Off /\ spent = Off /\ banner = Off /\ card = Off /\ waits = Off
  /\ woken = Off /\ asked = Off /\ typed = Off /\ outcome = Off /\ known = Off
  /\ answered = Off /\ done = Off /\ drill = Off /\ triage = Off /\ launcher = Off
  /\ menu = Off /\ origin = Off /\ unfolded = Off /\ spot = Off /\ pins = Off
  /\ stored = Off /\ profile = Off /\ next = Off /\ toggled = Off /\ swaps = Off
  /\ pinned = Off /\ events = Off /\ sent = Off /\ owed = Off /\ down = Off
  /\ began = Off /\ req = Off /\ missing = Off /\ reads = Off /\ detection = Off
  /\ armed = Off /\ unseen = Off /\ source = Off /\ orch = Off /\ seqs = Off
  /\ stale = Off /\ ticks = Off /\ presses = Off /\ split = Off /\ version = Off
  /\ list = Off /\ reader = Off /\ dock = Off /\ herdr = Off /\ open = Off
  /\ todo = Off /\ why = Off /\ clock = Off /\ kept = Off /\ noted = Off
  /\ rows = Off /\ stop = Off /\ deck = Off /\ files = Off /\ secret = Off
  /\ marker = Off /\ app = Off /\ running = Off /\ reloader = Off
  /\ baseline = Off /\ holder = Off /\ tx = Off /\ counts = Off
AnswerStarts ==
  /\ part = "answers" /\ Answer!Init
  /\ rendered = Off /\ latest = Off /\ tickers = Off /\ delivering = Off
  /\ lock = Off /\ sup = Off /\ active = Off /\ device = Off /\ built = Off
  /\ gone = Off /\ wake = Off /\ reconfigure = Off /\ stopping = Off /\ pump = Off
  /\ shown = Off /\ written = Off /\ failed = Off /\ config = Off /\ setter = Off
  /\ attempts = Off /\ restart = Off /\ agent = Off /\ since = Off
  /\ display = Off /\ placed = Off /\ ranks = Off /\ target = Off /\ adopt = Off
  /\ changed = Off /\ page = Off /\ away = Off /\ dirty = Off /\ frame = Off
  /\ lastShown = Off /\ misled = Off /\ now = Off /\ changes = Off /\ port = Off
  /\ pin = Off /\ saved = Off /\ present = Off /\ checked = Off /\ thread = Off
  /\ moves = Off /\ real = Off /\ told = Off /\ inbox = Off /\ outbox = Off
  /\ s = Off /\ writer = Off /\ last = Off /\ due = Off /\ priming = Off
  /\ steady = Off /\ reqs = Off /\ drops = Off /\ known = Off /\ answered = Off
  /\ done = Off /\ drill = Off /\ triage = Off /\ launcher = Off /\ menu = Off
  /\ origin = Off /\ unfolded = Off /\ spot = Off /\ pins = Off /\ stored = Off
  /\ profile = Off /\ next = Off /\ toggled = Off /\ swaps = Off /\ pinned = Off
  /\ events = Off /\ sent = Off /\ owed = Off /\ down = Off /\ began = Off
  /\ req = Off /\ missing = Off /\ reads = Off /\ detection = Off /\ armed = Off
  /\ unseen = Off /\ source = Off /\ orch = Off /\ seqs = Off /\ stale = Off
  /\ ticks = Off /\ presses = Off /\ split = Off /\ version = Off /\ list = Off
  /\ reader = Off /\ dock = Off /\ herdr = Off /\ open = Off /\ todo = Off
  /\ why = Off /\ clock = Off /\ kept = Off /\ noted = Off /\ rows = Off
  /\ stop = Off /\ deck = Off /\ files = Off /\ secret = Off /\ marker = Off
  /\ app = Off /\ running = Off /\ reloader = Off /\ baseline = Off
  /\ holder = Off /\ tx = Off /\ counts = Off
MeansStarts ==
  /\ part = "means" /\ Means!Init
  /\ rendered = Off /\ latest = Off /\ tickers = Off /\ delivering = Off
  /\ lock = Off /\ sup = Off /\ active = Off /\ device = Off /\ built = Off
  /\ gone = Off /\ wake = Off /\ reconfigure = Off /\ stopping = Off /\ pump = Off
  /\ shown = Off /\ written = Off /\ failed = Off /\ config = Off /\ setter = Off
  /\ attempts = Off /\ restart = Off /\ agent = Off /\ since = Off
  /\ display = Off /\ placed = Off /\ ranks = Off /\ target = Off /\ adopt = Off
  /\ changed = Off /\ page = Off /\ away = Off /\ dirty = Off /\ frame = Off
  /\ lastShown = Off /\ misled = Off /\ now = Off /\ changes = Off /\ port = Off
  /\ pin = Off /\ saved = Off /\ present = Off /\ checked = Off /\ thread = Off
  /\ moves = Off /\ real = Off /\ told = Off /\ inbox = Off /\ outbox = Off
  /\ s = Off /\ writer = Off /\ last = Off /\ due = Off /\ priming = Off
  /\ steady = Off /\ reqs = Off /\ drops = Off /\ known = Off /\ answered = Off
  /\ done = Off /\ drill = Off /\ triage = Off /\ launcher = Off /\ menu = Off
  /\ origin = Off /\ unfolded = Off /\ spot = Off /\ pins = Off /\ stored = Off
  /\ profile = Off /\ next = Off /\ toggled = Off /\ swaps = Off /\ pinned = Off
  /\ events = Off /\ sent = Off /\ owed = Off /\ down = Off /\ began = Off
  /\ req = Off /\ missing = Off /\ reads = Off /\ detection = Off /\ armed = Off
  /\ unseen = Off /\ source = Off /\ orch = Off /\ seqs = Off /\ stale = Off
  /\ ticks = Off /\ presses = Off /\ split = Off /\ version = Off /\ list = Off
  /\ reader = Off /\ dock = Off /\ herdr = Off /\ open = Off /\ todo = Off
  /\ why = Off /\ clock = Off /\ kept = Off /\ noted = Off /\ rows = Off
  /\ stop = Off /\ deck = Off /\ files = Off /\ secret = Off /\ marker = Off
  /\ app = Off /\ running = Off /\ reloader = Off /\ baseline = Off
  /\ holder = Off /\ tx = Off /\ counts = Off
OlderStarts ==
  /\ part = "older" /\ Older!Init
  /\ rendered = Off /\ latest = Off /\ tickers = Off /\ delivering = Off
  /\ lock = Off /\ sup = Off /\ active = Off /\ device = Off /\ built = Off
  /\ gone = Off /\ wake = Off /\ reconfigure = Off /\ stopping = Off /\ pump = Off
  /\ shown = Off /\ written = Off /\ failed = Off /\ config = Off /\ setter = Off
  /\ attempts = Off /\ restart = Off /\ agent = Off /\ since = Off
  /\ display = Off /\ placed = Off /\ ranks = Off /\ target = Off /\ adopt = Off
  /\ changed = Off /\ page = Off /\ away = Off /\ dirty = Off /\ frame = Off
  /\ lastShown = Off /\ misled = Off /\ now = Off /\ changes = Off /\ port = Off
  /\ pin = Off /\ saved = Off /\ present = Off /\ checked = Off /\ thread = Off
  /\ moves = Off /\ real = Off /\ told = Off /\ inbox = Off /\ outbox = Off
  /\ s = Off /\ writer = Off /\ last = Off /\ due = Off /\ priming = Off
  /\ steady = Off /\ reqs = Off /\ drops = Off /\ known = Off /\ answered = Off
  /\ done = Off /\ drill = Off /\ triage = Off /\ launcher = Off /\ menu = Off
  /\ origin = Off /\ unfolded = Off /\ spot = Off /\ pins = Off /\ stored = Off
  /\ profile = Off /\ next = Off /\ toggled = Off /\ swaps = Off /\ pinned = Off
  /\ events = Off /\ sent = Off /\ owed = Off /\ down = Off /\ began = Off
  /\ req = Off /\ missing = Off /\ reads = Off /\ detection = Off /\ armed = Off
  /\ unseen = Off /\ source = Off /\ orch = Off /\ seqs = Off /\ stale = Off
  /\ ticks = Off /\ presses = Off /\ split = Off /\ version = Off /\ list = Off
  /\ reader = Off /\ dock = Off /\ herdr = Off /\ open = Off /\ todo = Off
  /\ why = Off /\ clock = Off /\ kept = Off /\ noted = Off /\ rows = Off
  /\ stop = Off /\ deck = Off /\ files = Off /\ secret = Off /\ marker = Off
  /\ app = Off /\ running = Off /\ reloader = Off /\ baseline = Off
  /\ holder = Off /\ tx = Off /\ counts = Off
LoopStarts ==
  /\ part = "triage" /\ Loop!Init
  /\ rendered = Off /\ latest = Off /\ tickers = Off /\ delivering = Off
  /\ lock = Off /\ sup = Off /\ active = Off /\ device = Off /\ built = Off
  /\ gone = Off /\ wake = Off /\ reconfigure = Off /\ stopping = Off /\ pump = Off
  /\ shown = Off /\ written = Off /\ failed = Off /\ config = Off /\ setter = Off
  /\ attempts = Off /\ restart = Off /\ faults = Off /\ agent = Off
  /\ display = Off /\ placed = Off /\ ranks = Off /\ target = Off /\ adopt = Off
  /\ changed = Off /\ page = Off /\ away = Off /\ dirty = Off /\ frame = Off
  /\ lastShown = Off /\ misled = Off /\ now = Off /\ changes = Off /\ port = Off
  /\ pin = Off /\ saved = Off /\ present = Off /\ checked = Off /\ thread = Off
  /\ moves = Off /\ real = Off /\ told = Off /\ up = Off /\ inbox = Off
  /\ outbox = Off /\ s = Off /\ writer = Off /\ last = Off /\ due = Off
  /\ priming = Off /\ steady = Off /\ reqs = Off /\ drops = Off /\ bridge = Off
  /\ toBridge = Off /\ toRuntime = Off /\ block = Off /\ preread = Off
  /\ reading = Off /\ revision = Off /\ spent = Off /\ banner = Off /\ card = Off
  /\ waits = Off /\ woken = Off /\ asked = Off /\ typed = Off /\ outcome = Off
  /\ events = Off /\ sent = Off /\ owed = Off /\ down = Off /\ began = Off
  /\ req = Off /\ missing = Off /\ reads = Off /\ detection = Off /\ armed = Off
  /\ unseen = Off /\ source = Off /\ orch = Off /\ seqs = Off /\ stale = Off
  /\ ticks = Off /\ presses = Off /\ split = Off /\ version = Off /\ list = Off
  /\ reader = Off /\ dock = Off /\ herdr = Off /\ open = Off /\ todo = Off
  /\ why = Off /\ clock = Off /\ kept = Off /\ noted = Off /\ rows = Off
  /\ stop = Off /\ deck = Off /\ files = Off /\ secret = Off /\ marker = Off
  /\ app = Off /\ running = Off /\ reloader = Off /\ baseline = Off
  /\ holder = Off /\ tx = Off /\ counts = Off
MenusStarts ==
  /\ part = "menus" /\ Menus!Init
  /\ rendered = Off /\ latest = Off /\ tickers = Off /\ delivering = Off
  /\ lock = Off /\ sup = Off /\ active = Off /\ device = Off /\ built = Off
  /\ gone = Off /\ wake = Off /\ reconfigure = Off /\ stopping = Off /\ pump = Off
  /\ shown = Off /\ written = Off /\ failed = Off /\ config = Off /\ setter = Off
  /\ attempts = Off /\ restart = Off /\ faults = Off /\ agent = Off
  /\ display = Off /\ placed = Off /\ ranks = Off /\ target = Off /\ adopt = Off
  /\ changed = Off /\ page = Off /\ away = Off /\ dirty = Off /\ frame = Off
  /\ lastShown = Off /\ misled = Off /\ now = Off /\ changes = Off /\ port = Off
  /\ pin = Off /\ saved = Off /\ present = Off /\ checked = Off /\ thread = Off
  /\ moves = Off /\ real = Off /\ told = Off /\ up = Off /\ inbox = Off
  /\ outbox = Off /\ s = Off /\ writer = Off /\ last = Off /\ due = Off
  /\ priming = Off /\ steady = Off /\ reqs = Off /\ drops = Off /\ bridge = Off
  /\ toBridge = Off /\ toRuntime = Off /\ block = Off /\ preread = Off
  /\ reading = Off /\ revision = Off /\ spent = Off /\ banner = Off /\ card = Off
  /\ waits = Off /\ woken = Off /\ asked = Off /\ typed = Off /\ outcome = Off
  /\ events = Off /\ sent = Off /\ owed = Off /\ down = Off /\ began = Off
  /\ req = Off /\ missing = Off /\ reads = Off /\ detection = Off /\ armed = Off
  /\ unseen = Off /\ source = Off /\ orch = Off /\ seqs = Off /\ stale = Off
  /\ ticks = Off /\ presses = Off /\ split = Off /\ version = Off /\ list = Off
  /\ reader = Off /\ dock = Off /\ herdr = Off /\ open = Off /\ todo = Off
  /\ why = Off /\ clock = Off /\ kept = Off /\ noted = Off /\ rows = Off
  /\ stop = Off /\ deck = Off /\ files = Off /\ secret = Off /\ marker = Off
  /\ app = Off /\ running = Off /\ reloader = Off /\ baseline = Off
  /\ holder = Off /\ tx = Off /\ counts = Off
DrillStarts ==
  /\ part = "drill" /\ Drill!Init
  /\ rendered = Off /\ latest = Off /\ tickers = Off /\ delivering = Off
  /\ lock = Off /\ sup = Off /\ device = Off /\ built = Off /\ gone = Off
  /\ wake = Off /\ reconfigure = Off /\ stopping = Off /\ pump = Off
  /\ shown = Off /\ written = Off /\ failed = Off /\ config = Off /\ setter = Off
  /\ attempts = Off /\ restart = Off /\ faults = Off /\ agent = Off /\ since = Off
  /\ display = Off /\ placed = Off /\ ranks = Off /\ target = Off /\ adopt = Off
  /\ changed = Off /\ page = Off /\ away = Off /\ dirty = Off /\ frame = Off
  /\ lastShown = Off /\ misled = Off /\ now = Off /\ changes = Off /\ port = Off
  /\ pin = Off /\ saved = Off /\ present = Off /\ checked = Off /\ thread = Off
  /\ moves = Off /\ real = Off /\ told = Off /\ inbox = Off /\ outbox = Off
  /\ s = Off /\ writer = Off /\ last = Off /\ due = Off /\ priming = Off
  /\ steady = Off /\ reqs = Off /\ bridge = Off /\ toBridge = Off
  /\ toRuntime = Off /\ block = Off /\ spent = Off /\ banner = Off /\ card = Off
  /\ waits = Off /\ woken = Off /\ typed = Off /\ outcome = Off /\ answered = Off
  /\ done = Off /\ triage = Off /\ launcher = Off /\ menu = Off /\ origin = Off
  /\ unfolded = Off /\ spot = Off /\ pins = Off /\ stored = Off /\ profile = Off
  /\ next = Off /\ toggled = Off /\ swaps = Off /\ pinned = Off /\ source = Off
  /\ orch = Off /\ seqs = Off /\ stale = Off /\ ticks = Off /\ presses = Off
  /\ split = Off /\ version = Off /\ list = Off /\ reader = Off /\ dock = Off
  /\ herdr = Off /\ open = Off /\ todo = Off /\ why = Off /\ clock = Off
  /\ kept = Off /\ noted = Off /\ rows = Off /\ stop = Off /\ deck = Off
  /\ files = Off /\ secret = Off /\ marker = Off /\ app = Off /\ running = Off
  /\ reloader = Off /\ baseline = Off /\ holder = Off /\ tx = Off /\ counts = Off
FramesStarts ==
  /\ part = "frames" /\ Frames!Init
  /\ rendered = Off /\ latest = Off /\ tickers = Off /\ delivering = Off
  /\ lock = Off /\ sup = Off /\ active = Off /\ device = Off /\ built = Off
  /\ gone = Off /\ wake = Off /\ reconfigure = Off /\ stopping = Off /\ pump = Off
  /\ written = Off /\ failed = Off /\ config = Off /\ setter = Off
  /\ attempts = Off /\ restart = Off /\ faults = Off /\ agent = Off /\ since = Off
  /\ display = Off /\ placed = Off /\ ranks = Off /\ target = Off /\ adopt = Off
  /\ changed = Off /\ page = Off /\ away = Off /\ dirty = Off /\ frame = Off
  /\ lastShown = Off /\ misled = Off /\ now = Off /\ changes = Off /\ port = Off
  /\ pin = Off /\ saved = Off /\ present = Off /\ checked = Off /\ thread = Off
  /\ moves = Off /\ real = Off /\ told = Off /\ up = Off /\ inbox = Off
  /\ outbox = Off /\ s = Off /\ writer = Off /\ last = Off /\ due = Off
  /\ priming = Off /\ steady = Off /\ reqs = Off /\ drops = Off /\ pane = Off
  /\ turns = Off /\ bridge = Off /\ toBridge = Off /\ toRuntime = Off
  /\ block = Off /\ preread = Off /\ reading = Off /\ revision = Off
  /\ spent = Off /\ banner = Off /\ card = Off /\ waits = Off /\ woken = Off
  /\ asked = Off /\ typed = Off /\ outcome = Off /\ known = Off /\ answered = Off
  /\ done = Off /\ drill = Off /\ triage = Off /\ launcher = Off /\ menu = Off
  /\ origin = Off /\ unfolded = Off /\ spot = Off /\ pins = Off /\ stored = Off
  /\ profile = Off /\ next = Off /\ toggled = Off /\ swaps = Off /\ pinned = Off
  /\ events = Off /\ sent = Off /\ owed = Off /\ down = Off /\ began = Off
  /\ req = Off /\ missing = Off /\ reads = Off /\ detection = Off /\ armed = Off
  /\ unseen = Off /\ herdr = Off /\ open = Off /\ todo = Off /\ why = Off
  /\ clock = Off /\ kept = Off /\ noted = Off /\ rows = Off /\ stop = Off
  /\ deck = Off /\ files = Off /\ secret = Off /\ marker = Off /\ app = Off
  /\ running = Off /\ reloader = Off /\ baseline = Off /\ holder = Off /\ tx = Off
  /\ counts = Off
SingleStarts ==
  /\ part = "single" /\ Single!Init
  /\ rendered = Off /\ latest = Off /\ tickers = Off /\ delivering = Off
  /\ lock = Off /\ sup = Off /\ active = Off /\ device = Off /\ built = Off
  /\ gone = Off /\ wake = Off /\ reconfigure = Off /\ stopping = Off /\ pump = Off
  /\ shown = Off /\ written = Off /\ failed = Off /\ config = Off /\ setter = Off
  /\ attempts = Off /\ restart = Off /\ faults = Off /\ agent = Off /\ since = Off
  /\ display = Off /\ placed = Off /\ ranks = Off /\ target = Off /\ adopt = Off
  /\ changed = Off /\ page = Off /\ away = Off /\ dirty = Off /\ frame = Off
  /\ lastShown = Off /\ misled = Off /\ now = Off /\ changes = Off /\ port = Off
  /\ pin = Off /\ saved = Off /\ present = Off /\ checked = Off /\ moves = Off
  /\ real = Off /\ told = Off /\ up = Off /\ inbox = Off /\ outbox = Off
  /\ s = Off /\ writer = Off /\ last = Off /\ due = Off /\ priming = Off
  /\ steady = Off /\ reqs = Off /\ drops = Off /\ pane = Off /\ turns = Off
  /\ bridge = Off /\ toBridge = Off /\ toRuntime = Off /\ block = Off
  /\ preread = Off /\ reading = Off /\ revision = Off /\ banner = Off
  /\ card = Off /\ waits = Off /\ woken = Off /\ asked = Off /\ typed = Off
  /\ outcome = Off /\ known = Off /\ answered = Off /\ done = Off /\ drill = Off
  /\ triage = Off /\ launcher = Off /\ menu = Off /\ origin = Off
  /\ unfolded = Off /\ spot = Off /\ pins = Off /\ stored = Off /\ profile = Off
  /\ next = Off /\ toggled = Off /\ swaps = Off /\ pinned = Off /\ events = Off
  /\ sent = Off /\ owed = Off /\ down = Off /\ began = Off /\ req = Off
  /\ missing = Off /\ reads = Off /\ detection = Off /\ armed = Off
  /\ unseen = Off /\ source = Off /\ orch = Off /\ seqs = Off /\ stale = Off
  /\ ticks = Off /\ presses = Off /\ split = Off /\ version = Off /\ list = Off
  /\ reader = Off /\ dock = Off /\ files = Off /\ secret = Off /\ marker = Off
  /\ app = Off /\ running = Off /\ reloader = Off /\ baseline = Off
  /\ holder = Off /\ tx = Off /\ counts = Off
PairStarts ==
  /\ part = "pair" /\ Pair!Init
  /\ rendered = Off /\ latest = Off /\ tickers = Off /\ delivering = Off
  /\ lock = Off /\ sup = Off /\ active = Off /\ device = Off /\ built = Off
  /\ gone = Off /\ wake = Off /\ reconfigure = Off /\ stopping = Off /\ pump = Off
  /\ shown = Off /\ written = Off /\ failed = Off /\ config = Off /\ setter = Off
  /\ attempts = Off /\ restart = Off /\ faults = Off /\ agent = Off /\ since = Off
  /\ display = Off /\ placed = Off /\ ranks = Off /\ target = Off /\ adopt = Off
  /\ changed = Off /\ page = Off /\ away = Off /\ dirty = Off /\ frame = Off
  /\ lastShown = Off /\ misled = Off /\ now = Off /\ changes = Off /\ port = Off
  /\ pin = Off /\ saved = Off /\ present = Off /\ checked = Off /\ moves = Off
  /\ real = Off /\ told = Off /\ up = Off /\ inbox = Off /\ outbox = Off
  /\ s = Off /\ writer = Off /\ last = Off /\ due = Off /\ priming = Off
  /\ steady = Off /\ reqs = Off /\ drops = Off /\ pane = Off /\ turns = Off
  /\ bridge = Off /\ toBridge = Off /\ toRuntime = Off /\ block = Off
  /\ preread = Off /\ reading = Off /\ revision = Off /\ banner = Off
  /\ card = Off /\ waits = Off /\ woken = Off /\ asked = Off /\ typed = Off
  /\ outcome = Off /\ known = Off /\ answered = Off /\ done = Off /\ drill = Off
  /\ triage = Off /\ launcher = Off /\ menu = Off /\ origin = Off
  /\ unfolded = Off /\ spot = Off /\ pins = Off /\ stored = Off /\ profile = Off
  /\ next = Off /\ toggled = Off /\ swaps = Off /\ pinned = Off /\ events = Off
  /\ sent = Off /\ owed = Off /\ down = Off /\ began = Off /\ req = Off
  /\ missing = Off /\ reads = Off /\ detection = Off /\ armed = Off
  /\ unseen = Off /\ source = Off /\ orch = Off /\ seqs = Off /\ stale = Off
  /\ ticks = Off /\ presses = Off /\ split = Off /\ version = Off /\ list = Off
  /\ reader = Off /\ dock = Off /\ files = Off /\ secret = Off /\ marker = Off
  /\ app = Off /\ running = Off /\ reloader = Off /\ baseline = Off
  /\ holder = Off /\ tx = Off /\ counts = Off
ServesStarts ==
  /\ part = "serves" /\ Serves!Init
  /\ rendered = Off /\ latest = Off /\ tickers = Off /\ delivering = Off
  /\ lock = Off /\ sup = Off /\ active = Off /\ device = Off /\ built = Off
  /\ gone = Off /\ wake = Off /\ reconfigure = Off /\ stopping = Off /\ pump = Off
  /\ shown = Off /\ written = Off /\ failed = Off /\ config = Off /\ setter = Off
  /\ attempts = Off /\ restart = Off /\ faults = Off /\ agent = Off /\ since = Off
  /\ display = Off /\ placed = Off /\ ranks = Off /\ target = Off /\ adopt = Off
  /\ changed = Off /\ page = Off /\ away = Off /\ dirty = Off /\ frame = Off
  /\ lastShown = Off /\ misled = Off /\ now = Off /\ changes = Off /\ port = Off
  /\ pin = Off /\ saved = Off /\ present = Off /\ checked = Off /\ moves = Off
  /\ real = Off /\ told = Off /\ up = Off /\ inbox = Off /\ outbox = Off
  /\ s = Off /\ writer = Off /\ last = Off /\ due = Off /\ priming = Off
  /\ steady = Off /\ reqs = Off /\ drops = Off /\ pane = Off /\ turns = Off
  /\ bridge = Off /\ toBridge = Off /\ toRuntime = Off /\ block = Off
  /\ preread = Off /\ reading = Off /\ revision = Off /\ banner = Off
  /\ card = Off /\ waits = Off /\ woken = Off /\ asked = Off /\ typed = Off
  /\ outcome = Off /\ known = Off /\ answered = Off /\ done = Off /\ drill = Off
  /\ triage = Off /\ launcher = Off /\ menu = Off /\ origin = Off
  /\ unfolded = Off /\ spot = Off /\ pins = Off /\ stored = Off /\ profile = Off
  /\ next = Off /\ toggled = Off /\ swaps = Off /\ pinned = Off /\ events = Off
  /\ sent = Off /\ owed = Off /\ down = Off /\ began = Off /\ req = Off
  /\ missing = Off /\ reads = Off /\ detection = Off /\ armed = Off
  /\ unseen = Off /\ source = Off /\ orch = Off /\ seqs = Off /\ stale = Off
  /\ ticks = Off /\ presses = Off /\ split = Off /\ version = Off /\ list = Off
  /\ reader = Off /\ dock = Off /\ files = Off /\ secret = Off /\ marker = Off
  /\ app = Off /\ running = Off /\ reloader = Off /\ baseline = Off
  /\ holder = Off /\ tx = Off /\ counts = Off
SwitchStarts ==
  /\ part = "switching" /\ Switch!Init
  /\ rendered = Off /\ latest = Off /\ tickers = Off /\ delivering = Off
  /\ lock = Off /\ sup = Off /\ active = Off /\ device = Off /\ built = Off
  /\ gone = Off /\ wake = Off /\ reconfigure = Off /\ stopping = Off /\ pump = Off
  /\ shown = Off /\ written = Off /\ failed = Off /\ config = Off /\ setter = Off
  /\ attempts = Off /\ restart = Off /\ faults = Off /\ agent = Off /\ since = Off
  /\ display = Off /\ placed = Off /\ ranks = Off /\ target = Off /\ adopt = Off
  /\ changed = Off /\ page = Off /\ away = Off /\ dirty = Off /\ frame = Off
  /\ lastShown = Off /\ misled = Off /\ now = Off /\ changes = Off /\ port = Off
  /\ pin = Off /\ saved = Off /\ present = Off /\ checked = Off /\ thread = Off
  /\ moves = Off /\ real = Off /\ told = Off /\ up = Off /\ inbox = Off
  /\ outbox = Off /\ s = Off /\ writer = Off /\ last = Off /\ due = Off
  /\ priming = Off /\ steady = Off /\ reqs = Off /\ drops = Off /\ pane = Off
  /\ turns = Off /\ bridge = Off /\ toBridge = Off /\ toRuntime = Off
  /\ block = Off /\ preread = Off /\ reading = Off /\ revision = Off
  /\ spent = Off /\ banner = Off /\ card = Off /\ waits = Off /\ woken = Off
  /\ asked = Off /\ typed = Off /\ outcome = Off /\ known = Off /\ answered = Off
  /\ done = Off /\ drill = Off /\ triage = Off /\ launcher = Off /\ menu = Off
  /\ origin = Off /\ unfolded = Off /\ spot = Off /\ pins = Off /\ stored = Off
  /\ profile = Off /\ next = Off /\ toggled = Off /\ swaps = Off /\ pinned = Off
  /\ events = Off /\ sent = Off /\ owed = Off /\ down = Off /\ began = Off
  /\ req = Off /\ missing = Off /\ reads = Off /\ detection = Off /\ armed = Off
  /\ unseen = Off /\ source = Off /\ orch = Off /\ seqs = Off /\ stale = Off
  /\ ticks = Off /\ presses = Off /\ split = Off /\ version = Off /\ list = Off
  /\ reader = Off /\ dock = Off /\ herdr = Off /\ open = Off /\ todo = Off
  /\ why = Off /\ clock = Off /\ kept = Off /\ noted = Off /\ rows = Off
  /\ stop = Off /\ deck = Off

Init == DeviceStarts \/ GridStarts \/ PowerStarts \/ PinnedStarts \/ AskedStarts \/
        MovedStarts \/ JoinedStarts \/ PickedStarts \/ AnswerStarts \/
        MeansStarts \/ OlderStarts \/ LoopStarts \/ MenusStarts \/ DrillStarts \/
        FramesStarts \/ SingleStarts \/ PairStarts \/ ServesStarts \/ SwitchStarts

DeviceRest == <<part, agent, since, display, placed, ranks, target, adopt,
    changed, page, away, dirty, frame, lastShown, misled, now, changes, port,
    pin, saved, present, checked, thread, moves, real, told, up, inbox,
    outbox, s, writer, last, due, priming, steady, reqs, drops, pane, turns,
    bridge, toBridge, toRuntime, block, preread, reading, revision, spent,
    banner, card, waits, woken, asked, typed, outcome, known, answered, done,
    drill, triage, launcher, menu, origin, unfolded, spot, pins, stored,
    profile, next, toggled, swaps, pinned, events, sent, owed, down, began,
    req, missing, reads, detection, armed, unseen, source, orch, seqs, stale,
    ticks, presses, split, version, list, reader, dock, herdr, open, todo,
    why, clock, kept, noted, rows, stop, deck, files, secret, marker, app,
    running, reloader, baseline, holder, tx, counts>>
GridRest == <<part, rendered, latest, tickers, delivering, lock, sup, active,
    device, built, gone, wake, reconfigure, stopping, pump, shown, written,
    failed, config, setter, attempts, restart, faults, port, pin, saved,
    present, checked, thread, moves, real, told, up, inbox, outbox, s, writer,
    last, due, priming, steady, reqs, drops, pane, turns, bridge, toBridge,
    toRuntime, block, preread, reading, revision, spent, banner, card, waits,
    woken, asked, typed, outcome, known, answered, done, drill, triage,
    launcher, menu, origin, unfolded, spot, pins, stored, profile, next,
    toggled, swaps, pinned, events, sent, owed, down, began, req, missing,
    reads, detection, armed, unseen, source, orch, seqs, stale, ticks,
    presses, split, version, list, reader, dock, herdr, open, todo, why,
    clock, kept, noted, rows, stop, deck, files, secret, marker, app, running,
    reloader, baseline, holder, tx, counts>>
PowerRest == <<part, rendered, latest, tickers, delivering, lock, sup, active,
    device, built, gone, wake, reconfigure, stopping, pump, shown, written,
    failed, config, setter, attempts, restart, agent, display, placed, ranks,
    target, adopt, changed, page, dirty, frame, lastShown, misled, changes,
    real, told, up, inbox, outbox, s, writer, last, due, priming, steady,
    reqs, drops, pane, turns, bridge, toBridge, toRuntime, block, preread,
    reading, revision, spent, banner, card, waits, woken, asked, typed,
    outcome, known, answered, done, drill, triage, launcher, menu, origin,
    unfolded, spot, pins, stored, profile, next, toggled, swaps, pinned,
    events, sent, owed, down, began, req, missing, reads, detection, armed,
    unseen, source, orch, seqs, stale, ticks, presses, split, version, list,
    reader, dock, herdr, open, todo, why, clock, kept, noted, rows, stop,
    deck, files, secret, marker, app, running, reloader, baseline, holder, tx,
    counts>>
PinnedRest == <<part, rendered, latest, tickers, delivering, lock, sup,
    active, device, built, gone, wake, reconfigure, stopping, pump, shown,
    written, failed, config, setter, attempts, restart, agent, display,
    placed, ranks, target, adopt, changed, page, dirty, frame, lastShown,
    misled, changes, real, told, up, inbox, outbox, s, writer, last, due,
    priming, steady, reqs, drops, pane, turns, bridge, toBridge, toRuntime,
    block, preread, reading, revision, spent, banner, card, waits, woken,
    asked, typed, outcome, known, answered, done, drill, triage, launcher,
    menu, origin, unfolded, spot, pins, stored, profile, next, toggled, swaps,
    pinned, events, sent, owed, down, began, req, missing, reads, detection,
    armed, unseen, source, orch, seqs, stale, ticks, presses, split, version,
    list, reader, dock, herdr, open, todo, why, clock, kept, noted, rows,
    stop, deck, files, secret, marker, app, running, reloader, baseline,
    holder, tx, counts>>
AskedRest == <<part, rendered, latest, tickers, delivering, lock, sup, active,
    device, built, gone, wake, reconfigure, stopping, pump, written, failed,
    config, setter, attempts, restart, faults, agent, since, display, placed,
    ranks, target, adopt, changed, page, away, dirty, frame, lastShown,
    misled, now, changes, port, pin, saved, present, checked, thread, moves,
    pane, turns, bridge, toBridge, toRuntime, block, preread, reading,
    revision, spent, banner, card, waits, woken, asked, typed, outcome, known,
    answered, done, drill, triage, launcher, menu, origin, unfolded, spot,
    pins, stored, profile, next, toggled, swaps, pinned, events, sent, owed,
    down, began, req, missing, reads, detection, armed, unseen, source, orch,
    seqs, stale, ticks, presses, split, version, list, reader, dock, herdr,
    open, todo, why, clock, kept, noted, rows, stop, deck, files, secret,
    marker, app, running, reloader, baseline, holder, tx, counts>>
MovedRest == <<part, rendered, latest, tickers, delivering, lock, sup, active,
    device, built, gone, wake, reconfigure, stopping, pump, written, failed,
    config, setter, attempts, restart, faults, agent, since, display, placed,
    ranks, target, adopt, changed, page, away, dirty, frame, lastShown,
    misled, now, changes, port, pin, saved, present, checked, thread, moves,
    pane, turns, bridge, toBridge, toRuntime, block, preread, reading,
    revision, spent, banner, card, waits, woken, asked, typed, outcome, known,
    answered, done, drill, triage, launcher, menu, origin, unfolded, spot,
    pins, stored, profile, next, toggled, swaps, pinned, events, sent, owed,
    down, began, req, missing, reads, detection, armed, unseen, source, orch,
    seqs, stale, ticks, presses, split, version, list, reader, dock, herdr,
    open, todo, why, clock, kept, noted, rows, stop, deck, files, secret,
    marker, app, running, reloader, baseline, holder, tx, counts>>
JoinedRest == <<part, rendered, latest, tickers, delivering, lock, sup,
    active, device, built, gone, wake, reconfigure, stopping, pump, written,
    failed, config, setter, attempts, restart, faults, agent, since, display,
    placed, ranks, target, adopt, changed, page, away, dirty, frame,
    lastShown, misled, now, changes, port, pin, saved, present, checked,
    thread, moves, pane, turns, bridge, toBridge, toRuntime, block, preread,
    reading, revision, spent, banner, card, waits, woken, asked, typed,
    outcome, known, answered, done, drill, triage, launcher, menu, origin,
    unfolded, spot, pins, stored, profile, next, toggled, swaps, pinned,
    events, sent, owed, down, began, req, missing, reads, detection, armed,
    unseen, source, orch, seqs, stale, ticks, presses, split, version, list,
    reader, dock, herdr, open, todo, why, clock, kept, noted, rows, stop,
    deck, files, secret, marker, app, running, reloader, baseline, holder, tx,
    counts>>
PickedRest == <<part, rendered, latest, tickers, delivering, lock, sup,
    active, device, built, gone, wake, reconfigure, stopping, pump, written,
    failed, config, setter, attempts, restart, faults, agent, since, display,
    placed, ranks, target, adopt, changed, page, away, dirty, frame,
    lastShown, misled, now, changes, port, pin, saved, present, checked,
    thread, moves, pane, turns, bridge, toBridge, toRuntime, block, preread,
    reading, revision, spent, banner, card, waits, woken, asked, typed,
    outcome, known, answered, done, drill, triage, launcher, menu, origin,
    unfolded, spot, pins, stored, profile, next, toggled, swaps, pinned,
    events, sent, owed, down, began, req, missing, reads, detection, armed,
    unseen, source, orch, seqs, stale, ticks, presses, split, version, list,
    reader, dock, herdr, open, todo, why, clock, kept, noted, rows, stop,
    deck, files, secret, marker, app, running, reloader, baseline, holder, tx,
    counts>>
AnswerRest == <<part, rendered, latest, tickers, delivering, lock, sup,
    active, device, built, gone, wake, reconfigure, stopping, pump, shown,
    written, failed, config, setter, attempts, restart, agent, since, display,
    placed, ranks, target, adopt, changed, page, away, dirty, frame,
    lastShown, misled, now, changes, port, pin, saved, present, checked,
    thread, moves, real, told, inbox, outbox, s, writer, last, due, priming,
    steady, reqs, drops, known, answered, done, drill, triage, launcher, menu,
    origin, unfolded, spot, pins, stored, profile, next, toggled, swaps,
    pinned, events, sent, owed, down, began, req, missing, reads, detection,
    armed, unseen, source, orch, seqs, stale, ticks, presses, split, version,
    list, reader, dock, herdr, open, todo, why, clock, kept, noted, rows,
    stop, deck, files, secret, marker, app, running, reloader, baseline,
    holder, tx, counts>>
MeansRest == <<part, rendered, latest, tickers, delivering, lock, sup, active,
    device, built, gone, wake, reconfigure, stopping, pump, shown, written,
    failed, config, setter, attempts, restart, agent, since, display, placed,
    ranks, target, adopt, changed, page, away, dirty, frame, lastShown,
    misled, now, changes, port, pin, saved, present, checked, thread, moves,
    real, told, inbox, outbox, s, writer, last, due, priming, steady, reqs,
    drops, known, answered, done, drill, triage, launcher, menu, origin,
    unfolded, spot, pins, stored, profile, next, toggled, swaps, pinned,
    events, sent, owed, down, began, req, missing, reads, detection, armed,
    unseen, source, orch, seqs, stale, ticks, presses, split, version, list,
    reader, dock, herdr, open, todo, why, clock, kept, noted, rows, stop,
    deck, files, secret, marker, app, running, reloader, baseline, holder, tx,
    counts>>
OlderRest == <<part, rendered, latest, tickers, delivering, lock, sup, active,
    device, built, gone, wake, reconfigure, stopping, pump, shown, written,
    failed, config, setter, attempts, restart, agent, since, display, placed,
    ranks, target, adopt, changed, page, away, dirty, frame, lastShown,
    misled, now, changes, port, pin, saved, present, checked, thread, moves,
    real, told, inbox, outbox, s, writer, last, due, priming, steady, reqs,
    drops, known, answered, done, drill, triage, launcher, menu, origin,
    unfolded, spot, pins, stored, profile, next, toggled, swaps, pinned,
    events, sent, owed, down, began, req, missing, reads, detection, armed,
    unseen, source, orch, seqs, stale, ticks, presses, split, version, list,
    reader, dock, herdr, open, todo, why, clock, kept, noted, rows, stop,
    deck, files, secret, marker, app, running, reloader, baseline, holder, tx,
    counts>>
LoopRest == <<part, rendered, latest, tickers, delivering, lock, sup, active,
    device, built, gone, wake, reconfigure, stopping, pump, shown, written,
    failed, config, setter, attempts, restart, faults, agent, display, placed,
    ranks, target, adopt, changed, page, away, dirty, frame, lastShown,
    misled, now, changes, port, pin, saved, present, checked, thread, moves,
    real, told, up, inbox, outbox, s, writer, last, due, priming, steady,
    reqs, drops, bridge, toBridge, toRuntime, block, preread, reading,
    revision, spent, banner, card, waits, woken, asked, typed, outcome,
    events, sent, owed, down, began, req, missing, reads, detection, armed,
    unseen, source, orch, seqs, stale, ticks, presses, split, version, list,
    reader, dock, herdr, open, todo, why, clock, kept, noted, rows, stop,
    deck, files, secret, marker, app, running, reloader, baseline, holder, tx,
    counts>>
MenusRest == <<part, rendered, latest, tickers, delivering, lock, sup, active,
    device, built, gone, wake, reconfigure, stopping, pump, shown, written,
    failed, config, setter, attempts, restart, faults, agent, display, placed,
    ranks, target, adopt, changed, page, away, dirty, frame, lastShown,
    misled, now, changes, port, pin, saved, present, checked, thread, moves,
    real, told, up, inbox, outbox, s, writer, last, due, priming, steady,
    reqs, drops, bridge, toBridge, toRuntime, block, preread, reading,
    revision, spent, banner, card, waits, woken, asked, typed, outcome,
    events, sent, owed, down, began, req, missing, reads, detection, armed,
    unseen, source, orch, seqs, stale, ticks, presses, split, version, list,
    reader, dock, herdr, open, todo, why, clock, kept, noted, rows, stop,
    deck, files, secret, marker, app, running, reloader, baseline, holder, tx,
    counts>>
DrillRest == <<part, rendered, latest, tickers, delivering, lock, sup, device,
    built, gone, wake, reconfigure, stopping, pump, shown, written, failed,
    config, setter, attempts, restart, faults, agent, since, display, placed,
    ranks, target, adopt, changed, page, away, dirty, frame, lastShown,
    misled, now, changes, port, pin, saved, present, checked, thread, moves,
    real, told, inbox, outbox, s, writer, last, due, priming, steady, reqs,
    bridge, toBridge, toRuntime, block, spent, banner, card, waits, woken,
    typed, outcome, answered, done, triage, launcher, menu, origin, unfolded,
    spot, pins, stored, profile, next, toggled, swaps, pinned, source, orch,
    seqs, stale, ticks, presses, split, version, list, reader, dock, herdr,
    open, todo, why, clock, kept, noted, rows, stop, deck, files, secret,
    marker, app, running, reloader, baseline, holder, tx, counts>>
FramesRest == <<part, rendered, latest, tickers, delivering, lock, sup,
    active, device, built, gone, wake, reconfigure, stopping, pump, written,
    failed, config, setter, attempts, restart, faults, agent, since, display,
    placed, ranks, target, adopt, changed, page, away, dirty, frame,
    lastShown, misled, now, changes, port, pin, saved, present, checked,
    thread, moves, real, told, up, inbox, outbox, s, writer, last, due,
    priming, steady, reqs, drops, pane, turns, bridge, toBridge, toRuntime,
    block, preread, reading, revision, spent, banner, card, waits, woken,
    asked, typed, outcome, known, answered, done, drill, triage, launcher,
    menu, origin, unfolded, spot, pins, stored, profile, next, toggled, swaps,
    pinned, events, sent, owed, down, began, req, missing, reads, detection,
    armed, unseen, herdr, open, todo, why, clock, kept, noted, rows, stop,
    deck, files, secret, marker, app, running, reloader, baseline, holder, tx,
    counts>>
SingleRest == <<part, rendered, latest, tickers, delivering, lock, sup,
    active, device, built, gone, wake, reconfigure, stopping, pump, shown,
    written, failed, config, setter, attempts, restart, faults, agent, since,
    display, placed, ranks, target, adopt, changed, page, away, dirty, frame,
    lastShown, misled, now, changes, port, pin, saved, present, checked,
    moves, real, told, up, inbox, outbox, s, writer, last, due, priming,
    steady, reqs, drops, pane, turns, bridge, toBridge, toRuntime, block,
    preread, reading, revision, banner, card, waits, woken, asked, typed,
    outcome, known, answered, done, drill, triage, launcher, menu, origin,
    unfolded, spot, pins, stored, profile, next, toggled, swaps, pinned,
    events, sent, owed, down, began, req, missing, reads, detection, armed,
    unseen, source, orch, seqs, stale, ticks, presses, split, version, list,
    reader, dock, files, secret, marker, app, running, reloader, baseline,
    holder, tx, counts>>
PairRest == <<part, rendered, latest, tickers, delivering, lock, sup, active,
    device, built, gone, wake, reconfigure, stopping, pump, shown, written,
    failed, config, setter, attempts, restart, faults, agent, since, display,
    placed, ranks, target, adopt, changed, page, away, dirty, frame,
    lastShown, misled, now, changes, port, pin, saved, present, checked,
    moves, real, told, up, inbox, outbox, s, writer, last, due, priming,
    steady, reqs, drops, pane, turns, bridge, toBridge, toRuntime, block,
    preread, reading, revision, banner, card, waits, woken, asked, typed,
    outcome, known, answered, done, drill, triage, launcher, menu, origin,
    unfolded, spot, pins, stored, profile, next, toggled, swaps, pinned,
    events, sent, owed, down, began, req, missing, reads, detection, armed,
    unseen, source, orch, seqs, stale, ticks, presses, split, version, list,
    reader, dock, files, secret, marker, app, running, reloader, baseline,
    holder, tx, counts>>
ServesRest == <<part, rendered, latest, tickers, delivering, lock, sup,
    active, device, built, gone, wake, reconfigure, stopping, pump, shown,
    written, failed, config, setter, attempts, restart, faults, agent, since,
    display, placed, ranks, target, adopt, changed, page, away, dirty, frame,
    lastShown, misled, now, changes, port, pin, saved, present, checked,
    moves, real, told, up, inbox, outbox, s, writer, last, due, priming,
    steady, reqs, drops, pane, turns, bridge, toBridge, toRuntime, block,
    preread, reading, revision, banner, card, waits, woken, asked, typed,
    outcome, known, answered, done, drill, triage, launcher, menu, origin,
    unfolded, spot, pins, stored, profile, next, toggled, swaps, pinned,
    events, sent, owed, down, began, req, missing, reads, detection, armed,
    unseen, source, orch, seqs, stale, ticks, presses, split, version, list,
    reader, dock, files, secret, marker, app, running, reloader, baseline,
    holder, tx, counts>>
SwitchRest == <<part, rendered, latest, tickers, delivering, lock, sup,
    active, device, built, gone, wake, reconfigure, stopping, pump, shown,
    written, failed, config, setter, attempts, restart, faults, agent, since,
    display, placed, ranks, target, adopt, changed, page, away, dirty, frame,
    lastShown, misled, now, changes, port, pin, saved, present, checked,
    thread, moves, real, told, up, inbox, outbox, s, writer, last, due,
    priming, steady, reqs, drops, pane, turns, bridge, toBridge, toRuntime,
    block, preread, reading, revision, spent, banner, card, waits, woken,
    asked, typed, outcome, known, answered, done, drill, triage, launcher,
    menu, origin, unfolded, spot, pins, stored, profile, next, toggled, swaps,
    pinned, events, sent, owed, down, began, req, missing, reads, detection,
    armed, unseen, source, orch, seqs, stale, ticks, presses, split, version,
    list, reader, dock, herdr, open, todo, why, clock, kept, noted, rows,
    stop, deck>>

DeviceSteps == part = "device" /\ Device!Next /\ UNCHANGED DeviceRest
GridSteps == part = "overview" /\ Grid!Next /\ UNCHANGED GridRest
PowerSteps == part = "power" /\ Power!Next /\ UNCHANGED PowerRest
PinnedSteps == part = "pinned" /\ Pinned!Next /\ UNCHANGED PinnedRest
AskedSteps == part = "asked" /\ Asked!Next /\ UNCHANGED AskedRest
MovedSteps == part = "moved" /\ Moved!Next /\ UNCHANGED MovedRest
JoinedSteps == part = "joined" /\ Joined!Next /\ UNCHANGED JoinedRest
PickedSteps == part = "picks" /\ Picked!Next /\ UNCHANGED PickedRest
AnswerSteps == part = "answers" /\ Answer!Next /\ UNCHANGED AnswerRest
MeansSteps == part = "means" /\ Means!Next /\ UNCHANGED MeansRest
OlderSteps == part = "older" /\ Older!Next /\ UNCHANGED OlderRest
LoopSteps == part = "triage" /\ Loop!Next /\ UNCHANGED LoopRest
MenusSteps == part = "menus" /\ Menus!Next /\ UNCHANGED MenusRest
DrillSteps == part = "drill" /\ Drill!Next /\ UNCHANGED DrillRest
FramesSteps == part = "frames" /\ Frames!Next /\ UNCHANGED FramesRest
SingleSteps == part = "single" /\ Single!Next /\ UNCHANGED SingleRest
PairSteps == part = "pair" /\ Pair!Next /\ UNCHANGED PairRest
ServesSteps == part = "serves" /\ Serves!Next /\ UNCHANGED ServesRest
SwitchSteps == part = "switching" /\ Switch!Next /\ UNCHANGED SwitchRest

Next == DeviceSteps \/ GridSteps \/ PowerSteps \/ PinnedSteps \/ AskedSteps \/
        MovedSteps \/ JoinedSteps \/ PickedSteps \/ AnswerSteps \/ MeansSteps \/
        OlderSteps \/ LoopSteps \/ MenusSteps \/ DrillSteps \/ FramesSteps \/
        SingleSteps \/ PairSteps \/ ServesSteps \/ SwitchSteps

vars == <<part, rendered, latest, tickers, delivering, lock, sup, active, device,
          built, gone, wake, reconfigure, stopping, pump, shown, written, failed,
          config, setter, attempts, restart, faults, agent, since, display,
          placed, ranks, target, adopt, changed, page, away, dirty, frame,
          lastShown, misled, now, changes, port, pin, saved, present, checked,
          thread, moves, real, told, up, inbox, outbox, s, writer, last, due,
          priming, steady, reqs, drops, pane, turns, bridge, toBridge, toRuntime,
          block, preread, reading, revision, spent, banner, card, waits, woken,
          asked, typed, outcome, known, answered, done, drill, triage, launcher,
          menu, origin, unfolded, spot, pins, stored, profile, next, toggled,
          swaps, pinned, events, sent, owed, down, began, req, missing, reads,
          detection, armed, unseen, source, orch, seqs, stale, ticks, presses,
          split, version, list, reader, dock, herdr, open, todo, why, clock, kept,
          noted, rows, stop, deck, files, secret, marker, app, running, reloader,
          baseline, holder, tx, counts>>

Spec == Init /\ [][Next]_vars

\* Every part keeps its types.
TypeOK ==
  /\ part = "device" => Device!TypeOK
  /\ part = "overview" => Grid!TypeOK
  /\ part = "power" => Power!TypeOK
  /\ part = "pinned" => Pinned!TypeOK
  /\ part = "asked" => Asked!TypeOK
  /\ part = "moved" => Moved!TypeOK
  /\ part = "joined" => Joined!TypeOK
  /\ part = "picks" => Picked!TypeOK
  /\ part = "answers" => Answer!TypeOK
  /\ part = "means" => Means!TypeOK
  /\ part = "older" => Older!TypeOK
  /\ part = "triage" => Loop!TypeOK
  /\ part = "menus" => Menus!TypeOK
  /\ part = "drill" => Drill!TypeOK
  /\ part = "frames" => Frames!TypeOK
  /\ part = "single" => Single!TypeOK
  /\ part = "pair" => Pair!TypeOK
  /\ part = "serves" => Serves!TypeOK
  /\ part = "switching" => Switch!TypeOK

\* An option from card, banner or deck is typed once, at the question it was made
\* for, the card says what became of it, and an open question can be answered.
AnswersAreMeant ==
  /\ part = "answers" => Answer!AnswersAreMeant
  /\ part = "means" => Means!AnswersAreMeant
  /\ part = "older" => Older!AnswersAreMeant

\* A press opens the agent the key showed; options, drill text and confirmation
\* are of the block the agent is in; the keys of the plugin are those of its session;
\* the triage loop asks for each block once, and one view is open at a time.
PressesAreMeant ==
  /\ part = "overview" => Grid!PressOpensWhatWasShown
  /\ part = "drill" => Drill!DrillAnswersThisBlock
  /\ part = "asked" => Asked!ElgatoIsTrue
  /\ part = "joined" => Joined!ElgatoIsTrue
  /\ part = "picks" => Picked!ElgatoIsTrue
  /\ part = "moved" => Moved!ElgatoIsTrue
  /\ part = "triage" => Loop!TriageAsksOnce /\ Loop!OneView
  /\ part = "menus" => Menus!OneView

\* The physical deck is one device with the newest frame and configuration after
\* every fault, and the power that is cut is that of its port; a
\* reader of the web deck has, or is about to get, the newest frame; the deck has
\* the pins of the file, each agent once.
DecksAreCurrent ==
  /\ part = "device" => Device!DeckStaysTrue
  /\ part = "frames" => Frames!FramesAreCurrent
  /\ part = "power" => Power!DeckIsFound
  /\ part = "pinned" => Pinned!DeckIsFound
  /\ part = "menus" => Menus!PinsAreStored /\ Menus!OnePinEach

\* A switch is done or undone: nothing leaks, the next start finds the source; an
\* embedded bridge that runs on has an owner, whatever failed while it started;
\* what the service noted is in its files when it ends by itself.
SwitchesWhole ==
  /\ part = "switching" => Switch!SwitchesWhole
  /\ part = "single" => Single!NoBridgeIsLost
  /\ part = "pair" => Pair!NoBridgeIsLost
  /\ part = "serves" => Serves!ServiceKeepsItsClock

\* No reader gets an older frame after a newer one, and a switch that fails
\* leaves source, files and secret as they were; an agent keeps its tile until the
\* user takes the pin off or changes the profile.
NothingGoesBack ==
  [][/\ part = "frames" => Frames!NeverBack
     /\ part = "switching" => Switch!FailureChangesNothing
     /\ part \in {"asked", "joined", "picks", "moved"} => Asked!StopStep
     /\ part = "menus" => Menus!PinsStay]_vars
==============================================================================
