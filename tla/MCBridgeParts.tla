---------------------------- MODULE MCBridgeParts ----------------------------
(***************************************************************************)
(* Parts of the bridge that share no state, each a behaviour of its own:   *)
(* the terminal observes with their counter, one stream of terminal        *)
(* frames, the status clock over restarts and over lists that overtake     *)
(* each other, the streams from herdr, the hooks of subagents, who alerts  *)
(* by Telegram, and the history with its worker.                           *)
(***************************************************************************)
EXTENDS Integers, Sequences, FiniteSets

CONSTANT None   \* model values

VARIABLES
    part,   \* the part this behaviour runs
    pool, session, sent, framed, up, inbox, outbox, handler, observes, task,
    closed, told, total, faults, buffer, made, dropped, ended, known, pump, batch,
    after, last, queue, left, painted, torn, displaced, herdr, now, live,
    restored, dirty, timer, file, job, said, view, ids, stops, fleet, branch,
    listener, wake, stream, trees, shown, since, ticks, subagent, hooks, spoolOf,
    entries, reported, sending, badge, pass, beats, troubles, doubt, doc, token,
    detail, lastStatus, advertised, duties, line, holder, panes, wire, conn,
    knows, draft, alert, unseen, used, clockMs, liveEp, worker, rowsKept, queries,
    lostRows

Terms == INSTANCE Terminals WITH Runtimes <- {"desk", "phone"}, Sessions <- 1..3,
    Owner <- [s \in 1..3 |-> IF s = 3 THEN "phone" ELSE "desk"], MaxSessions <- 1,
    PerClient <- 1, InTotal <- 1, MaxFaults <- 1, EvictUnsent <- FALSE
Stream == INSTANCE TermStream WITH MaxFrames <- 2, QueueMax <- 2, MaxMade <- 5
Clock == INSTANCE AgentList WITH Panes <- {1}, Lists <- {"list"}, None <- None,
    MaxTurns <- 3, MaxNow <- 5, MaxStops <- 2, SnapshotsInOrder <- TRUE,
    CleanStops <- TRUE, FlushMayFail <- FALSE
Lists == INSTANCE AgentList WITH Panes <- {1}, Lists <- {"list"}, None <- None,
    MaxTurns <- 4, MaxNow <- 5, MaxStops <- 1, SnapshotsInOrder <- FALSE,
    CleanStops <- FALSE, FlushMayFail <- FALSE
Feed == INSTANCE HerdrFeed WITH Panes <- {"p"}, Interval <- 2, MaxNow <- 7,
    MaxChanges <- 2, MaxFaults <- 1
Hooks == INSTANCE Subagents WITH Agents <- {"a", "b"}, MaxEntries <- 1,
    StaleAfter <- 0, DropAfter <- 1, MaxNow <- 2, MaxBeats <- 1, MaxTroubles <- 1
Owner == INSTANCE TelegramOwner WITH Clients <- {1}, Editors <- {1},
    MaxChanges <- 1, MaxEdits <- 0, MaxReports <- 0, MaxLists <- 1,
    MaxConnects <- 1, MaxRestarts <- 0, MaxAlerts <- 1
Drafts == INSTANCE TelegramOwner WITH Clients <- {1}, Editors <- {1, 2},
    MaxChanges <- 2, MaxEdits <- 0, MaxReports <- 0, MaxLists <- 0,
    MaxConnects <- 1, MaxRestarts <- 0, MaxAlerts <- 0
Edited == INSTANCE TelegramOwner WITH Clients <- {1}, Editors <- {1},
    MaxChanges <- 1, MaxEdits <- 1, MaxReports <- 0, MaxLists <- 1,
    MaxConnects <- 1, MaxRestarts <- 0, MaxAlerts <- 0
Rerun == INSTANCE TelegramOwner WITH Clients <- {1}, Editors <- {1},
    MaxChanges <- 1, MaxEdits <- 0, MaxReports <- 0, MaxLists <- 1,
    MaxConnects <- 2, MaxRestarts <- 1, MaxAlerts <- 0
Both == INSTANCE TelegramOwner WITH Clients <- {1, 2}, Editors <- {1},
    MaxChanges <- 1, MaxEdits <- 0, MaxReports <- 0, MaxLists <- 1,
    MaxConnects <- 1, MaxRestarts <- 0, MaxAlerts <- 0
Listed == INSTANCE TelegramOwner WITH Clients <- {1}, Editors <- {1},
    MaxChanges <- 1, MaxEdits <- 0, MaxReports <- 1, MaxLists <- 2,
    MaxConnects <- 1, MaxRestarts <- 0, MaxAlerts <- 0
Hist == INSTANCE History WITH Statuses <- {"working", "blocked"}, QueueMax <- 2,
    BatchMax <- 2, LateRows <- FALSE, MaxNow <- 2, MaxQueries <- 1, MaxFails <- 1

\* The parts run with constants they are meant for.
ASSUME PartsAssumption ==
  /\ Clock!ListAssumption
  /\ Lists!ListAssumption
  /\ Hooks!StaleBeforeDrop
  /\ Hist!Sizes

Off == "off"   \* the state of the parts that do not run

TermsStarts ==
  /\ part = "terminals" /\ Terms!Init
  /\ buffer = Off /\ made = Off /\ dropped = Off /\ ended = Off /\ known = Off
  /\ pump = Off /\ batch = Off /\ after = Off /\ last = Off /\ queue = Off
  /\ left = Off /\ painted = Off /\ torn = Off /\ displaced = Off /\ herdr = Off
  /\ now = Off /\ live = Off /\ restored = Off /\ dirty = Off /\ timer = Off
  /\ file = Off /\ job = Off /\ said = Off /\ view = Off /\ ids = Off
  /\ stops = Off /\ fleet = Off /\ branch = Off /\ listener = Off /\ wake = Off
  /\ stream = Off /\ trees = Off /\ shown = Off /\ since = Off /\ ticks = Off
  /\ subagent = Off /\ hooks = Off /\ spoolOf = Off /\ entries = Off
  /\ reported = Off /\ sending = Off /\ badge = Off /\ pass = Off /\ beats = Off
  /\ troubles = Off /\ doubt = Off /\ doc = Off /\ token = Off /\ detail = Off
  /\ lastStatus = Off /\ advertised = Off /\ duties = Off /\ line = Off
  /\ holder = Off /\ panes = Off /\ wire = Off /\ conn = Off /\ knows = Off
  /\ draft = Off /\ alert = Off /\ unseen = Off /\ used = Off /\ clockMs = Off
  /\ liveEp = Off /\ worker = Off /\ rowsKept = Off /\ queries = Off
  /\ lostRows = Off
StreamStarts ==
  /\ part = "stream" /\ Stream!Init
  /\ pool = Off /\ session = Off /\ sent = Off /\ framed = Off /\ up = Off
  /\ inbox = Off /\ outbox = Off /\ handler = Off /\ observes = Off /\ task = Off
  /\ closed = Off /\ told = Off /\ total = Off /\ faults = Off /\ herdr = Off
  /\ now = Off /\ live = Off /\ restored = Off /\ dirty = Off /\ timer = Off
  /\ file = Off /\ job = Off /\ said = Off /\ view = Off /\ ids = Off
  /\ stops = Off /\ fleet = Off /\ branch = Off /\ listener = Off /\ wake = Off
  /\ stream = Off /\ trees = Off /\ shown = Off /\ since = Off /\ ticks = Off
  /\ subagent = Off /\ hooks = Off /\ spoolOf = Off /\ entries = Off
  /\ reported = Off /\ sending = Off /\ badge = Off /\ pass = Off /\ beats = Off
  /\ troubles = Off /\ doubt = Off /\ doc = Off /\ token = Off /\ detail = Off
  /\ lastStatus = Off /\ advertised = Off /\ duties = Off /\ line = Off
  /\ holder = Off /\ panes = Off /\ wire = Off /\ conn = Off /\ knows = Off
  /\ draft = Off /\ alert = Off /\ unseen = Off /\ used = Off /\ clockMs = Off
  /\ liveEp = Off /\ worker = Off /\ rowsKept = Off /\ queries = Off
  /\ lostRows = Off
ClockStarts ==
  /\ part = "clock" /\ Clock!Init
  /\ pool = Off /\ session = Off /\ sent = Off /\ framed = Off /\ inbox = Off
  /\ outbox = Off /\ handler = Off /\ observes = Off /\ task = Off /\ closed = Off
  /\ told = Off /\ total = Off /\ faults = Off /\ buffer = Off /\ made = Off
  /\ dropped = Off /\ ended = Off /\ known = Off /\ pump = Off /\ batch = Off
  /\ after = Off /\ last = Off /\ queue = Off /\ left = Off /\ painted = Off
  /\ torn = Off /\ displaced = Off /\ fleet = Off /\ branch = Off
  /\ listener = Off /\ wake = Off /\ stream = Off /\ trees = Off /\ shown = Off
  /\ since = Off /\ ticks = Off /\ subagent = Off /\ hooks = Off /\ spoolOf = Off
  /\ entries = Off /\ reported = Off /\ sending = Off /\ badge = Off /\ pass = Off
  /\ beats = Off /\ troubles = Off /\ doubt = Off /\ doc = Off /\ token = Off
  /\ detail = Off /\ lastStatus = Off /\ advertised = Off /\ duties = Off
  /\ line = Off /\ holder = Off /\ panes = Off /\ wire = Off /\ conn = Off
  /\ knows = Off /\ draft = Off /\ alert = Off /\ unseen = Off /\ used = Off
  /\ clockMs = Off /\ liveEp = Off /\ worker = Off /\ rowsKept = Off
  /\ queries = Off /\ lostRows = Off
ListsStarts ==
  /\ part = "lists" /\ Lists!Init
  /\ pool = Off /\ session = Off /\ sent = Off /\ framed = Off /\ inbox = Off
  /\ outbox = Off /\ handler = Off /\ observes = Off /\ task = Off /\ closed = Off
  /\ told = Off /\ total = Off /\ faults = Off /\ buffer = Off /\ made = Off
  /\ dropped = Off /\ ended = Off /\ known = Off /\ pump = Off /\ batch = Off
  /\ after = Off /\ last = Off /\ queue = Off /\ left = Off /\ painted = Off
  /\ torn = Off /\ displaced = Off /\ fleet = Off /\ branch = Off
  /\ listener = Off /\ wake = Off /\ stream = Off /\ trees = Off /\ shown = Off
  /\ since = Off /\ ticks = Off /\ subagent = Off /\ hooks = Off /\ spoolOf = Off
  /\ entries = Off /\ reported = Off /\ sending = Off /\ badge = Off /\ pass = Off
  /\ beats = Off /\ troubles = Off /\ doubt = Off /\ doc = Off /\ token = Off
  /\ detail = Off /\ lastStatus = Off /\ advertised = Off /\ duties = Off
  /\ line = Off /\ holder = Off /\ panes = Off /\ wire = Off /\ conn = Off
  /\ knows = Off /\ draft = Off /\ alert = Off /\ unseen = Off /\ used = Off
  /\ clockMs = Off /\ liveEp = Off /\ worker = Off /\ rowsKept = Off
  /\ queries = Off /\ lostRows = Off
FeedStarts ==
  /\ part = "feed" /\ Feed!Init
  /\ pool = Off /\ session = Off /\ sent = Off /\ framed = Off /\ up = Off
  /\ inbox = Off /\ outbox = Off /\ handler = Off /\ observes = Off /\ task = Off
  /\ closed = Off /\ total = Off /\ buffer = Off /\ made = Off /\ dropped = Off
  /\ ended = Off /\ known = Off /\ pump = Off /\ batch = Off /\ after = Off
  /\ last = Off /\ queue = Off /\ left = Off /\ painted = Off /\ torn = Off
  /\ displaced = Off /\ herdr = Off /\ live = Off /\ restored = Off /\ dirty = Off
  /\ timer = Off /\ file = Off /\ job = Off /\ said = Off /\ view = Off
  /\ ids = Off /\ stops = Off /\ ticks = Off /\ subagent = Off /\ hooks = Off
  /\ spoolOf = Off /\ entries = Off /\ reported = Off /\ sending = Off
  /\ badge = Off /\ pass = Off /\ beats = Off /\ troubles = Off /\ doubt = Off
  /\ doc = Off /\ token = Off /\ detail = Off /\ lastStatus = Off
  /\ advertised = Off /\ duties = Off /\ line = Off /\ holder = Off /\ panes = Off
  /\ wire = Off /\ conn = Off /\ knows = Off /\ draft = Off /\ alert = Off
  /\ unseen = Off /\ used = Off /\ clockMs = Off /\ liveEp = Off /\ worker = Off
  /\ rowsKept = Off /\ queries = Off /\ lostRows = Off
HooksStarts ==
  /\ part = "hooks" /\ Hooks!Init
  /\ pool = Off /\ sent = Off /\ framed = Off /\ up = Off /\ inbox = Off
  /\ outbox = Off /\ handler = Off /\ observes = Off /\ task = Off /\ closed = Off
  /\ told = Off /\ total = Off /\ faults = Off /\ buffer = Off /\ made = Off
  /\ dropped = Off /\ ended = Off /\ known = Off /\ pump = Off /\ batch = Off
  /\ after = Off /\ last = Off /\ queue = Off /\ left = Off /\ painted = Off
  /\ torn = Off /\ displaced = Off /\ herdr = Off /\ now = Off /\ live = Off
  /\ restored = Off /\ dirty = Off /\ timer = Off /\ file = Off /\ job = Off
  /\ said = Off /\ view = Off /\ ids = Off /\ stops = Off /\ fleet = Off
  /\ branch = Off /\ listener = Off /\ wake = Off /\ stream = Off /\ trees = Off
  /\ shown = Off /\ since = Off /\ doc = Off /\ token = Off /\ detail = Off
  /\ lastStatus = Off /\ advertised = Off /\ duties = Off /\ line = Off
  /\ holder = Off /\ panes = Off /\ wire = Off /\ conn = Off /\ knows = Off
  /\ draft = Off /\ alert = Off /\ unseen = Off /\ used = Off /\ clockMs = Off
  /\ liveEp = Off /\ worker = Off /\ rowsKept = Off /\ queries = Off
  /\ lostRows = Off
OwnerStarts ==
  /\ part = "owner" /\ Owner!Init
  /\ pool = Off /\ session = Off /\ sent = Off /\ framed = Off /\ up = Off
  /\ inbox = Off /\ outbox = Off /\ handler = Off /\ observes = Off /\ task = Off
  /\ closed = Off /\ told = Off /\ total = Off /\ faults = Off /\ buffer = Off
  /\ made = Off /\ dropped = Off /\ ended = Off /\ known = Off /\ pump = Off
  /\ batch = Off /\ after = Off /\ last = Off /\ queue = Off /\ left = Off
  /\ painted = Off /\ torn = Off /\ displaced = Off /\ herdr = Off /\ now = Off
  /\ live = Off /\ restored = Off /\ dirty = Off /\ file = Off /\ job = Off
  /\ said = Off /\ view = Off /\ ids = Off /\ stops = Off /\ fleet = Off
  /\ branch = Off /\ listener = Off /\ wake = Off /\ stream = Off /\ trees = Off
  /\ shown = Off /\ since = Off /\ ticks = Off /\ subagent = Off /\ hooks = Off
  /\ spoolOf = Off /\ entries = Off /\ reported = Off /\ sending = Off
  /\ badge = Off /\ pass = Off /\ beats = Off /\ troubles = Off /\ doubt = Off
  /\ clockMs = Off /\ liveEp = Off /\ worker = Off /\ rowsKept = Off
  /\ queries = Off /\ lostRows = Off
DraftsStarts ==
  /\ part = "drafts" /\ Drafts!Init
  /\ pool = Off /\ session = Off /\ sent = Off /\ framed = Off /\ up = Off
  /\ inbox = Off /\ outbox = Off /\ handler = Off /\ observes = Off /\ task = Off
  /\ closed = Off /\ told = Off /\ total = Off /\ faults = Off /\ buffer = Off
  /\ made = Off /\ dropped = Off /\ ended = Off /\ known = Off /\ pump = Off
  /\ batch = Off /\ after = Off /\ last = Off /\ queue = Off /\ left = Off
  /\ painted = Off /\ torn = Off /\ displaced = Off /\ herdr = Off /\ now = Off
  /\ live = Off /\ restored = Off /\ dirty = Off /\ file = Off /\ job = Off
  /\ said = Off /\ view = Off /\ ids = Off /\ stops = Off /\ fleet = Off
  /\ branch = Off /\ listener = Off /\ wake = Off /\ stream = Off /\ trees = Off
  /\ shown = Off /\ since = Off /\ ticks = Off /\ subagent = Off /\ hooks = Off
  /\ spoolOf = Off /\ entries = Off /\ reported = Off /\ sending = Off
  /\ badge = Off /\ pass = Off /\ beats = Off /\ troubles = Off /\ doubt = Off
  /\ clockMs = Off /\ liveEp = Off /\ worker = Off /\ rowsKept = Off
  /\ queries = Off /\ lostRows = Off
EditedStarts ==
  /\ part = "edited" /\ Edited!Init
  /\ pool = Off /\ session = Off /\ sent = Off /\ framed = Off /\ up = Off
  /\ inbox = Off /\ outbox = Off /\ handler = Off /\ observes = Off /\ task = Off
  /\ closed = Off /\ told = Off /\ total = Off /\ faults = Off /\ buffer = Off
  /\ made = Off /\ dropped = Off /\ ended = Off /\ known = Off /\ pump = Off
  /\ batch = Off /\ after = Off /\ last = Off /\ queue = Off /\ left = Off
  /\ painted = Off /\ torn = Off /\ displaced = Off /\ herdr = Off /\ now = Off
  /\ live = Off /\ restored = Off /\ dirty = Off /\ file = Off /\ job = Off
  /\ said = Off /\ view = Off /\ ids = Off /\ stops = Off /\ fleet = Off
  /\ branch = Off /\ listener = Off /\ wake = Off /\ stream = Off /\ trees = Off
  /\ shown = Off /\ since = Off /\ ticks = Off /\ subagent = Off /\ hooks = Off
  /\ spoolOf = Off /\ entries = Off /\ reported = Off /\ sending = Off
  /\ badge = Off /\ pass = Off /\ beats = Off /\ troubles = Off /\ doubt = Off
  /\ clockMs = Off /\ liveEp = Off /\ worker = Off /\ rowsKept = Off
  /\ queries = Off /\ lostRows = Off
RerunStarts ==
  /\ part = "rerun" /\ Rerun!Init
  /\ pool = Off /\ session = Off /\ sent = Off /\ framed = Off /\ up = Off
  /\ inbox = Off /\ outbox = Off /\ handler = Off /\ observes = Off /\ task = Off
  /\ closed = Off /\ told = Off /\ total = Off /\ faults = Off /\ buffer = Off
  /\ made = Off /\ dropped = Off /\ ended = Off /\ known = Off /\ pump = Off
  /\ batch = Off /\ after = Off /\ last = Off /\ queue = Off /\ left = Off
  /\ painted = Off /\ torn = Off /\ displaced = Off /\ herdr = Off /\ now = Off
  /\ live = Off /\ restored = Off /\ dirty = Off /\ file = Off /\ job = Off
  /\ said = Off /\ view = Off /\ ids = Off /\ stops = Off /\ fleet = Off
  /\ branch = Off /\ listener = Off /\ wake = Off /\ stream = Off /\ trees = Off
  /\ shown = Off /\ since = Off /\ ticks = Off /\ subagent = Off /\ hooks = Off
  /\ spoolOf = Off /\ entries = Off /\ reported = Off /\ sending = Off
  /\ badge = Off /\ pass = Off /\ beats = Off /\ troubles = Off /\ doubt = Off
  /\ clockMs = Off /\ liveEp = Off /\ worker = Off /\ rowsKept = Off
  /\ queries = Off /\ lostRows = Off
BothStarts ==
  /\ part = "owners" /\ Both!Init
  /\ pool = Off /\ session = Off /\ sent = Off /\ framed = Off /\ up = Off
  /\ inbox = Off /\ outbox = Off /\ handler = Off /\ observes = Off /\ task = Off
  /\ closed = Off /\ told = Off /\ total = Off /\ faults = Off /\ buffer = Off
  /\ made = Off /\ dropped = Off /\ ended = Off /\ known = Off /\ pump = Off
  /\ batch = Off /\ after = Off /\ last = Off /\ queue = Off /\ left = Off
  /\ painted = Off /\ torn = Off /\ displaced = Off /\ herdr = Off /\ now = Off
  /\ live = Off /\ restored = Off /\ dirty = Off /\ file = Off /\ job = Off
  /\ said = Off /\ view = Off /\ ids = Off /\ stops = Off /\ fleet = Off
  /\ branch = Off /\ listener = Off /\ wake = Off /\ stream = Off /\ trees = Off
  /\ shown = Off /\ since = Off /\ ticks = Off /\ subagent = Off /\ hooks = Off
  /\ spoolOf = Off /\ entries = Off /\ reported = Off /\ sending = Off
  /\ badge = Off /\ pass = Off /\ beats = Off /\ troubles = Off /\ doubt = Off
  /\ clockMs = Off /\ liveEp = Off /\ worker = Off /\ rowsKept = Off
  /\ queries = Off /\ lostRows = Off
ListedStarts ==
  /\ part = "listed" /\ Listed!Init
  /\ pool = Off /\ session = Off /\ sent = Off /\ framed = Off /\ up = Off
  /\ inbox = Off /\ outbox = Off /\ handler = Off /\ observes = Off /\ task = Off
  /\ closed = Off /\ told = Off /\ total = Off /\ faults = Off /\ buffer = Off
  /\ made = Off /\ dropped = Off /\ ended = Off /\ known = Off /\ pump = Off
  /\ batch = Off /\ after = Off /\ last = Off /\ queue = Off /\ left = Off
  /\ painted = Off /\ torn = Off /\ displaced = Off /\ herdr = Off /\ now = Off
  /\ live = Off /\ restored = Off /\ dirty = Off /\ file = Off /\ job = Off
  /\ said = Off /\ view = Off /\ ids = Off /\ stops = Off /\ fleet = Off
  /\ branch = Off /\ listener = Off /\ wake = Off /\ stream = Off /\ trees = Off
  /\ shown = Off /\ since = Off /\ ticks = Off /\ subagent = Off /\ hooks = Off
  /\ spoolOf = Off /\ entries = Off /\ reported = Off /\ sending = Off
  /\ badge = Off /\ pass = Off /\ beats = Off /\ troubles = Off /\ doubt = Off
  /\ clockMs = Off /\ liveEp = Off /\ worker = Off /\ rowsKept = Off
  /\ queries = Off /\ lostRows = Off
HistStarts ==
  /\ part = "history" /\ Hist!Init
  /\ pool = Off /\ session = Off /\ sent = Off /\ framed = Off /\ up = Off
  /\ inbox = Off /\ outbox = Off /\ handler = Off /\ observes = Off /\ task = Off
  /\ told = Off /\ total = Off /\ faults = Off /\ buffer = Off /\ made = Off
  /\ dropped = Off /\ ended = Off /\ known = Off /\ pump = Off /\ batch = Off
  /\ after = Off /\ last = Off /\ left = Off /\ painted = Off /\ torn = Off
  /\ displaced = Off /\ herdr = Off /\ now = Off /\ live = Off /\ restored = Off
  /\ dirty = Off /\ timer = Off /\ file = Off /\ job = Off /\ said = Off
  /\ view = Off /\ ids = Off /\ stops = Off /\ fleet = Off /\ branch = Off
  /\ listener = Off /\ wake = Off /\ stream = Off /\ trees = Off /\ shown = Off
  /\ since = Off /\ ticks = Off /\ subagent = Off /\ hooks = Off /\ spoolOf = Off
  /\ entries = Off /\ reported = Off /\ sending = Off /\ badge = Off /\ pass = Off
  /\ beats = Off /\ troubles = Off /\ doubt = Off /\ doc = Off /\ token = Off
  /\ detail = Off /\ lastStatus = Off /\ advertised = Off /\ duties = Off
  /\ line = Off /\ holder = Off /\ panes = Off /\ wire = Off /\ conn = Off
  /\ knows = Off /\ draft = Off /\ alert = Off /\ unseen = Off /\ used = Off

Init == TermsStarts \/ StreamStarts \/ ClockStarts \/ ListsStarts \/ FeedStarts \/
        HooksStarts \/ OwnerStarts \/ DraftsStarts \/ EditedStarts \/
        RerunStarts \/ BothStarts \/ ListedStarts \/ HistStarts

TermsRest == <<part, buffer, made, dropped, ended, known, pump, batch, after,
    last, queue, left, painted, torn, displaced, herdr, now, live, restored,
    dirty, timer, file, job, said, view, ids, stops, fleet, branch, listener,
    wake, stream, trees, shown, since, ticks, subagent, hooks, spoolOf,
    entries, reported, sending, badge, pass, beats, troubles, doubt, doc,
    token, detail, lastStatus, advertised, duties, line, holder, panes, wire,
    conn, knows, draft, alert, unseen, used, clockMs, liveEp, worker,
    rowsKept, queries, lostRows>>
StreamRest == <<part, pool, session, sent, framed, up, inbox, outbox, handler,
    observes, task, closed, told, total, faults, herdr, now, live, restored,
    dirty, timer, file, job, said, view, ids, stops, fleet, branch, listener,
    wake, stream, trees, shown, since, ticks, subagent, hooks, spoolOf,
    entries, reported, sending, badge, pass, beats, troubles, doubt, doc,
    token, detail, lastStatus, advertised, duties, line, holder, panes, wire,
    conn, knows, draft, alert, unseen, used, clockMs, liveEp, worker,
    rowsKept, queries, lostRows>>
ClockRest == <<part, pool, session, sent, framed, inbox, outbox, handler,
    observes, task, closed, told, total, faults, buffer, made, dropped, ended,
    known, pump, batch, after, last, queue, left, painted, torn, displaced,
    fleet, branch, listener, wake, stream, trees, shown, since, ticks,
    subagent, hooks, spoolOf, entries, reported, sending, badge, pass, beats,
    troubles, doubt, doc, token, detail, lastStatus, advertised, duties, line,
    holder, panes, wire, conn, knows, draft, alert, unseen, used, clockMs,
    liveEp, worker, rowsKept, queries, lostRows>>
ListsRest == <<part, pool, session, sent, framed, inbox, outbox, handler,
    observes, task, closed, told, total, faults, buffer, made, dropped, ended,
    known, pump, batch, after, last, queue, left, painted, torn, displaced,
    fleet, branch, listener, wake, stream, trees, shown, since, ticks,
    subagent, hooks, spoolOf, entries, reported, sending, badge, pass, beats,
    troubles, doubt, doc, token, detail, lastStatus, advertised, duties, line,
    holder, panes, wire, conn, knows, draft, alert, unseen, used, clockMs,
    liveEp, worker, rowsKept, queries, lostRows>>
FeedRest == <<part, pool, session, sent, framed, up, inbox, outbox, handler,
    observes, task, closed, total, buffer, made, dropped, ended, known, pump,
    batch, after, last, queue, left, painted, torn, displaced, herdr, live,
    restored, dirty, timer, file, job, said, view, ids, stops, ticks,
    subagent, hooks, spoolOf, entries, reported, sending, badge, pass, beats,
    troubles, doubt, doc, token, detail, lastStatus, advertised, duties, line,
    holder, panes, wire, conn, knows, draft, alert, unseen, used, clockMs,
    liveEp, worker, rowsKept, queries, lostRows>>
HooksRest == <<part, pool, sent, framed, up, inbox, outbox, handler, observes,
    task, closed, told, total, faults, buffer, made, dropped, ended, known,
    pump, batch, after, last, queue, left, painted, torn, displaced, herdr,
    now, live, restored, dirty, timer, file, job, said, view, ids, stops,
    fleet, branch, listener, wake, stream, trees, shown, since, doc, token,
    detail, lastStatus, advertised, duties, line, holder, panes, wire, conn,
    knows, draft, alert, unseen, used, clockMs, liveEp, worker, rowsKept,
    queries, lostRows>>
OwnerRest == <<part, pool, session, sent, framed, up, inbox, outbox, handler,
    observes, task, closed, told, total, faults, buffer, made, dropped, ended,
    known, pump, batch, after, last, queue, left, painted, torn, displaced,
    herdr, now, live, restored, dirty, file, job, said, view, ids, stops,
    fleet, branch, listener, wake, stream, trees, shown, since, ticks,
    subagent, hooks, spoolOf, entries, reported, sending, badge, pass, beats,
    troubles, doubt, clockMs, liveEp, worker, rowsKept, queries, lostRows>>
DraftsRest == <<part, pool, session, sent, framed, up, inbox, outbox, handler,
    observes, task, closed, told, total, faults, buffer, made, dropped, ended,
    known, pump, batch, after, last, queue, left, painted, torn, displaced,
    herdr, now, live, restored, dirty, file, job, said, view, ids, stops,
    fleet, branch, listener, wake, stream, trees, shown, since, ticks,
    subagent, hooks, spoolOf, entries, reported, sending, badge, pass, beats,
    troubles, doubt, clockMs, liveEp, worker, rowsKept, queries, lostRows>>
EditedRest == <<part, pool, session, sent, framed, up, inbox, outbox, handler,
    observes, task, closed, told, total, faults, buffer, made, dropped, ended,
    known, pump, batch, after, last, queue, left, painted, torn, displaced,
    herdr, now, live, restored, dirty, file, job, said, view, ids, stops,
    fleet, branch, listener, wake, stream, trees, shown, since, ticks,
    subagent, hooks, spoolOf, entries, reported, sending, badge, pass, beats,
    troubles, doubt, clockMs, liveEp, worker, rowsKept, queries, lostRows>>
RerunRest == <<part, pool, session, sent, framed, up, inbox, outbox, handler,
    observes, task, closed, told, total, faults, buffer, made, dropped, ended,
    known, pump, batch, after, last, queue, left, painted, torn, displaced,
    herdr, now, live, restored, dirty, file, job, said, view, ids, stops,
    fleet, branch, listener, wake, stream, trees, shown, since, ticks,
    subagent, hooks, spoolOf, entries, reported, sending, badge, pass, beats,
    troubles, doubt, clockMs, liveEp, worker, rowsKept, queries, lostRows>>
BothRest == <<part, pool, session, sent, framed, up, inbox, outbox, handler,
    observes, task, closed, told, total, faults, buffer, made, dropped, ended,
    known, pump, batch, after, last, queue, left, painted, torn, displaced,
    herdr, now, live, restored, dirty, file, job, said, view, ids, stops,
    fleet, branch, listener, wake, stream, trees, shown, since, ticks,
    subagent, hooks, spoolOf, entries, reported, sending, badge, pass, beats,
    troubles, doubt, clockMs, liveEp, worker, rowsKept, queries, lostRows>>
ListedRest == <<part, pool, session, sent, framed, up, inbox, outbox, handler,
    observes, task, closed, told, total, faults, buffer, made, dropped, ended,
    known, pump, batch, after, last, queue, left, painted, torn, displaced,
    herdr, now, live, restored, dirty, file, job, said, view, ids, stops,
    fleet, branch, listener, wake, stream, trees, shown, since, ticks,
    subagent, hooks, spoolOf, entries, reported, sending, badge, pass, beats,
    troubles, doubt, clockMs, liveEp, worker, rowsKept, queries, lostRows>>
HistRest == <<part, pool, session, sent, framed, up, inbox, outbox, handler,
    observes, task, told, total, faults, buffer, made, dropped, ended, known,
    pump, batch, after, last, left, painted, torn, displaced, herdr, now,
    live, restored, dirty, timer, file, job, said, view, ids, stops, fleet,
    branch, listener, wake, stream, trees, shown, since, ticks, subagent,
    hooks, spoolOf, entries, reported, sending, badge, pass, beats, troubles,
    doubt, doc, token, detail, lastStatus, advertised, duties, line, holder,
    panes, wire, conn, knows, draft, alert, unseen, used>>

TermsSteps == part = "terminals" /\ Terms!Next /\ UNCHANGED TermsRest
StreamSteps == part = "stream" /\ Stream!Next /\ UNCHANGED StreamRest
ClockSteps == part = "clock" /\ Clock!Next /\ UNCHANGED ClockRest
ListsSteps == part = "lists" /\ Lists!Next /\ UNCHANGED ListsRest
FeedSteps == part = "feed" /\ Feed!Next /\ UNCHANGED FeedRest
HooksSteps == part = "hooks" /\ Hooks!Next /\ UNCHANGED HooksRest
OwnerSteps == part = "owner" /\ Owner!Next /\ UNCHANGED OwnerRest
DraftsSteps == part = "drafts" /\ Drafts!Next /\ UNCHANGED DraftsRest
EditedSteps == part = "edited" /\ Edited!Next /\ UNCHANGED EditedRest
RerunSteps == part = "rerun" /\ Rerun!Next /\ UNCHANGED RerunRest
BothSteps == part = "owners" /\ Both!Next /\ UNCHANGED BothRest
ListedSteps == part = "listed" /\ Listed!Next /\ UNCHANGED ListedRest
HistSteps == part = "history" /\ Hist!Next /\ UNCHANGED HistRest

Next == TermsSteps \/ StreamSteps \/ ClockSteps \/ ListsSteps \/ FeedSteps \/
        HooksSteps \/ OwnerSteps \/ DraftsSteps \/ EditedSteps \/ RerunSteps \/
        BothSteps \/ ListedSteps \/ HistSteps

vars == <<part, pool, session, sent, framed, up, inbox, outbox, handler, observes,
          task, closed, told, total, faults, buffer, made, dropped, ended, known,
          pump, batch, after, last, queue, left, painted, torn, displaced, herdr,
          now, live, restored, dirty, timer, file, job, said, view, ids, stops,
          fleet, branch, listener, wake, stream, trees, shown, since, ticks,
          subagent, hooks, spoolOf, entries, reported, sending, badge, pass,
          beats, troubles, doubt, doc, token, detail, lastStatus, advertised,
          duties, line, holder, panes, wire, conn, knows, draft, alert, unseen,
          used, clockMs, liveEp, worker, rowsKept, queries, lostRows>>

Spec == Init /\ [][Next]_vars

\* Every part keeps its types.
TypeOK ==
  /\ part = "terminals" => Terms!TypeOK
  /\ part = "stream" => Stream!TypeOK
  /\ part = "clock" => Clock!TypeOK
  /\ part = "lists" => Lists!TypeOK
  /\ part = "feed" => Feed!TypeOK
  /\ part = "hooks" => Hooks!TypeOK
  /\ part = "owner" => Owner!TypeOK
  /\ part = "drafts" => Drafts!TypeOK
  /\ part = "edited" => Edited!TypeOK
  /\ part = "rerun" => Rerun!TypeOK
  /\ part = "owners" => Both!TypeOK
  /\ part = "listed" => Listed!TypeOK
  /\ part = "history" => Hist!TypeOK

\* Observes are counted, limited, and end with their viewers; a browser that
\* lags paints no torn screen and hears of the end.
TerminalsAreWhole ==
  /\ part = "terminals" => Terms!TerminalsAccounted
  /\ part = "stream" => Stream!StreamIsWhole

\* However often the bridge lists and restarts, a block is one episode.
\* Terminals keep clocks of their own, and a clock that changed is due to be
\* written, whatever lists overtake each other and however the bridge ends.
ClocksAreKept ==
  /\ part = "clock" => Clock!OneEpisodePerBlock
  /\ part = "lists" => Lists!TerminalsApart /\ Lists!SaveIsDue

\* A subagent that stopped is not made active by a late hook.
StopIsFinal ==
  [][part = "hooks" => Hooks!StaysStopped]_vars

\* What the bridge lists follows the panes and branches of herdr over dropped
\* subscriptions and failed reads; a badge counts the subagents that run; the
\* history counts an interval once and answers though its worker failed.
FleetIsTrue ==
  /\ part = "feed" => Feed!ListIsCurrent
  /\ part = "hooks" => Hooks!DoneHasEnded /\ Hooks!BadgeIsTrue
  /\ part = "owner" => Owner!TelegramHasOneOwner
  /\ part = "edited" => Edited!TelegramHasOneOwner
  /\ part = "drafts" => Drafts!TelegramHasOneOwner
  /\ part = "rerun" => Rerun!TelegramHasOneOwner
  /\ part = "owners" => Both!TelegramHasOneOwner
  /\ part = "listed" => Listed!TelegramHasOneOwner
  /\ part = "history" => Hist!HistoryIsExact
==============================================================================
