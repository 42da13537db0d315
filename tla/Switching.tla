------------------------------ MODULE Switching ------------------------------
(***************************************************************************)
(* How the runtime changes its source (deckapp/server.py, watcher.py,       *)
(* onboarding.py): the transactions of /setup/connect, which build, save    *)
(* and swap with a rollback, and the reload after an edit, which the config *)
(* watcher fires.  One lock serializes them; edits by hand, failures and a  *)
(* crash come at any point.                                                 *)
(***************************************************************************)
EXTENDS Integers, Sequences

CONSTANTS
    Choices,      \* the connects tried: demo, local, sessions (with the saved
                  \* connection: both), remote, saved
    MaxConnects, MaxEdits, MaxFails, MaxCrashes,   \* bounds; no edit by hand
                  \* comes while a connect is between reading and writing
    SessionsFail  \* whether the sessions' frame may not render

VARIABLES
    files,     \* config.toml and local.toml: mtime, edit, a server in it, sessions selected
    secret,    \* the edit whose token the keychain holds, or 0
    marker,    \* onboarding.toml: none, local, demo
    app,       \* the source on the deck: its kind, the edit it was built from, its bridges
    running,   \* the bridges that run, and the sources whose connectors run
    reloader,  \* _reloader
    baseline,  \* the mtime the watcher adopted
    holder,    \* who holds _setup_lock, and where it is
    tx,        \* the connect that holds it
    counts     \* bounds, and the fresh numbers; history: what a rollback did not restore

switchVars == <<files, secret, marker, app, running, reloader, baseline, holder, tx, counts>>

NoTx == [choice |-> "none"]
Kinds == {"mock", "local", "remote"}
TypeOK ==
  /\ files.edit <= counts.edits /\ secret <= counts.edits + 1 /\ marker \in {"none", "local", "demo"}
  /\ app.kind \in Kinds /\ app.how \in {"saved", "promoted", "failed", "ignored", "swallowed"} /\ app.bridges \subseteq 1..counts.ids /\ reloader \in Kinds
  /\ running.bridges \subseteq 1..counts.ids /\ running.sources \subseteq 0..counts.ids
  /\ baseline <= files.mtime
  /\ holder \in {"none", "builds", "saves", "rolls back", "swapped", "ends", "watcher"}
  /\ tx.choice \in Choices \cup {"none", "reload"}

\* The source a start selects.
\* select_source_kind: the marker before a remote of the config.
SelectedKind(m, server, up) ==
  IF m = "local" THEN IF up THEN "local" ELSE "mock"
  ELSE IF m = "demo" THEN "mock" ELSE IF server THEN "remote" ELSE "mock"

Init ==
  /\ files = [mtime |-> 0, edit |-> 0, server |-> FALSE, sel |-> FALSE]
  /\ secret = 0 /\ marker = "none" /\ baseline = 0 /\ holder = "none" /\ tx = NoTx
  /\ app = [kind |-> "mock", id |-> 0, built |-> 0, bridges |-> {}, how |-> "saved"]
  /\ running = [bridges |-> {}, sources |-> {0}] /\ reloader = "mock"
  /\ counts = [edits |-> 0, ids |-> 0, connects |-> 0, byhand |-> 0, fails |-> 0, crashes |-> 0, lost |-> {}]

Touch(f) == [f EXCEPT !.mtime = @ + 1]
Fails == counts.fails < MaxFails
Fail == Fails /\ counts' = [counts EXCEPT !.fails = @ + 1]
----------------------------------------------------------------------------
\* An edit by hand: it adds or takes the server, or selects a session.
Edit ==
  /\ counts.byhand < MaxEdits /\ holder \in {"none", "watcher"}
  /\ counts' = [counts EXCEPT !.byhand = @ + 1, !.edits = @ + 1]
  /\ \E server \in BOOLEAN, sel \in BOOLEAN :
       files' = [mtime |-> files.mtime + 1, edit |-> counts.edits + 1, server |-> server, sel |-> sel]
  /\ UNCHANGED <<secret, marker, app, running, reloader, baseline, holder, tx>>

\* What a connect saves, in its order.
\* A bug: the config before the token it needs.
SavesConfigFirst(choice) ==
  CASE choice = "remote" -> <<"config", "secret", "clear">>
    [] choice = "local" -> <<"marker", "sessions">>
    [] choice = "sessions" -> <<"sessions", "marker">>
    [] choice = "both" -> <<"sessions", "clear">>
    [] choice = "demo" -> <<"marker">>
    [] OTHER -> <<"clear">>
Saves(choice) ==
  CASE choice = "remote" -> <<"secret", "config", "clear">>
    [] choice = "local" -> <<"marker", "sessions">>
    [] choice = "sessions" -> <<"sessions", "marker">>
    [] choice = "both" -> <<"sessions", "clear">>
    [] choice = "demo" -> <<"marker">>
    [] OTHER -> <<"clear">>

KindOf(choice) == IF choice \in {"remote", "saved", "both"} THEN "remote" ELSE IF choice = "demo" THEN "mock" ELSE "local"

OfSessions(choice) == choice \in {"sessions", "both"}

\* connect: the bridges are started and the source is built before anything is
\* saved; a saved connection must be there.
Connect(choice) ==
  /\ holder = "none" /\ counts.connects < MaxConnects /\ holder' = "builds"
  /\ choice \in {"saved", "both"} => files.server
  /\ LET id == counts.ids + 1 IN
       \E own \in (IF choice = "demo" THEN {{}}
                   ELSE IF choice = "sessions" THEN {{}, {id}}
                   ELSE IF choice \in {"local", "both"} \/ files.sel THEN {{id}} ELSE {{}}) :
         /\ tx' = [choice |-> choice, id |-> id, own |-> own, todo |-> Saves(choice), read |-> files.edit,
                   prior |-> [files |-> files, secret |-> secret, marker |-> marker]]
         /\ running' = [bridges |-> running.bridges \cup own, sources |-> running.sources \cup {id}]
  /\ counts' = [counts EXCEPT !.connects = @ + 1, !.ids = @ + 1]
  /\ UNCHANGED <<files, secret, marker, app, reloader, baseline>>

\* What a connect restores, in its order: the files before the token.
Undoes(choice) ==
  CASE choice = "remote" -> <<"files", "secret">>
    [] choice = "local" -> <<"marker", "files">>
    [] OfSessions(choice) -> <<"files", "marker">>
    [] OTHER -> <<"marker">>

\* The new source did not render: what was started is closed, but for the
\* source of the chosen sessions.  Some restore what they have not written yet.
ClosesNew(t) ==
  [bridges |-> running.bridges \ t.own, sources |-> running.sources \ {t.id}]
BuildFails ==
  /\ holder = "builds" /\ Fail /\ (OfSessions(tx.choice) => SessionsFail)
  /\ CASE OfSessions(tx.choice) ->
            holder' = "none" /\ tx' = NoTx /\ running' = [running EXCEPT !.bridges = @ \ tx.own]
       [] tx.choice = "remote" -> holder' = "ends" /\ running' = ClosesNew(tx) /\ UNCHANGED tx
       [] OTHER -> holder' = "rolls back" /\ tx' = [tx EXCEPT !.todo = Undoes(tx.choice)] /\ UNCHANGED running
  /\ UNCHANGED <<files, secret, marker, app, reloader, baseline>>
\* _prepare_swap
Built ==
  /\ holder = "builds" /\ holder' = "saves"
  /\ UNCHANGED <<files, secret, marker, app, running, reloader, baseline, tx, counts>>

Save ==
  /\ holder = "saves" /\ tx.todo # << >>
  /\ LET new == counts.edits + 1
         writes == Head(tx.todo) \in {"config", "sessions"} IN
       /\ secret' = IF Head(tx.todo) = "secret" THEN new ELSE secret
       /\ marker' = CASE Head(tx.todo) = "marker" -> IF tx.choice = "demo" THEN "demo" ELSE "local"
                      [] Head(tx.todo) = "clear" -> "none"
                      [] OTHER -> marker
       /\ files' = CASE Head(tx.todo) = "config" -> [Touch(files) EXCEPT !.edit = new, !.server = TRUE]
                     [] Head(tx.todo) = "sessions" -> [Touch(files) EXCEPT !.edit = new, !.sel = TRUE]
                     [] OTHER -> files
       /\ tx' = [tx EXCEPT !.todo = Tail(@), !.read = IF writes THEN new ELSE @]
       /\ counts' = [counts EXCEPT !.edits = IF writes THEN @ + 1 ELSE @,
                                    !.lost = @ \ (IF Head(tx.todo) \in {"marker", "clear"} THEN {"marker"} ELSE {})]
  /\ UNCHANGED <<app, running, reloader, baseline, holder>>
SaveFails ==
  /\ holder = "saves" /\ tx.todo # << >> /\ Fail /\ holder' = "rolls back"
  /\ tx' = [tx EXCEPT !.todo = IF Head(@) = "secret" THEN <<"secret">> ELSE Undoes(tx.choice)]
  /\ UNCHANGED <<files, secret, marker, app, running, reloader, baseline>>

\* A bug: the token of a failed connect stays.
KeepsSecret(t) == secret
PriorSecret(t) == t.prior.secret
\* _rollback, _restore_file, _restore_secret, _restore_choice, one after the other:
\* each is done as well as it can be, and nobody hears of one that fails.  A file is
\* written again, with a new mtime.
RollBack ==
  /\ holder = "rolls back" /\ tx.todo # << >> /\ tx' = [tx EXCEPT !.todo = Tail(@)]
  /\ LET part == Head(tx.todo) IN
       \/ /\ files' = IF part = "files" THEN [tx.prior.files EXCEPT !.mtime = files.mtime + 1] ELSE files
          /\ secret' = IF part = "secret" THEN PriorSecret(tx) ELSE secret
          /\ marker' = IF part = "marker" THEN tx.prior.marker ELSE marker
          /\ UNCHANGED counts
       \/ /\ Fails /\ counts' = [counts EXCEPT !.fails = @ + 1, !.lost = @ \cup {part}]
          /\ UNCHANGED <<files, secret, marker>>
  /\ UNCHANGED <<app, running, reloader, baseline, holder>>
RolledBack ==
  /\ holder = "rolls back" /\ tx.todo = << >> /\ holder' = "ends" /\ running' = ClosesNew(tx)
  /\ UNCHANGED <<files, secret, marker, app, reloader, baseline, tx, counts>>

\* _commit_swap closes the source that was on the deck.
Swapped(kind, id, built, own, how) ==
  app' = [kind |-> kind, id |-> id, built |-> built, bridges |-> own, how |-> how]
Commit ==
  /\ holder = "saves" /\ tx.todo = << >> /\ holder' = "swapped"
  /\ Swapped(IF tx.own = {} /\ tx.choice = "sessions" THEN "mock" ELSE KindOf(tx.choice), tx.id, tx.read, tx.own, "saved")
  /\ running' = [running EXCEPT !.sources = @ \ {app.id}]
  /\ UNCHANGED <<files, secret, marker, reloader, baseline, tx, counts>>
\* _set_local_bridges: the bridges the new source does not use are closed.
Adopt ==
  /\ holder = "swapped" /\ holder' = "ends" /\ reloader' = KindOf(tx.choice)
  /\ running' = [running EXCEPT !.bridges = @ \cap app.bridges]
  /\ UNCHANGED <<files, secret, marker, app, baseline, tx, counts>>

\* A local connect saves the session and leaves it to the watcher.
Resyncs(choice) == OfSessions(choice) \/ choice = "remote"
\* The lock is released; the connects that write the files adopt what is there,
\* also an edit that they do not apply.
Done ==
  /\ holder = "ends" /\ holder' = "none" /\ tx' = NoTx
  /\ IF Resyncs(tx.choice)
     THEN /\ baseline' = files.mtime
          /\ app' = IF app.built # files.edit THEN [app EXCEPT !.how = "swallowed"] ELSE app
     ELSE UNCHANGED <<baseline, app>>
  /\ UNCHANGED <<files, secret, marker, running, reloader, counts>>
----------------------------------------------------------------------------
\* A bug: the files are adopted after the reload.
AdoptsAfter(b) == files.mtime
AdoptsAtEnd(b) == b
\* _watcher_reload: the files really differ, and they are adopted before they
\* are read.
WatcherFires ==
  /\ holder = "none" /\ baseline # files.mtime /\ holder' = "watcher" /\ baseline' = files.mtime
  /\ tx' = [choice |-> "reload", files |-> files]
  /\ UNCHANGED <<files, secret, marker, app, running, reloader, counts>>

WatcherEnds ==
  holder' = "none" /\ tx' = NoTx /\ baseline' = AdoptsAtEnd(baseline) /\ UNCHANGED <<secret, marker, files>>
NewId == counts' = [counts EXCEPT !.ids = @ + 1]

\* _remote_reloader: with the selected sessions, or back to the demo.
ReloadRemote ==
  /\ holder = "watcher" /\ reloader = "remote"
  /\ LET id == counts.ids + 1
         own == IF tx.files.sel /\ tx.files.server THEN {id} ELSE {} IN
       /\ Swapped(IF tx.files.server THEN "remote" ELSE "mock", id, tx.files.edit, own, "saved")
       /\ running' = [bridges |-> own, sources |-> {id}]
  /\ NewId /\ WatcherEnds /\ UNCHANGED reloader

\* _local_reloader: on the bridges that run when they are the ones selected.
ReloadLocal ==
  /\ holder = "watcher" /\ reloader = "local"
  /\ LET id == counts.ids + 1 IN
       \E own \in {app.bridges} \cup (IF tx.files.sel THEN {{id}} ELSE {}) :
         /\ own # {}
         /\ Swapped("local", id, tx.files.edit, own, IF app.how = "promoted" THEN "promoted" ELSE "saved")
         /\ running' = [bridges |-> own, sources |-> {id}]
  /\ NewId /\ WatcherEnds /\ UNCHANGED reloader

\* With neither a bridge nor a session that is there, it does nothing.
ReloadNothing ==
  /\ holder = "watcher" /\ reloader = "local" /\ app.bridges = {}
  /\ app' = [app EXCEPT !.how = "ignored"] /\ WatcherEnds /\ UNCHANGED <<running, reloader, counts>>

\* _mock_reloader: sessions that were selected meanwhile promote the demo to
\* local; else the source is selected as at a start.
ReloadMock ==
  /\ holder = "watcher" /\ reloader = "mock"
  /\ LET id == counts.ids + 1 IN
       \/ /\ tx.files.sel /\ Swapped("local", id, tx.files.edit, {id}, "promoted") /\ reloader' = "local"
          /\ running' = [bridges |-> {id}, sources |-> {id}]
       \/ /\ Swapped(IF marker = "local" THEN "mock" ELSE SelectedKind(marker, tx.files.server, FALSE),
                     id, tx.files.edit, {}, "saved")
          /\ running' = [running EXCEPT !.sources = {id}] /\ UNCHANGED reloader
  /\ NewId /\ WatcherEnds

\* The reload raised: nothing was swapped, and the edit counts as handled.
ReloadFails ==
  /\ holder = "watcher" /\ Fail /\ app' = [app EXCEPT !.how = "failed"]
  /\ WatcherEnds /\ UNCHANGED <<running, reloader>>

\* _resolve_source_kind: with a socket that is alive or not.
StartsAs(up) == SelectedKind(marker, files.server, up)

\* The process dies anywhere and starts on what is on disk (create_app).
Crash ==
  /\ counts.crashes < MaxCrashes
  /\ \E up \in BOOLEAN :
       LET id == counts.ids + 1
           kind == StartsAs(up)
           own == IF kind = "local" \/ (kind = "remote" /\ files.sel) THEN {id} ELSE {} IN
         /\ Swapped(kind, id, files.edit, own, "saved") /\ reloader' = kind
         /\ running' = [bridges |-> own, sources |-> {id}]
  /\ counts' = [counts EXCEPT !.crashes = @ + 1, !.ids = @ + 1]
  /\ baseline' = files.mtime /\ holder' = "none" /\ tx' = NoTx
  /\ UNCHANGED <<files, secret, marker>>

Next ==
  \/ Edit \/ \E choice \in Choices : Connect(choice)
  \/ BuildFails \/ Built \/ Save \/ SaveFails \/ RollBack \/ RolledBack \/ Commit \/ Adopt \/ Done
  \/ WatcherFires \/ ReloadRemote \/ ReloadLocal \/ ReloadNothing
  \/ ReloadMock \/ ReloadFails \/ Crash
Spec == Init /\ [][Next]_switchVars
----------------------------------------------------------------------------
Rests == holder = "none"

\* A failed or finished connect leaves no connector or bridge running that the
\* deck does not use (comment of connect: "don't leak the built source").
NothingLeaks == Rests => running.sources = {app.id} /\ running.bridges = app.bridges

\* The deck is never left on a source that was closed, or whose bridge was.
NeverStranded == app.id \in running.sources /\ app.bridges \subseteq running.bridges

\* A start finds what runs: the mode a connect saved, or the mock of a local mode
\* that is not there.  (Sessions selected by hand save no mode, a reload that raised
\* is not tried again, and a mode that was not restored stays.)
StartFindsIt ==
  (Rests /\ baseline = files.mtime /\ app.how = "saved" /\ "marker" \notin counts.lost) =>
    \/ app.kind = SelectedKind(marker, files.server, TRUE)
    \/ marker = "local" /\ app.kind = "mock"

\* A config that a connect wrote has its token, at every point where the process
\* may die, also within a rollback: "never leaving a serverful-but-tokenless config"
\* (_commit_remote), as far as the files could be restored.
TokenIsThere ==
  (/\ tx # NoTx /\ tx.choice = "remote" /\ files.edit # tx.prior.files.edit
   /\ "files" \notin counts.lost) => secret >= files.edit

\* An edit by hand is on the deck, once the watcher is quiet: unless its reload
\* raised or found nothing to build on, or a connect that failed adopted it.
EditsAreApplied == (Rests /\ baseline = files.mtime /\ app.how \in {"saved", "promoted"}) => app.built = files.edit

\* "an external edit to the config files triggers an in-app reload" (create_app),
\* if that reload can be made.
EditsReload ==
  (Rests /\ baseline = files.mtime /\ app.how \notin {"failed", "ignored"}) => app.built = files.edit

SwitchesWhole == NothingLeaks /\ NeverStranded /\ StartFindsIt /\ TokenIsThere /\ EditsAreApplied

\* A connect that fails leaves the files, the token and the mode as they were, each
\* that could be restored whatever became of the others.
FailureChangesNothing ==
  (holder = "rolls back" /\ holder' = "ends") =>
    /\ "files" \in counts.lost \/ [files' EXCEPT !.mtime = 0] = [tx.prior.files EXCEPT !.mtime = 0]
    /\ "secret" \in counts.lost \/ secret' = tx.prior.secret
    /\ "marker" \in counts.lost \/ marker' = tx.prior.marker
    /\ app' = app
FailuresRollBack == [][FailureChangesNothing]_switchVars
==============================================================================
