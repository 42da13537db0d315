----------------------------- MODULE ConfigFiles -----------------------------
(***************************************************************************)
(* The configuration on disk and who changes it (settings.py, config.py,     *)
(* deckapp/config_service.py, deckapp/server.py).  config.toml and local.toml *)
(* are read as a pair and written one after the other: by an editor that      *)
(* read them earlier, by a switch of the profile, and by hand.  The deck runs *)
(* on what the active profile resolves to, and a watcher reloads it.          *)
(***************************************************************************)
EXTENDS Integers, Sequences, SequencesExt, FiniteSets, FiniteSetsExt

CONSTANTS
    Editors,       \* those that read and write through the runtime
    Blind,         \* of them those that send no revision (the tray's switch)
    Starts,        \* the profiles config.toml has at first
    MaxChanges, MaxFaults,   \* bounds
    SlowReads,     \* whether the files may change while they are read
    HandsAnytime   \* whether an edit by hand may come while the runtime writes

VARIABLES
    config,    \* config.toml: its section, its server, its profiles, its changes
    local,     \* local.toml: the profile it selects, its changes
    tokens,    \* where the server's token is: environment, token file, keychain
    mtime,     \* of the files that are watched
    holder,    \* who holds _setup_lock, and where it is
    editors,   \* what each editor has read
    deck,      \* what the runtime shows
    watched,   \* the watcher's baseline: mtime, and the error of the config
    kept,      \* the changes whose writer was told that they are saved
    budget     \* bounds, and the number of the last change

configVars == <<config, local, tokens, mtime, holder, editors, deck, watched, kept, budget>>

Names == {"p", "q"}
Fields == {"f", "g"}
Sections == UNION {[F -> {0, 1}] : F \in SUBSET Fields}   \* a table with some fields
Profile(extends, section) == [ext |-> extends, sec |-> section, sel |-> FALSE]
None == "none"
Nobody == [who |-> None, at |-> "free"]
----------------------------------------------------------------------------
\* _profile_overlays: the profile and those it extends, the base-most first.
Broken == <<"error">>
\* The names reached from one by "extends"; a chain is no longer than the profiles.
Above(profiles, name) ==
  LET up[n \in 0..Cardinality(DOMAIN profiles)] ==
        IF n = 0 THEN name
        ELSE IF up[n - 1] \in DOMAIN profiles THEN profiles[up[n - 1]].ext ELSE up[n - 1]
  IN up
Overlays(profiles, name) ==
  LET up == Above(profiles, name)
      ends == {n \in DOMAIN up : up[n] \in {None, "default"}}
  IN IF ends = {} THEN Broken ELSE [i \in 1..Min(ends) |-> up[Min(ends) - i]]

\* A bug: what is below wins.
MergeUnder(base, overlay) == base @@ overlay
\* _merge_section: the tables merge field by field.
Merge(base, overlay) == overlay @@ base
\* _merged_sections
Merged(c, chain) == FoldLeft(LAMBDA sec, n : Merge(sec, c.profiles[n].sec), c.sec, chain)

\* resolve_server_token: the environment, the file, the keychain.
TokenOf(t) == IF t.env # None THEN t.env ELSE IF t.file THEN "real" ELSE IF t.keychain THEN "real" ELSE None

\* _active_profile_name
Active(c, l) == IF l.active # None THEN l.active ELSE IF c.legacy # None THEN c.legacy ELSE "default"

\* _server_config: the token is looked up, or assumed.
Served(c, t, assume) == IF ~c.server THEN None ELSE IF assume THEN "x" ELSE TokenOf(t)

\* resolve_profile, _build_config: a profile may select a server the base lost.
Failed(why) == [ok |-> FALSE, profile |-> why, sec |-> << >>, token |-> None]
Resolve(c, name, t, assume) ==
  LET chain == Overlays(c.profiles, name) IN
    IF chain = Broken THEN Failed("profile")
    ELSE IF ~c.server /\ \E i \in DOMAIN chain : c.profiles[chain[i]].sel THEN Failed("server")
    ELSE IF c.server /\ Served(c, t, assume) = None THEN Failed("token")
    ELSE [ok |-> TRUE, profile |-> name, sec |-> Merged(c, chain), token |-> Served(c, t, assume)]

\* validate_settings, with every token assumed: the active profile and each one.
Sound(c, l) ==
  \A name \in DOMAIN c.profiles \cup {Active(c, l)} : Resolve(c, name, tokens, TRUE).ok

\* select_live: a config that resolves, with a server and its token.
Live(r) == r.ok /\ r.token # None
\* _fallback_source: else the error, or the demo.
Shown(c, l, t) ==
  LET r == Resolve(c, Active(c, l), t, FALSE) IN
    [kind |-> IF Live(r) THEN "live" ELSE IF ~r.ok THEN "error" ELSE "demo",
     profile |-> r.profile, sec |-> r.sec, token |-> r.token]
----------------------------------------------------------------------------
TypeOK ==
  /\ config.sec \in Sections /\ DOMAIN config.profiles \subseteq Names /\ config.legacy \in Names \cup {None}
  /\ local.active \in Names \cup {None, "default"} /\ config.marks \cup local.marks \subseteq 1..MaxChanges
  /\ tokens.env \in {None, "x", "real"} /\ mtime \in Nat /\ watched.mtime <= mtime
  /\ holder.at \in {"free", "validates", "writes", "half", "reads", "resyncs", "fires"}
  /\ \A e \in Editors : editors[e].at \in {"away", "local", "config", "pair", "edits"}
  /\ deck.kind \in {"live", "error", "demo"} /\ kept \subseteq 1..MaxChanges

NoDoc == [at |-> "away"]
Init ==
  \E profiles \in Starts, legacy \in {None, "p"} :
    /\ config = [sec |-> [f \in Fields |-> 0], server |-> TRUE, profiles |-> profiles,
                 legacy |-> legacy, marks |-> {}]
    /\ local = [active |-> None, marks |-> {}]
    /\ tokens = [env |-> None, file |-> FALSE, keychain |-> TRUE]
    /\ mtime = 0 /\ holder = Nobody /\ editors = [e \in Editors |-> NoDoc]
    /\ deck = Shown(config, local, tokens) /\ watched = [mtime |-> 0, error |-> deck.kind = "error"]
    /\ kept = {} /\ budget = [changes |-> 0, faults |-> 0]

Free == holder = Nobody
\* A change is a number that stays in the file it was made in.
MayChange == budget.changes < MaxChanges
Change == budget' = [budget EXCEPT !.changes = @ + 1]
Mark(file) == [file EXCEPT !.marks = @ \cup {budget.changes + 1}]

\* What an edit makes of config.toml: a field, a profile and what it extends,
\* a profile less, the server.
Additions == {Profile(up, "g" :> 1) : up \in Names} \cup {[Profile(None, "g" :> 1) EXCEPT !.sel = TRUE]}
Edits(c) ==
  {[c EXCEPT !.sec = [@ EXCEPT !["f"] = 1]], [c EXCEPT !.server = ~@]}
  \cup {[c EXCEPT !.profiles = (n :> new) @@ @] : n \in Names, new \in Additions}
  \cup {[c EXCEPT !.profiles = [n \in DOMAIN @ \ {gone} |-> @[n]]] : gone \in DOMAIN c.profiles}
Selections == Names \cup {"default"}
----------------------------------------------------------------------------
\* ConfigService.read drops a selection that names no profile.
\* A bug: it is handed to the editor.
KeepsDangling(l, c) == l
WithoutDangling(l, c) ==
  IF l.active \in {None, "default"} \cup DOMAIN c.profiles THEN l ELSE [l EXCEPT !.active = None]

\* GET /config holds no lock: local.toml, config.toml, and the revision last.
Read(e) ==
  /\ editors[e] = NoDoc /\ MayChange
  /\ editors' = [editors EXCEPT ![e] =
       IF SlowReads THEN [at |-> "local", local |-> local]
       ELSE [at |-> "pair", config |-> config, local |-> WithoutDangling(local, config), rev |-> <<config, local>>]]
  /\ UNCHANGED <<config, local, tokens, mtime, holder, deck, watched, kept, budget>>
ReadConfig(e) ==
  /\ editors[e].at = "local"
  /\ editors' = [editors EXCEPT ![e] = [at |-> "config", config |-> config, local |-> WithoutDangling(@.local, config)]]
  /\ UNCHANGED <<config, local, tokens, mtime, holder, deck, watched, kept, budget>>
ReadRevision(e) ==
  /\ editors[e].at = "config"
  /\ editors' = [editors EXCEPT ![e] = [at |-> "pair", config |-> @.config, local |-> @.local, rev |-> <<config, local>>]]
  /\ UNCHANGED <<config, local, tokens, mtime, holder, deck, watched, kept, budget>>

EditConfig(e) ==
  /\ editors[e].at = "pair" /\ MayChange /\ Change
  /\ \E c \in Edits(editors[e].config) :
       editors' = [editors EXCEPT ![e] = [@ EXCEPT !.at = "edits", !.config = Mark(c)]]
  /\ UNCHANGED <<config, local, tokens, mtime, holder, deck, watched, kept>>
EditLocal(e) ==
  /\ editors[e].at = "pair" /\ MayChange /\ Change
  /\ editors' = [editors EXCEPT ![e] = [@ EXCEPT !.at = "edits", !.local = Mark(@)]]
  /\ UNCHANGED <<config, local, tokens, mtime, holder, deck, watched, kept>>
----------------------------------------------------------------------------
\* ConfigService.write: only onto the pair that was read.
\* A bug: only config.toml counts.
FreshConfig(doc) == doc.rev[1] = config
Fresh(doc) == doc.rev = <<config, local>>

Gone(e) == editors' = [editors EXCEPT ![e] = NoDoc]
Rejected(e) ==
  /\ Free /\ editors[e].at = "edits" /\ e \notin Blind /\ ~Fresh(editors[e]) /\ Gone(e)
  /\ UNCHANGED <<config, local, tokens, mtime, holder, deck, watched, kept, budget>>
\* _structural_errors: a token that is not there is in the environment meanwhile.
Validate(e) ==
  /\ Free /\ editors[e].at = "edits" /\ (e \in Blind \/ Fresh(editors[e]))
  /\ holder' = [who |-> e, at |-> "validates"]
  /\ tokens' = IF tokens.env = None THEN [tokens EXCEPT !.env = "x"] ELSE tokens
  /\ UNCHANGED <<config, local, mtime, editors, deck, watched, kept, budget>>
\* A bug: the placeholder stays.
LeavesPlaceholder(t) == t
Restored(t) == IF t.env = "x" THEN [t EXCEPT !.env = None] ELSE t
Validated(e) ==
  /\ holder = [who |-> e, at |-> "validates"] /\ tokens' = Restored(tokens)
  /\ IF Sound(editors[e].config, editors[e].local)
     THEN holder' = [holder EXCEPT !.at = "writes"] /\ UNCHANGED editors
     ELSE holder' = Nobody /\ Gone(e)
  /\ UNCHANGED <<config, local, mtime, deck, watched, kept, budget>>
WriteConfig(e) ==
  /\ holder = [who |-> e, at |-> "writes"] /\ holder' = [holder EXCEPT !.at = "half"]
  /\ config' = editors[e].config /\ mtime' = mtime + 1
  /\ UNCHANGED <<local, tokens, editors, deck, watched, kept, budget>>
WriteLocal(e) ==
  /\ holder = [who |-> e, at |-> "half"] /\ holder' = [holder EXCEPT !.at = "reads"]
  /\ local' = editors[e].local /\ mtime' = mtime + 1 /\ Gone(e)
  /\ kept' = kept \cup (editors[e].config.marks \cup editors[e].local.marks)
  /\ UNCHANGED <<config, tokens, deck, watched, budget>>
\* An OSError of either file: the write ends as far as it came, unreloaded.
WriteFails(e) ==
  /\ holder.who = e /\ holder.at \in {"writes", "half"} /\ budget.faults < MaxFaults
  /\ holder' = Nobody /\ Gone(e) /\ budget' = [budget EXCEPT !.faults = @ + 1]
  /\ UNCHANGED <<config, local, tokens, mtime, deck, watched, kept>>

\* set_active_profile: a profile that is there and resolves; local.toml is
\* written again from what was read.  The route leaves the reload to the
\* watcher, the key of the deck reloads itself.
SwitchProfile(name, fromDeck) ==
  /\ Free /\ MayChange /\ name \in DOMAIN config.profiles \cup {"default"}
  /\ Resolve(config, name, tokens, FALSE).ok
  /\ local' = [Mark(local) EXCEPT !.active = name] /\ mtime' = mtime + 1 /\ Change
  /\ kept' = kept \cup {budget.changes + 1}
  /\ holder' = IF fromDeck THEN [who |-> "deck", at |-> "reads"] ELSE Nobody
  /\ UNCHANGED <<config, tokens, editors, deck, watched>>

\* reload and resync, under the lock of the write: the files are read, and what
\* is there afterwards is adopted.
Reload ==
  /\ holder.at = "reads" /\ deck' = Shown(config, local, tokens)
  /\ holder' = [holder EXCEPT !.at = "resyncs"]
  /\ UNCHANGED <<config, local, tokens, mtime, editors, watched, kept, budget>>
Resync ==
  /\ holder.at = "resyncs" /\ holder' = Nobody
  /\ watched' = [mtime |-> mtime, error |-> deck.kind = "error"]
  /\ UNCHANGED <<config, local, tokens, mtime, editors, deck, kept, budget>>
----------------------------------------------------------------------------
\* An edit by hand of one of the files, of the keychain or of the token file.
ByHand ==
  /\ (HandsAnytime \/ Free) /\ MayChange /\ Change
  /\ \/ /\ \E c \in Edits(config) : config' = Mark(c)
        /\ mtime' = mtime + 1 /\ kept' = kept \cup {budget.changes + 1} /\ UNCHANGED <<local, tokens>>
     \/ /\ \E name \in Selections : local' = [Mark(local) EXCEPT !.active = name]
        /\ mtime' = mtime + 1 /\ kept' = kept \cup {budget.changes + 1} /\ UNCHANGED <<config, tokens>>
     \/ tokens' = [tokens EXCEPT !.keychain = ~@] /\ UNCHANGED <<config, local, mtime, kept>>
     \/ tokens' = [tokens EXCEPT !.file = ~@] /\ mtime' = mtime + 1 /\ UNCHANGED <<config, local, kept>>
  /\ UNCHANGED <<holder, editors, deck, watched>>

\* ConfigWatcher, _config_error_probe: a file changed, or the error the deck
\* shows is another one now.
ErrorNow == deck.kind = "error" /\ Shown(config, local, tokens).kind = "error"
Dirty == watched.mtime # mtime \/ watched.error # ErrorNow
\* _watcher_reload: what is there is adopted, then read.
WatcherFires ==
  /\ Free /\ Dirty /\ holder' = [who |-> "watcher", at |-> "fires"]
  /\ watched' = [mtime |-> mtime, error |-> ErrorNow]
  /\ UNCHANGED <<config, local, tokens, mtime, editors, deck, kept, budget>>
WatcherReloads ==
  /\ holder.at = "fires" /\ holder' = Nobody /\ deck' = Shown(config, local, tokens)
  /\ watched' = [watched EXCEPT !.error = deck'.kind = "error"]
  /\ UNCHANGED <<config, local, tokens, mtime, editors, kept, budget>>

\* The runtime dies anywhere and starts on the files that are there; the
\* answers of its requests are lost.
Crash ==
  /\ budget.faults < MaxFaults /\ budget' = [budget EXCEPT !.faults = @ + 1]
  /\ tokens' = Restored(tokens) /\ holder' = Nobody
  /\ editors' = [e \in Editors |-> IF editors[e].at = "edits" THEN editors[e] ELSE NoDoc]
  /\ deck' = Shown(config, local, Restored(tokens))
  /\ watched' = [mtime |-> mtime, error |-> deck'.kind = "error"]
  /\ UNCHANGED <<config, local, mtime, kept>>

Next ==
  \/ \E e \in Editors :
       \/ Read(e) \/ ReadConfig(e) \/ ReadRevision(e) \/ EditConfig(e) \/ EditLocal(e) \/ Rejected(e)
       \/ Validate(e) \/ Validated(e) \/ WriteConfig(e) \/ WriteLocal(e) \/ WriteFails(e)
  \/ \E name \in Selections, fromDeck \in BOOLEAN : SwitchProfile(name, fromDeck)
  \/ Reload \/ Resync \/ ByHand \/ WatcherFires \/ WatcherReloads \/ Crash
Spec == Init /\ [][Next]_configVars
----------------------------------------------------------------------------
\* A change whose writer was told that it is saved is not taken back by an
\* older read of the files (comment of STALE_REVISION_ERROR: "would resurrect
\* the stale snapshot and silently delete whatever changed the files").
NothingIsResurrected == kept \subseteq config.marks \cup local.marks

\* The placeholder token of a validation is never what the deck connects with,
\* and is gone once the lock is free.
PlaceholderStaysIn == deck.token # "x" /\ (holder.at # "validates" => tokens.env = None)

\* With nothing left to the watcher the deck shows what the files say, whoever
\* wrote them, and however far a failed write came.
FilesAreShown ==
  (Free /\ ~Dirty) =>
    LET now == Shown(config, local, tokens) IN
      \/ deck = now
      \/ now.kind = "error" /\ deck.kind = "error"
      \/ now.profile = "token" /\ deck.sec = Merged(config, Overlays(config.profiles, Active(config, local)))

\* The editor can always apply: what it reads of sound profiles passes the
\* check of a write, also when a crash or an edit left a selection of a profile
\* that is gone (comment in read).
ReadIsSound ==
  (\A n \in DOMAIN config.profiles \cup (IF config.legacy = None THEN {} ELSE {config.legacy}) :
     Resolve(config, n, tokens, TRUE).ok) =>
  Sound(config, WithoutDangling(local, config))

\* A field is the one of the nearest profile up the chain that sets it.
Ups(n, k) == Overlays(config.profiles, n)[Len(Overlays(config.profiles, n)) - k + 1]
NearestWins ==
  (deck.kind = "live" /\ Free /\ ~Dirty /\ Overlays(config.profiles, Active(config, local)) # Broken) =>
    LET n == Active(config, local)
        depth == Len(Overlays(config.profiles, n))
        setters(f) == {k \in 1..depth : f \in DOMAIN config.profiles[Ups(n, k)].sec} IN
      \A f \in Fields : f \in DOMAIN config.sec \/ setters(f) # {} =>
        f \in DOMAIN deck.sec /\
        deck.sec[f] = IF setters(f) = {} THEN config.sec[f]
                      ELSE config.profiles[Ups(n, CHOOSE k \in setters(f) : \A j \in setters(f) : k <= j)].sec[f]

ConfigIsKept == NothingIsResurrected /\ PlaceholderStaysIn /\ FilesAreShown /\ ReadIsSound /\ NearestWins
==============================================================================
