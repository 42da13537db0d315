------------------------------ MODULE DeckFrames ------------------------------
(***************************************************************************)
(* The frames of the deck (deckapp/server.py, DeckApp): an update or a      *)
(* press renders under the lock; the ticker and an HTTP reader take their   *)
(* picture under it, rasterize without it and apply it when nothing newer   *)
(* landed.  A reader waits for a version, the dock for the agent list's;    *)
(* a source is prepared without the lock and committed under it.            *)
(***************************************************************************)
EXTENDS Integers

CONSTANTS
    MaxData,     \* bound: changes of a source's data
    MaxSwaps,    \* bound: sources after the first
    MaxTicks,    \* bound: ticks, FULL_REFRESH_TICKS of which are one full
    FullTicks,
    MaxPresses,  \* bound: presses
    ViewLapses   \* whether a drill left open goes back to the overview at a tick

VARIABLES
    source,    \* _source: its number and how often its data changed
    orch,      \* _orch: the source, the data and the screen it last rendered
    seqs,      \* _render_seq, _applied_seq
    stale,     \* _ticker_stale
    ticks, presses,
    split,     \* the frame the ticker and the reader are rasterizing
    shown,     \* _tiles and their meta, and the map confirmed with them
    version,   \* _version
    list,      \* _agent_list_version, _agent_list_sig
    reader,    \* a client of /state: where its request is, what it got last
    dock       \* a client of /agent/list

framesVars == <<source, orch, seqs, stale, ticks, presses, split, shown, version, list, reader, dock>>

Screens == {"overview", "drill"}
Pictures == [src : 0..MaxSwaps, data : 0..MaxData, screen : Screens]
NoSplit == [seq |-> 0]
NoMap == [src |-> -1]
NoList == [version |-> 0]

TypeOK ==
  /\ source.id \in 0..MaxSwaps /\ source.data \in 0..MaxData /\ orch \in Pictures
  /\ seqs.applied <= seqs.render /\ stale \in BOOLEAN
  /\ ticks \in 0..MaxTicks /\ presses \in 0..MaxPresses
  /\ \A t \in {"ticker", "reader"} : split[t].seq \in 0..seqs.render
  /\ shown.picture \in Pictures /\ (shown.map \in Pictures \/ shown.map = NoMap)
  /\ reader.pc \in {"idle", "enters", "reads"} /\ reader.saw.version <= version
  /\ dock.pc \in {"idle", "asks"} /\ dock.got.version <= list.version

First == [src |-> 0, data |-> 0, screen |-> "overview"]
Init ==
  /\ source = [id |-> 0, data |-> 0] /\ orch = First
  /\ seqs = [render |-> 1, applied |-> 1] /\ stale = FALSE /\ ticks = 0 /\ presses = 0
  /\ split = [t \in {"ticker", "reader"} |-> NoSplit]
  /\ shown = [picture |-> First, meta |-> 0, at |-> 0, map |-> First, swapped |-> FALSE]
  /\ version = 1 /\ list = [version |-> 1, sig |-> [id |-> 0, data |-> 0]]
  /\ reader = [pc |-> "idle", saw |-> [version |-> 0]]
  /\ dock = [pc |-> "idle", asked |-> NoList, got |-> NoList]
----------------------------------------------------------------------------
\* _snapshot_render: the orchestrator takes over the source's data.
Picture(src, o) == [o EXCEPT !.src = src.id, !.data = src.data]

\* What a frame looks like: a drill shows one agent, whatever the others do.
Look(f) == <<f.picture.src, f.picture.screen, f.at, IF f.picture.screen = "drill" THEN 0 ELSE f.picture.data>>

\* A bug: the fields that are no image do not count.
BumpsTiles(f, g) == Look(f) # Look(g)
\* _apply_rendered_locked, _state_digest_locked: any difference a reader can see
\* moves the version.
Bumps(f, g) == Look(f) # Look(g) \/ f.meta # g.meta

Applied(f, src) ==
  /\ shown' = f
  /\ version' = IF Bumps(shown, f) THEN version + 1 ELSE version
  /\ list' = IF list.sig # src THEN [version |-> list.version + 1, sig |-> src] ELSE list

\* _refresh_locked: newer than every frame on its way.
RefreshLocked(src, o) ==
  LET pic == Picture(src, o) IN
    /\ orch' = pic /\ seqs' = [render |-> seqs.render + 1, applied |-> seqs.render + 1]
    /\ stale' = FALSE
    /\ Applied([picture |-> pic, meta |-> src.data, at |-> ticks, map |-> pic, swapped |-> FALSE], src)

\* A bridge's update, and a press, triage or a click on a banner.
Update ==
  /\ source.data < MaxData /\ source' = [source EXCEPT !.data = @ + 1]
  /\ RefreshLocked(source', orch)
  /\ UNCHANGED <<ticks, presses, split, reader, dock>>
Press ==
  /\ presses < MaxPresses /\ presses' = presses + 1
  /\ \E screen \in Screens : RefreshLocked(source, [orch EXCEPT !.screen = screen])
  /\ UNCHANGED <<source, ticks, split, reader, dock>>

\* The picture is taken under the lock: who rasterizes it carries its number.
TakesPicture(who, o) ==
  LET pic == Picture(source, o) IN
    /\ orch' = pic /\ seqs' = [seqs EXCEPT !.render = @ + 1]
    /\ split' = [split EXCEPT ![who] = [seq |-> seqs.render + 1, picture |-> pic, at |-> ticks']]

HasReader == reader.pc # "idle"

\* _tick_once: a held view that lapsed, every FullTicks-th tick, or a working
\* tile; an animation nobody reads is skipped and marks the deck stale.
Tick ==
  /\ ticks < MaxTicks /\ split["ticker"] = NoSplit /\ ticks' = ticks + 1
  /\ \/ /\ ViewLapses /\ orch.screen = "drill"
        /\ TakesPicture("ticker", [orch EXCEPT !.screen = "overview"]) /\ UNCHANGED stale
     \/ \E working \in BOOLEAN, sinkWants \in BOOLEAN :
          LET renders == ticks' % FullTicks = 0 \/ working IN
            \/ /\ renders /\ (HasReader \/ sinkWants) /\ TakesPicture("ticker", orch) /\ UNCHANGED stale
            \/ /\ renders /\ ~HasReader /\ ~sinkWants /\ stale' = TRUE /\ UNCHANGED <<orch, seqs, split>>
            \/ /\ ~renders /\ UNCHANGED <<orch, seqs, split, stale>>
  /\ UNCHANGED <<source, presses, shown, version, list, reader, dock>>

\* A bug: a frame that took longer lands on a newer one.
NotOutdatedAny(seq) == TRUE
NotOutdated(seq) == seq > seqs.applied
\* _refresh_split: a frame that lands confirms the orchestrator's map of now.
Lands(who) ==
  LET s == split[who] IN
    /\ s # NoSplit /\ split' = [split EXCEPT ![who] = NoSplit]
    /\ \/ /\ NotOutdated(s.seq) /\ s.picture.src = orch.src
          /\ seqs' = [seqs EXCEPT !.applied = s.seq] /\ stale' = FALSE
          /\ Applied([picture |-> s.picture, meta |-> source.data, at |-> s.at, map |-> orch,
                      swapped |-> FALSE], source)
       \/ /\ ~(NotOutdated(s.seq) /\ s.picture.src = orch.src)
          /\ UNCHANGED <<seqs, stale, shown, version, list>>
TickerLands == Lands("ticker") /\ UNCHANGED <<source, orch, ticks, presses, reader, dock>>
ReaderLands == Lands("reader") /\ UNCHANGED <<source, orch, ticks, presses, reader, dock>>
----------------------------------------------------------------------------
\* _wait_state and _state: a reader renders what the ticker skipped, waits until
\* the version is not the one it has, renders again and reads.
PollStarts ==
  /\ reader.pc = "idle" /\ reader' = [reader EXCEPT !.pc = "enters"]
  /\ UNCHANGED <<source, orch, seqs, stale, ticks, presses, split, shown, version, list, dock>>
\* _refresh_if_stale
RefreshIfStale ==
  /\ reader.pc \in {"enters", "reads"} /\ stale /\ split["reader"] = NoSplit
  /\ UNCHANGED ticks /\ TakesPicture("reader", orch)
  /\ UNCHANGED <<source, stale, presses, shown, version, list, reader, dock>>
\* The version is another one, or the wait is over.
PollWakes ==
  /\ reader.pc = "enters" /\ ~stale /\ split["reader"] = NoSplit
  /\ reader' = [reader EXCEPT !.pc = "reads"]
  /\ UNCHANGED <<source, orch, seqs, stale, ticks, presses, split, shown, version, list, dock>>
PollReads ==
  /\ reader.pc = "reads" /\ ~stale /\ split["reader"] = NoSplit
  /\ reader' = [reader EXCEPT !.pc = "idle",
                  !.saw = [version |-> version, look |-> Look(shown), meta |-> shown.meta]]
  /\ UNCHANGED <<source, orch, seqs, stale, ticks, presses, split, shown, version, list, dock>>

\* A bug: the version is read after the rows.
TakesLast(then, now) == [version |-> now.version, rows |-> then.rows]
\* agent_list: the version is read before the rows.
Takes(then, now) == [version |-> then.version, rows |-> now.rows]

ListNow == [version |-> list.version, rows |-> source]
DockAsks ==
  /\ dock.pc = "idle" /\ dock' = [dock EXCEPT !.pc = "asks", !.asked = ListNow]
  /\ UNCHANGED <<source, orch, seqs, stale, ticks, presses, split, shown, version, list, reader>>
DockReads ==
  /\ dock.pc = "asks" /\ dock' = [dock EXCEPT !.pc = "idle", !.asked = NoList, !.got = Takes(dock.asked, ListNow)]
  /\ UNCHANGED <<source, orch, seqs, stale, ticks, presses, split, shown, version, list, reader>>
----------------------------------------------------------------------------
\* _prepare_swap: a throwaway orchestrator rendered the new source, a while ago
\* and without the lock.
Prepared == [src |-> source.id + 1, data |-> 0, screen |-> "overview"]

\* _commit_swap: assignments only; another [usage] renders once more.  The new
\* source's connectors run since it was built: its data may have changed since.
Commit ==
  /\ source.id < MaxSwaps /\ \E data \in 0..MaxData : source' = [id |-> source.id + 1, data |-> data]
  /\ \/ /\ orch' = Prepared /\ stale' = FALSE
        /\ seqs' = [render |-> seqs.render + 1, applied |-> seqs.render + 1]
        /\ Applied([picture |-> Prepared, meta |-> source'.data, at |-> ticks, map |-> NoMap,
                    swapped |-> TRUE], source')
     \/ RefreshLocked(source', Prepared)
  /\ UNCHANGED <<ticks, presses, split, reader, dock>>

Next ==
  \/ Update \/ Press \/ Tick \/ TickerLands \/ ReaderLands
  \/ PollStarts \/ RefreshIfStale \/ PollWakes \/ PollReads
  \/ DockAsks \/ DockReads \/ Commit
Spec == Init /\ [][Next]_framesVars
----------------------------------------------------------------------------
\* A frame that was rasterized without the lock never covers news: what the deck
\* shows is the current source's current data, but for the prepared frame of a
\* swap, which may be older than what its source has.
FrameIsCurrent ==
  /\ shown.picture.src = source.id
  /\ shown.picture.data = source.data \/ (shown.swapped /\ shown.picture.data < source.data)

\* A reader that waits for a version to change has what the deck shows.
ReaderIsCurrent ==
  reader.saw.version = version => reader.saw.look = Look(shown) /\ reader.saw.meta = shown.meta

\* A change of the agent list is never lost on the dock: with the newest version
\* it has rows that are at least as new as the list of that version.
DockIsCurrent ==
  dock.got.version = list.version =>
    (dock.got.rows.id = list.sig.id /\ dock.got.rows.data >= list.sig.data) \/ dock.got.rows.id > list.sig.id

\* A click on a tile finds the agent the frame on display shows there (comment of
\* _refresh_split: "a frame that reaches this point still matches the orchestrator").
PreviewMatches == shown.map # NoMap => shown.map = shown.picture

FramesAreCurrent == FrameIsCurrent /\ ReaderIsCurrent /\ DockIsCurrent /\ (ViewLapses \/ PreviewMatches)

\* The deck never shows a picture taken before the one it shows.
NeverBack ==
  /\ shown'.picture.src >= shown.picture.src
  /\ shown'.picture.src = shown.picture.src => shown'.picture.data >= shown.picture.data /\ shown'.at >= shown.at
FramesNeverGoBack == [][NeverBack]_framesVars
==============================================================================
