----------------------------- MODULE DeckOverview -----------------------------
(* The overview of the deck (orchestrator.py): one tile for each agent, the   *)
(* ones that need the user first, on pages, and presses that arrive while the *)
(* order changes.  A press is resolved against the order at that moment, and  *)
(* not against the picture the user aimed at: tiles keep their places until   *)
(* there is a reason to move them, and a slot whose occupant has just changed *)
(* ignores a press.                                                           *)
(* The clock counts ticks; only the order of the three delays matters.  A     *)
(* change is drawn within the tick it happens in.  The overview is the plain  *)
(* one: no pins, no folding of idle agents, the launcher as the last tile.    *)
EXTENDS Naturals, Sequences, FiniteSets, SequencesExt

CONSTANTS
    Panes,         \* numbers: the order of the pane ids
    Slots,         \* agent tiles on a page (_agent_slots)
    Guard,         \* _SLOT_PRESS_GUARD_S
    Settle,        \* _ORDER_SETTLE_S
    FleetChanges,  \* do panes appear and disappear?
    MaxChanges,    \* bound: changes of agents
    MaxNow         \* bound: ticks

VARIABLES
    agent,        \* _agents: the status of each pane, or Absent
    since,        \* _since: when a blocked agent began to wait
    display,      \* _display_order
    placed,       \* _placed_order
    ranks,        \* _display_ranks
    target,       \* _target_keys and _target_since
    adopt,        \* _force_adopt
    changed,      \* _slot_changed_at
    page,         \* _page
    away,         \* a drill or a menu is open
    dirty,        \* something happened that is not drawn yet
    frame,        \* the tiles of the overview the user sees
    lastShown,    \* lastShown[i][p]: when tile i ceased to show p (history)
    misled,       \* a press opened the agent that took the place of another
    now, changes

vars == <<agent, since, display, placed, ranks, target, adopt, changed, page, away, dirty,
          frame, lastShown, misled, now, changes>>

fleet == <<agent, since>>
order == <<display, placed, ranks, target, adopt>>

Absent == "absent"
Never  == -10
Nobody == 0       \* no agent on a tile
Tiles  == 1..Slots
Places == 1..Cardinality(Panes)

Rank(status) == IF status = "blocked" THEN 0 ELSE 1
Present == {p \in Panes : agent[p] # Absent}

TypeOK ==
    /\ agent \in [Panes -> {Absent, "blocked", "idle"}]
    /\ since \in [Panes -> 0..MaxNow]
    /\ display \in Seq(Panes) /\ placed \in Seq(Panes)
    /\ ranks \in [Panes -> {0, 1, Nobody - 1}]
    /\ target.keys \in Seq(Panes) /\ target.since \in 0..MaxNow
    /\ dirty \in BOOLEAN /\ adopt \in BOOLEAN /\ away \in BOOLEAN /\ misled \in BOOLEAN
    /\ changed \in [Places -> {Never} \cup 0..MaxNow]
    /\ page \in Nat /\ now \in 0..MaxNow /\ changes \in 0..MaxChanges
    /\ frame \in [Tiles -> Panes \cup {Nobody}]
    /\ lastShown \in [Tiles -> [Panes -> {Never} \cup 0..MaxNow]]

\* layout.order_agents: those that wait first, the longest first.
Before(p, q) ==
    \/ Rank(agent[p]) < Rank(agent[q])
    \/ Rank(agent[p]) = Rank(agent[q]) /\ (since[p] < since[q] \/ (since[p] = since[q] /\ p < q))

Sorted ==
    [i \in 1..Cardinality(Present) |->
        CHOOSE p \in Present : Cardinality({q \in Present : Before(q, p)}) = i - 1]

\* layout.page: what a page of the list shows, with a page number that wraps.
Pages(list)   == IF list = <<>> THEN 1 ELSE (Len(list) + Slots - 1) \div Slots
Offset(list)  == (page % Pages(list)) * Slots
OnTile(list, i) == IF Offset(list) + i <= Len(list) THEN list[Offset(list) + i] ELSE Nobody

\* _ordered: the sort is adopted when it must be or has been stable; otherwise
\* agents keep their places and new ones go to the end.
MustAdopt(sorted) ==
    \/ display = <<>> \/ adopt
    \/ \E p \in Present : ranks[p] >= 0 /\ ranks[p] # Rank(agent[p])
    \/ now - (IF sorted # target.keys THEN now ELSE target.since) >= Settle

Kept(sorted) ==
    LET stay == SelectSeq(display, LAMBDA p : p \in Present)
    IN stay \o SelectSeq(sorted, LAMBDA p : p \notin ToSet(stay))

Shown(sorted) == IF MustAdopt(sorted) THEN sorted ELSE Kept(sorted)

\* A slot that existed and shows another agent has changed.
Moved(list) == {i \in DOMAIN list : i <= Len(placed) /\ placed[i] # list[i]}

SlotsMoved(list)   == [i \in Places |-> IF i \in Moved(list) THEN now ELSE changed[i]]

Sort(sorted) ==
    /\ target' = IF sorted # target.keys THEN [keys |-> sorted, since |-> now] ELSE target
    /\ adopt' = (adopt /\ ~MustAdopt(sorted))
    /\ ranks' = IF MustAdopt(sorted)
                  THEN [p \in Panes |-> IF p \in Present THEN Rank(agent[p]) ELSE -1]
                  ELSE ranks

Ordered(sorted, list) == Sort(sorted) /\ display' = list /\ placed' = list /\ changed' = SlotsMoved(list)

\* _resettle: view transitions are safe moments to move tiles.
Resettle == display' = <<>> /\ placed' = <<>> /\ changed' = [i \in Places |-> Never]

\* The user has asked for another picture and has not seen it yet.
Transition ==
    /\ dirty' = TRUE
    /\ frame' = [i \in Tiles |-> Nobody]
    /\ lastShown' = [i \in Tiles |-> [p \in Panes |-> Never]]

Init ==
    /\ agent \in [Panes -> {"idle", Absent}]
    /\ FleetChanges \/ \A p \in Panes : agent[p] = "idle"
    /\ since = [p \in Panes |-> 0]
    /\ display = <<>> /\ placed = <<>> /\ ranks = [p \in Panes |-> -1]
    /\ target = [keys |-> <<>>, since |-> 0] /\ adopt = FALSE
    /\ changed = [i \in Places |-> Never] /\ page = 0 /\ away = FALSE
    /\ dirty = TRUE
    /\ frame = [i \in Tiles |-> Nobody]
    /\ lastShown = [i \in Tiles |-> [p \in Panes |-> Never]]
    /\ misled = FALSE /\ now = 0 /\ changes = 0

-----------------------------------------------------------------------------
\* _on_new_block: the overview jumps to the first page, whose every tile is
\* then another one, and adopts the new order at the next render.
GuardsNothing == changed
FirstPageGuarded ==
    [i \in Places |-> IF i <= Slots /\ page # 0 THEN now ELSE changed[i]]

OnNewBlock ==
    IF away THEN UNCHANGED <<changed, page, adopt>>
    ELSE changed' = FirstPageGuarded /\ page' = 0 /\ adopt' = TRUE

\* apply_event, apply_snapshot: an agent changes, appears or disappears.
Change(p, status) ==
    /\ changes < MaxChanges /\ status # agent[p]
    /\ FleetChanges \/ (status # Absent /\ agent[p] # Absent)
    /\ changes' = changes + 1 /\ dirty' = TRUE
    /\ agent' = [agent EXCEPT ![p] = status]
    /\ since' = [since EXCEPT ![p] = IF status = "blocked" THEN now ELSE 0]
    /\ IF status = "blocked" THEN OnNewBlock ELSE UNCHANGED <<changed, page, adopt>>
    /\ UNCHANGED <<display, placed, ranks, target, away, frame, lastShown, misled, now>>

\* render: the overview is drawn, and the picture before it is gone.
Render ==
    LET sorted == Sorted
        list == Shown(sorted) IN
    /\ ~away
    /\ Ordered(sorted, list)
    /\ dirty' = FALSE
    /\ frame' = [i \in Tiles |-> OnTile(list, i)]
    /\ lastShown' = [i \in Tiles |-> [p \in Panes |->
                        IF frame[i] = p THEN now ELSE lastShown[i][p]]]
    /\ UNCHANGED <<fleet, page, away, misled, now, changes>>

\* The user saw another agent on the tile a moment ago.
AimedAtAnother(i, p) ==
    \E q \in Panes \ {p} : frame[i] = q \/ now - lastShown[i][q] < Guard

Guarded(slot, list) == now - SlotsMoved(list)[slot] < Guard

\* _press_overview on an agent's tile: ignored while the slot is guarded ...
PressGuarded(i) ==
    LET sorted == Sorted
        list == Shown(sorted) IN
    /\ ~away /\ OnTile(list, i) # Nobody
    /\ Guarded(Offset(list) + i, list)
    /\ Ordered(sorted, list)
    /\ dirty' = TRUE
    /\ UNCHANGED <<fleet, page, away, frame, lastShown, misled, now, changes>>

\* ... otherwise _open_drill with the agent of the slot.
PressTile(i) ==
    LET sorted == Sorted
        list == Shown(sorted) IN
    /\ ~away /\ OnTile(list, i) # Nobody
    /\ ~Guarded(Offset(list) + i, list)
    /\ away' = TRUE
    /\ misled' = (misled \/ AimedAtAnother(i, OnTile(list, i)))
    /\ Sort(sorted) /\ Resettle /\ Transition
    /\ UNCHANGED <<fleet, page, now, changes>>

\* _press_overview on the panel: the triage loop when somebody waits, else the
\* next page.
PressPanel ==
    /\ ~away
    /\ IF \E p \in Present : agent[p] = "blocked"
         THEN away' = TRUE /\ page' = page
         ELSE away' = away /\ page' = page + 1
    /\ page' <= 3
    /\ Resettle /\ Transition
    /\ UNCHANGED <<fleet, ranks, target, adopt, misled, now, changes>>

\* Back, an action of the drill, or _expire_idle_view, which starts over at
\* the first page.
Return(expired) ==
    /\ away
    /\ away' = FALSE /\ page' = IF expired THEN 0 ELSE page
    /\ Resettle /\ Transition
    /\ UNCHANGED <<fleet, ranks, target, adopt, misled, now, changes>>

\* What happens in a tick is drawn in it.
Tick ==
    /\ now < MaxNow /\ (away \/ ~dirty)
    /\ now' = now + 1
    /\ UNCHANGED <<fleet, order, changed, page, away, dirty, frame, lastShown, misled, changes>>

Next ==
    \/ \E p \in Panes, status \in {Absent, "blocked", "idle"} : Change(p, status)
    \/ Render \/ PressPanel \/ Tick
    \/ \E i \in Tiles : PressGuarded(i) \/ PressTile(i)
    \/ \E expired \in BOOLEAN : Return(expired)

Spec == Init /\ [][Next]_vars

-----------------------------------------------------------------------------
\* "Ignore a press on a slot whose occupant changed within this window": a
\* press never opens an agent that has just taken the place of the one the
\* user saw, whatever blocked, was sorted or moved to another page meanwhile.
PressOpensWhatWasShown == ~misled
=============================================================================
