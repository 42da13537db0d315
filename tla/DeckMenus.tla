------------------------------- MODULE DeckMenus ------------------------------
(***************************************************************************)
(* The views of the deck and the ways between them: orchestrator.py with   *)
(* the presses of server.py and the pins of pins.py.  From the overview    *)
(* the user opens an agent, the launcher or the profiles; the panel, a     *)
(* hotkey and a banner lead to an agent directly.  The triage loop goes    *)
(* from one agent that waits to the next, and must neither ask twice for a *)
(* block that was answered here nor pass over one that was not, although   *)
(* the runtime may miss that an agent went on and asked again.  Pins keep  *)
(* an agent on its tile, in the deck and in a file for each profile.       *)
(* A turn is a change of a pane, and the clock counts turns.  Which tile   *)
(* an unpinned agent is on is left open: DeckOverview has the order.       *)
(***************************************************************************)
EXTENDS Naturals, FiniteSets, FiniteSetsExt

CONSTANTS
    Agents,            \* numbers: the order of the pane ids
    Profiles,
    Stamps,            \* the bridge says when a status began (status_since_ms)
    Skewed,            \* its clock is too far ahead to be believed
    Folds,             \* [view] collapse_idle
    BannersOfFolded,   \* the user opens an agent whose tile is folded away
    PinsWhileSwapping, \* the user pins while a reload is being prepared
    MaxTurns,          \* bound: changes of panes
    MaxSwaps,          \* bound: profile switches and reloads
    MaxPins            \* bound: pins set or taken

VARIABLES
    pane,     \* the panes at the bridge
    turns,
    known,    \* _agents
    since,    \* _since: status, start and the stamp it came from
    answered, \* _answered: the start of the block the user answered
    done,     \* the blocks answered on this deck (history)
    drill, triage, launcher, menu, origin, unfolded,
    spot,     \* _drill_position
    pins,     \* pins of the orchestrator
    stored,   \* pins.json: the pins of each profile
    profile,  \* the active profile
    next,     \* the orchestrator a reload has prepared
    toggled,  \* the agent whose pin the user asked to change (history)
    swaps, pinned

vars == <<pane, turns, known, since, answered, done, drill, triage, launcher, menu, origin,
          unfolded, spot, pins, stored, profile, next, toggled, swaps, pinned>>

fleet   == <<pane, turns, known, since>>
views   == <<drill, triage, launcher, menu, origin, unfolded, spot>>
marks   == <<answered, done>>
storage == <<pins, stored, profile, next, swaps, pinned>>

Nobody == 0
Never  == 0
Gone   == [here |-> FALSE, blocked |-> FALSE, at |-> 0, term |-> 0]
NoTime == [blocked |-> FALSE, at |-> Never, stamp |-> Never]
NoNext == [profile |-> "none", pins |-> <<>>]

\* The positions of the overview, and what may be pinned where.
Spots  == 0..Cardinality(Agents)
Unpinned == [i \in Spots |-> Nobody]
PinMaps == [Spots -> Agents \cup {Nobody}]

\* Every variable keeps its type: a drill is of an agent, a pin is on a tile.
TypeOK ==
    /\ \A a \in Agents : /\ pane[a].term \in 0..MaxTurns /\ pane[a].at \in 0..MaxTurns
                         /\ known[a].at \in 0..MaxTurns /\ since[a].at \in 0..MaxTurns
    /\ turns \in 0..MaxTurns
    /\ answered \in [Agents -> 0..MaxTurns] /\ done \subseteq 1..MaxTurns
    /\ drill \in Agents \cup {Nobody} /\ origin \in {"overview", "launcher"}
    /\ {triage, launcher, menu, unfolded} \subseteq BOOLEAN
    /\ spot \in Spots /\ pins \in PinMaps /\ stored \in [Profiles -> PinMaps]
    /\ profile \in Profiles /\ next.profile \in Profiles \cup {"none"}
    /\ toggled \in Agents \cup {Nobody}
    /\ swaps \in 0..MaxSwaps /\ pinned \in 0..MaxPins

Init ==
    /\ pane = [a \in Agents |-> [here |-> TRUE, blocked |-> FALSE, at |-> 0, term |-> 0]]
    /\ turns = 0
    /\ known = [a \in Agents |-> Gone] /\ since = [a \in Agents |-> NoTime]
    /\ answered = [a \in Agents |-> Never] /\ done = {}
    /\ drill = Nobody /\ triage = FALSE /\ launcher = FALSE /\ menu = FALSE
    /\ origin = "overview" /\ unfolded = FALSE /\ spot = 0
    /\ pins = Unpinned /\ stored = [p \in Profiles |-> Unpinned]
    /\ profile \in Profiles /\ next = NoNext /\ toggled = Nobody
    /\ swaps = 0 /\ pinned = 0

-----------------------------------------------------------------------------
\* An agent asks or goes on, its pane closes, or a new terminal takes its id.
Turn(a, here, blocked) ==
    /\ turns < MaxTurns /\ turns' = turns + 1
    /\ here \/ pane[a].here
    /\ blocked => here
    /\ pane' = [pane EXCEPT ![a] = [here |-> here, blocked |-> blocked, at |-> turns + 1,
                                    term |-> IF here /\ ~@.here THEN turns + 1 ELSE @.term]]
    /\ toggled' = Nobody
    /\ UNCHANGED <<known, since, marks, views, storage>>

\* _bridge_start: when the bridge says a status began, if it can be believed.
Believed == Stamps /\ ~Skewed
StampOf(state) == IF Stamps THEN state.at ELSE Never

\* _touch: a change of status restarts the time of an agent; a new stamp for
\* the same status is one that the runtime has missed the change of.
Touched(prev, state) ==
    LET stamp == StampOf(state)
        start == IF Believed THEN stamp ELSE Never
    IN
    IF prev = NoTime \/ prev.blocked # state.blocked
      THEN [blocked |-> state.blocked, stamp |-> stamp,
            at |-> IF start # Never /\ (prev = NoTime \/ stamp # prev.stamp) THEN start ELSE turns]
    ELSE IF stamp # Never /\ stamp # prev.stamp
      THEN [prev EXCEPT !.stamp = stamp, !.at = IF start # Never THEN start ELSE @]
    ELSE prev

\* The time an agent is known for goes with its terminal.
TimeOf(a, state) ==
    IF known[a].here /\ state.here /\ known[a].term # state.term THEN NoTime ELSE since[a]

\* apply_event, apply_snapshot: the runtime hears of a pane.
Report(a) ==
    /\ IF pane[a].here THEN known[a] # pane[a] ELSE known[a] # Gone \/ since[a] # NoTime
    /\ known' = [known EXCEPT ![a] = IF pane[a].here THEN pane[a] ELSE Gone]
    /\ since' = [since EXCEPT ![a] = IF pane[a].here THEN Touched(TimeOf(a, pane[a]), pane[a])
                                     ELSE NoTime]
    /\ toggled' = Nobody
    /\ UNCHANGED <<pane, turns, marks, views, storage>>

-----------------------------------------------------------------------------
\* _blocked_queue: the longest waiting first.
Waiting == {a \in Agents : known[a].here /\ known[a].blocked}
Earlier(a, b) == since[a].at < since[b].at \/ (since[a].at = since[b].at /\ a < b)

\* _triage_queue: an answer holds for the block it was given in.
IsAnswered(a) == since[a].blocked /\ answered[a] # Never /\ since[a].at = answered[a]
Unanswered == {a \in Waiting : ~IsAnswered(a)}
Live == [a \in Agents |-> IF IsAnswered(a) THEN answered[a] ELSE Never]

Longest(queue) == CHOOSE a \in queue : \A b \in queue \ {a} : Earlier(a, b)
After(a, queue) ==
    LET later == {b \in queue : Earlier(a, b)}
    IN IF later = {} THEN Longest(queue) ELSE Longest(later)

\* _collapsed_idle and _overview_candidates: the agents with a tile.
IsPinned(a) == \E i \in Spots : pins[i] = a
Foldable == {a \in Agents : Folds /\ known[a].here /\ ~known[a].blocked /\ ~IsPinned(a)}
Folded   == IF unfolded THEN {} ELSE Foldable
Tiled    == {a \in Agents : known[a].here} \ Folded

\* _place_pins: a pinned agent is on its tile, the others on the free ones.
PinnedSpots == {i \in Spots : pins[i] # Nobody}
Length ==
    Max({Cardinality({a \in Tiled : ~IsPinned(a)}) + Cardinality(PinnedSpots)}
        \cup {i + 1 : i \in PinnedSpots})
SpotsOf(a) == IF IsPinned(a) THEN {i \in Spots : pins[i] = a}
              ELSE {i \in Spots \ PinnedSpots : i < Length}

\* _overview_position: an agent without a tile is taken to be on the first.
Position(a) == IF a \in Tiled THEN SpotsOf(a) ELSE {0}

-----------------------------------------------------------------------------
Overview == drill = Nobody /\ ~launcher /\ ~menu

Quiet == toggled' = Nobody /\ UNCHANGED <<fleet, storage>>

\* _open_drill
Opened(a) == drill' = a /\ spot' \in Position(a) /\ UNCHANGED unfolded
NoMenus   == launcher' = FALSE /\ menu' = FALSE /\ origin' = "overview"
SameMenus == UNCHANGED <<launcher, menu, origin>>

\* A press on the tile of an agent.
PressTile(a) ==
    /\ Overview /\ a \in Tiled
    /\ Opened(a) /\ triage' = FALSE /\ SameMenus
    /\ Quiet /\ UNCHANGED marks

\* triage: the panel of the overview that names who waits, and the hotkey of
\* the desktop in every view.  Within the loop it goes on to the next.
Triage ==
    /\ Unanswered # {}
    /\ answered' = Live /\ done' = done
    /\ Opened(IF drill \in Unanswered THEN After(drill, Unanswered) ELSE Longest(Unanswered))
    /\ triage' = TRUE /\ NoMenus /\ Quiet

\* open_agent: a click on a banner.
OpenAgent(a) ==
    /\ known[a].here /\ (a \in Tiled \/ BannersOfFolded)
    /\ Opened(a) /\ triage' = FALSE /\ NoMenus
    /\ Quiet /\ UNCHANGED marks

LeavesDrill == drill' = Nobody /\ triage' = FALSE /\ SameMenus /\ UNCHANGED <<spot, unfolded>>

\* Back, or any press once the agent of the drill is gone.
Back == /\ drill # Nobody /\ LeavesDrill
        /\ Quiet /\ UNCHANGED marks

\* _drill_layout: what a drill offers to an agent that is there: answers to the
\* one that asks, macros and Stop otherwise.
Acts(a) == known[a].here

\* _note_answered, with the block the user meant.
Noted(a) == IF since[a] # NoTime /\ since[a].blocked THEN [answered EXCEPT ![a] = since[a].at]
            ELSE answered
MeantBy(a) == IF known[a].blocked THEN {known[a].at} ELSE {}

\* _press_drill on an action, and _after_drill_action: the loop opens the next
\* agent that waits, and ends on the overview when there is none.
PressAction ==
    /\ drill # Nobody /\ Acts(drill)
    /\ done' = done \cup MeantBy(drill)
    /\ LET noted == Noted(drill)
           rest  == {a \in Waiting : ~(since[a].blocked /\ noted[a] # Never
                                       /\ since[a].at = noted[a])}
       IN
       IF triage /\ rest # {}
         THEN /\ Opened(Longest(rest)) /\ triage' = TRUE /\ SameMenus
              /\ answered' = [a \in Agents |->
                    IF since[a].blocked /\ since[a].at = noted[a] THEN noted[a] ELSE Never]
         ELSE LeavesDrill /\ answered' = noted
    /\ Quiet

\* note_external_answer: a banner or the card has answered it.
AnsweredElsewhere(a) ==
    /\ a \in Waiting
    /\ answered' = Noted(a) /\ done' = done \cup MeantBy(a)
    /\ IF drill = a THEN LeavesDrill ELSE UNCHANGED views
    /\ Quiet

\* _expire_idle_view: a view left alone for MENU_IDLE_TIMEOUT_S.
Expire ==
    /\ ~Overview \/ unfolded
    /\ drill' = Nobody /\ triage' = FALSE /\ unfolded' = FALSE
    /\ NoMenus /\ UNCHANGED spot
    /\ Quiet /\ UNCHANGED marks

\* _toggle_idle_group: the tile of the folded agents.
PressGroup ==
    /\ Overview /\ Foldable # {}
    /\ unfolded' = ~unfolded
    /\ UNCHANGED <<drill, triage, launcher, menu, origin, spot>>
    /\ Quiet /\ UNCHANGED marks

\* The last tile of the overview, or the bottom row (_management_indices).
PressNew ==
    /\ Overview /\ launcher' = TRUE
    /\ UNCHANGED <<drill, triage, menu, origin, unfolded, spot>>
    /\ Quiet /\ UNCHANGED marks

PressProfiles ==
    /\ Overview /\ menu' = TRUE /\ origin' = "overview"
    /\ UNCHANGED <<drill, triage, launcher, unfolded, spot>>
    /\ Quiet /\ UNCHANGED marks

\* _press_launcher: an agent type or Back lead to the overview, "Profiles" to
\* the menu, which remembers where it was opened.
PressLauncher ==
    /\ launcher /\ ~menu
    /\ launcher' = FALSE
    /\ \/ UNCHANGED <<menu, origin>>
       \/ menu' = TRUE /\ origin' = "launcher" /\ Cardinality(Profiles) > 1
    /\ UNCHANGED <<drill, triage, unfolded, spot>>
    /\ Quiet /\ UNCHANGED marks

\* _press_profile_menu: Back.
PressMenuBack ==
    /\ menu
    /\ menu' = FALSE /\ launcher' = (origin = "launcher")
    /\ UNCHANGED <<drill, triage, origin, unfolded, spot>>
    /\ Quiet /\ UNCHANGED marks

-----------------------------------------------------------------------------
\* toggle_pin of the orchestrator: an agent that is pinned is taken off its
\* tile, another is pinned on the tile its drill was opened from.
TogglePin(a, at) ==
    IF IsPinned(a) THEN [i \in Spots |-> IF pins[i] = a THEN Nobody ELSE pins[i]]
    ELSE [pins EXCEPT ![at] = a]

\* DeckApp.press: the pins of the deck and of the file, or neither.
ChangePin(a, at, saved) ==
    /\ pinned < MaxPins /\ pinned' = pinned + 1
    /\ next = NoNext \/ PinsWhileSwapping
    /\ toggled' = a
    /\ pins' = IF saved THEN TogglePin(a, at) ELSE pins
    /\ stored' = IF saved THEN [stored EXCEPT ![profile] = TogglePin(a, at)] ELSE stored
    /\ UNCHANGED <<fleet, marks, views, profile, next, swaps>>

\* The Pin key of a drill, and the empty tile of an agent that is gone.
PressPin(saved) == drill # Nobody /\ Acts(drill) /\ ChangePin(drill, spot, saved)
PressHole(i, saved) ==
    /\ Overview /\ pins[i] # Nobody /\ ~known[pins[i]].here
    /\ ChangePin(pins[i], i, saved)

\* _prepare_swap: a profile switch of the deck, an edited file or a switch on
\* the desktop builds another deck with the pins of its profile.
Prepare(p) ==
    /\ swaps < MaxSwaps /\ next = NoNext
    /\ next' = [profile |-> p, pins |-> stored[p]]
    /\ menu' = FALSE /\ origin' = (IF menu THEN "overview" ELSE origin)
    /\ toggled' = Nobody /\ swaps' = swaps + 1
    /\ UNCHANGED <<fleet, marks, drill, triage, launcher, unfolded, spot, pins, stored, profile,
                   pinned>>

\* inherit_status_times: the new deck knows how long each agent has been in its
\* status, before it hears of any.
Inherited == since

\* _commit_swap: the new deck begins on the overview.
Commit ==
    /\ next # NoNext
    /\ profile' = next.profile /\ pins' = next.pins /\ next' = NoNext
    /\ known' = [a \in Agents |-> Gone] /\ since' = Inherited
    /\ answered' = [a \in Agents |-> Never] /\ done' = {}
    /\ drill' = Nobody /\ triage' = FALSE /\ unfolded' = FALSE /\ spot' = 0 /\ NoMenus
    /\ toggled' = Nobody
    /\ UNCHANGED <<pane, turns, stored, swaps, pinned>>

Next ==
    \/ \E a \in Agents, here \in BOOLEAN, blocked \in BOOLEAN : Turn(a, here, blocked)
    \/ \E a \in Agents : Report(a) \/ PressTile(a) \/ OpenAgent(a) \/ AnsweredElsewhere(a)
    \/ Triage \/ Back \/ PressAction \/ Expire
    \/ PressGroup \/ PressNew \/ PressProfiles \/ PressLauncher \/ PressMenuBack
    \/ \E saved \in BOOLEAN : PressPin(saved) \/ \E i \in Spots : PressHole(i, saved)
    \/ \E p \in Profiles : Prepare(p)
    \/ Commit

Spec == Init /\ [][Next]_vars

-----------------------------------------------------------------------------
\* The triage loop asks for each block once: an agent that waits is in its
\* queue unless the user has answered this very block on this deck, also when
\* the runtime missed that the agent went on and asked again.
TriageAsksOnce ==
    Believed => \A a \in Waiting : a \in Unanswered <=> known[a].at \notin done

\* One view is open, and the loop ends with the drill it is in.
OneView ==
    /\ ~(launcher /\ menu)
    /\ drill # Nobody => ~launcher /\ ~menu
    /\ triage => drill # Nobody

\* The deck shows the pins that the file has for its profile.
PinsAreStored == pins = stored[profile]

\* An agent loses its tile only when the user asks for that, or for another
\* profile.
PinsStay ==
    \A i \in Spots : pins[i] # Nobody /\ pins'[i] # pins[i]
        => toggled' = pins[i] \/ profile' # profile

\* Nobody is pinned on two tiles.
OnePinEach == \A i, j \in Spots : pins[i] # Nobody /\ pins[i] = pins[j] => i = j
=============================================================================
