------------------------------ MODULE DeckDrill ------------------------------
(* The drill of an agent on the deck: orchestrator.py with the prompts that   *)
(* live.py reads for it.  The bridge reports what it last saw of the panes;   *)
(* the runtime reads the prompt of each blocked pane in the background, keeps *)
(* the text, and paints a drill with it at once.  What the drill shows is     *)
(* what a press answers, so a text read before the block, in an earlier block *)
(* or from a recycled terminal must not be taken for its prompt.              *)
(* Every change of a pane gets a number, and the text of a pane is the number *)
(* of the change after which it was read.                                     *)
EXTENDS Naturals, Sequences, FiniteSets, SequencesExt

CONSTANTS
    Panes,
    MaxTurns,      \* bound: changes of panes
    MaxReads,      \* bound: read requests
    MaxDrops,      \* bound: lost connections
    OfflineDrills  \* the user opens a drill while the bridge is away

VARIABLES
    events,    \* the bridge sends the prompt with its blocked event
    pane,      \* pane[p]: turn, blocked, term, and the episode as the bridge sees it
    turns,     \* changes so far
    sent,      \* sent[p]: the state the bridge last sent of p
    owed,      \* owed[p]: the prompt of p's episode has yet to be sent
    asked,     \* reads on their way to the bridge
    reading,   \* the read the handler has taken and not answered yet
    down,      \* frames on their way to the runtime
    up,        \* _connected
    known,     \* _agents: the pane states of the runtime and its deck
    began,     \* began[p]: the turn that told the deck of p's block (history)
    preread,   \* _preread
    req,       \* _preread_req
    active,    \* _active_read_req
    missing,   \* _ev_prompt_missing
    revision,  \* _ev_revision: the episode of the last blocked event
    reads,     \* _bg_req and _req
    drill,     \* _drill
    detection, \* _detection
    armed,     \* _pending_confirm, with what the user saw (history)
    unseen,    \* a confirmed answer was not the one the user armed (history)
    drops

vars == <<events, pane, turns, sent, owed, asked, reading, down, up, known, began, preread, req,
          active, missing, revision, reads, drill, detection, armed, unseen, drops>>

wire    == <<sent, owed, asked, reading, down>>
cache   == <<preread, req, missing, revision>>
deck    == <<drill, detection, armed, unseen>>

None    == 0       \* no text, no request
Nothing == "none"  \* no drill
NoRead  == [p |-> Nothing, req |-> None, text |-> None]
Unknown == [turn |-> 0, blocked |-> FALSE, term |-> 0, episode |-> 0]
Unarmed == [p |-> Nothing, text |-> None, term |-> 0, turn |-> 0]
Text(p) == pane[p].turn

TypeOK ==
    /\ events \in BOOLEAN /\ up \in BOOLEAN /\ unseen \in BOOLEAN
    /\ \A p \in Panes : {pane[p], sent[p], known[p]} \subseteq
            [turn : 0..MaxTurns, blocked : BOOLEAN, term : 0..MaxTurns,
             episode : 0..MaxTurns]
    /\ owed \in [Panes -> BOOLEAN] /\ missing \subseteq Panes
    /\ asked \in Seq([p : Panes, req : 1..MaxReads, term : 0..MaxTurns])
    /\ reading.p \in Panes \cup {Nothing}
    /\ \A i \in DOMAIN down : down[i].kind \in {"state", "text", "prompt", "closed"}
    /\ began \in [Panes -> 0..MaxTurns] /\ preread \in [Panes -> 0..MaxTurns]
    /\ revision \in [Panes -> 0..MaxTurns]
    /\ req \in [Panes -> 0..MaxReads] /\ active \in 0..MaxReads /\ reads \in 0..MaxReads
    /\ drill \in Panes \cup {Nothing} /\ detection \in 0..MaxTurns
    /\ armed.p \in Panes \cup {Nothing}
    /\ turns \in 0..MaxTurns /\ drops \in 0..MaxDrops

Init ==
    /\ events \in BOOLEAN
    /\ \E asks \in BOOLEAN :
         pane = [p \in Panes |-> [turn |-> 1, blocked |-> asks, term |-> 0, episode |-> 0]]
    /\ turns = 1
    /\ sent = [p \in Panes |-> Unknown] /\ known = sent
    /\ owed = [p \in Panes |-> FALSE]
    /\ asked = <<>> /\ reading = NoRead /\ down = <<>> /\ up = FALSE
    /\ began = [p \in Panes |-> 0]
    /\ preread = [p \in Panes |-> None] /\ req = [p \in Panes |-> None]
    /\ active = None /\ missing = {} /\ reads = 0
    /\ revision = [p \in Panes |-> 0]
    /\ drill = Nothing /\ detection = None /\ armed = Unarmed
    /\ unseen = FALSE /\ drops = 0

-----------------------------------------------------------------------------
\* An agent asks or goes on; a pane gets a new terminal; a question changes.
Turn(p, blocked, recycled) ==
    /\ turns < MaxTurns
    /\ turns' = turns + 1
    /\ pane' = [pane EXCEPT ![p].turn = turns + 1, ![p].blocked = blocked,
                            ![p].term = IF recycled THEN @ + 1 ELSE @]
    /\ UNCHANGED <<events, wire, up, known, began, cache, active, reads, deck, drops>>

Same(a, b) == a # Unknown /\ a.blocked = b.blocked /\ a.term = b.term

\* What a look at the fleet finds: a change opens an episode if p is blocked.
Observed(p) ==
    IF Same(sent[p], pane[p]) THEN sent[p]
    ELSE [pane[p] EXCEPT !.episode = IF pane[p].blocked THEN pane[p].turn ELSE 0]
StateOf(p) == [kind |-> "state", p |-> p, state |-> Observed(p)]
Closed(p)  == [kind |-> "closed", p |-> p, episode |-> sent[p].episode]

\* The events of what it finds: a new episode owes its prompt, and the end of
\* an episode is told before or after the state.
Look(p) ==
    /\ sent' = [sent EXCEPT ![p] = Observed(p)]
    /\ owed' = IF Same(sent[p], pane[p]) THEN owed
               ELSE [owed EXCEPT ![p] = events /\ pane[p].blocked]
    /\ IF events /\ sent[p].blocked /\ ~Same(sent[p], pane[p])
         THEN down' \in {down \o <<Closed(p), StateOf(p)>>, down \o <<StateOf(p), Closed(p)>>}
         ELSE down' = Append(down, StateOf(p))

\* A poll that finds a change broadcasts it.
Poll(p) ==
    /\ up /\ ~Same(sent[p], pane[p])
    /\ Look(p)
    /\ UNCHANGED <<events, pane, turns, asked, reading, up, known, began, cache, active, reads,
                   deck, drops>>

\* The blocked event of an episode; without a prompt when it could not be read.
SendPrompt(p, readable) ==
    /\ up /\ owed[p]
    /\ owed' = [owed EXCEPT ![p] = FALSE]
    /\ down' = Append(down, [kind |-> "prompt", p |-> p, episode |-> sent[p].episode,
                             text |-> IF readable THEN Text(p) ELSE None])
    /\ UNCHANGED <<events, pane, turns, sent, asked, reading, up, known, began, cache, active,
                   reads, deck, drops>>

\* handle_client_message "read": refused when the terminal is another one.
Read ==
    /\ up /\ asked # <<>> /\ reading = NoRead
    /\ asked' = Tail(asked)
    /\ LET r == Head(asked)
       IN reading' = [p |-> r.p, req |-> r.req,
                      text |-> IF r.term = pane[r.p].term THEN Text(r.p) ELSE None]
    /\ UNCHANGED <<events, pane, turns, sent, owed, down, up, known, began, cache, active, reads,
                   deck, drops>>

\* A refused read makes the runtime ask for the list, and that is a look.
Answer ==
    /\ up /\ reading # NoRead
    /\ IF reading.text = None THEN Look(reading.p)
       ELSE /\ down' = Append(down, [kind |-> "text", p |-> reading.p, req |-> reading.req,
                                     text |-> reading.text])
            /\ UNCHANGED <<sent, owed>>
    /\ reading' = NoRead
    /\ UNCHANGED <<events, pane, turns, asked, up, known, began, cache, active, reads,
                   deck, drops>>

-----------------------------------------------------------------------------
\* A read request of the runtime; a connection that is down drops it.
Ask(p, id) == IF up THEN Append(asked, [p |-> p, req |-> id, term |-> known'[p].term])
              ELSE asked

\* _on_snapshot and _on_event with apply_snapshot: the texts that do not
\* survive the state go (_drop_stale: another block of the pane, another
\* terminal).  _reconcile_prereads: a blocked pane that no read of
\* this episode is out for gets one, unless the bridge sends its prompt.
ClearsOnlyTheStale(p, keep, reads_it) == ~keep
Clears(p, keep, reads_it) ==
    ~keep \/ reads_it \/ (events /\ preread[p] = None /\ req[p] = None)

\* What was read stays as long as the pane is blocked and the agent is the same.
Keeps(p, state) == state.blocked /\ state.term = known[p].term

TakeState(p, state) ==
    LET keep == Keeps(p, state)
        mark == IF keep THEN req[p] ELSE None
        reads_it == state.blocked /\ mark = None /\ (~events \/ p \in missing)
    IN
    /\ reads_it => reads < MaxReads
    /\ known' = [known EXCEPT ![p] = state]
    /\ began' = [began EXCEPT ![p] = IF known[p].blocked /\ keep THEN @ ELSE state.turn]
    /\ preread' = [preread EXCEPT ![p] = IF keep THEN @ ELSE None]
    /\ reads' = IF reads_it THEN reads + 1 ELSE reads
    /\ req' = [req EXCEPT ![p] = IF reads_it THEN reads + 1 ELSE mark]
    /\ active' = IF drill = p /\ ~keep THEN None ELSE active
    /\ asked' = IF reads_it THEN Ask(p, reads + 1) ELSE asked
    /\ detection' = IF drill = p /\ Clears(p, keep, reads_it) THEN None ELSE detection
    /\ armed' = IF drill = p /\ (state # known[p] \/ detection' # detection) THEN Unarmed
                ELSE armed
    /\ UNCHANGED <<missing, revision>>

\* _on_result: kept as the prompt only when it answers the read of this
\* episode; a drill of a blocked agent takes nothing else.
AcceptsActive(p, id)  == id = active
Accepts(p, id) == IF known[p].blocked THEN id = req[p] ELSE id = active

TakeText(p, id, text) ==
    /\ preread' = [preread EXCEPT ![p] = IF known[p].blocked /\ id = req[p] THEN text ELSE @]
    /\ detection' = IF drill = p /\ Accepts(p, id) THEN text ELSE detection
    /\ armed' = IF detection' # detection THEN Unarmed ELSE armed
    /\ UNCHANGED <<known, began, req, active, missing, revision, reads, asked>>

\* _ev_blocked: the prompt of the episode the pane is known to be in, or a
\* read when the bridge had none.
TakePrompt(p, episode, text) ==
    LET reads_it == req[p] = None /\ text = None
    IN
    /\ known[p].blocked /\ known[p].episode = episode
    /\ reads_it => reads < MaxReads
    /\ revision' = [revision EXCEPT ![p] = episode]
    /\ missing' = IF text = None THEN missing \cup {p} ELSE missing \ {p}
    /\ preread' = [preread EXCEPT ![p] = IF text # None THEN text ELSE @]
    /\ reads' = IF reads_it THEN reads + 1 ELSE reads
    /\ req' = [req EXCEPT ![p] = IF reads_it THEN reads + 1 ELSE @]
    /\ known' = known
    /\ asked' = IF reads_it THEN Ask(p, reads + 1) ELSE asked
    /\ detection' = IF drill = p /\ text # None THEN text
                    ELSE IF drill = p /\ reads_it THEN None ELSE detection
    /\ armed' = IF detection' # detection THEN Unarmed ELSE armed
    /\ UNCHANGED <<began, active>>

\* _ev_closed: the fallback of that episode is over.
TakeClosed(p, episode) ==
    /\ revision[p] = episode
    /\ revision' = [revision EXCEPT ![p] = 0]
    /\ missing' = missing \ {p}
    /\ UNCHANGED <<known, began, preread, req, active, reads, asked, detection, armed>>

\* An event of another episode than the runtime's is dropped.
Outdated(f) ==
    \/ f.kind = "prompt" /\ ~(known[f.p].blocked /\ known[f.p].episode = f.episode)
    \/ f.kind = "closed" /\ revision[f.p] # f.episode

Receive ==
    /\ up /\ down # <<>>
    /\ LET f == Head(down) IN
         \/ f.kind = "state"  /\ TakeState(f.p, f.state)
         \/ f.kind = "text"   /\ TakeText(f.p, f.req, f.text)
         \/ f.kind = "prompt" /\ TakePrompt(f.p, f.episode, f.text)
         \/ f.kind = "closed" /\ TakeClosed(f.p, f.episode)
         \/ /\ Outdated(f)
            /\ UNCHANGED <<known, began, cache, active, reads, asked, detection, armed>>
    /\ down' = Tail(down)
    /\ UNCHANGED <<events, pane, turns, sent, owed, reading, up, drill, unseen, drops>>

-----------------------------------------------------------------------------
\* _open_drill: a press on the tile, the triage loop or a banner; _next_req
\* registers the read for the episode only of a blocked pane, and the cached
\* prompt is painted at once.
RegisteredAlways(p) == reads + 1
Registered(p) == IF known[p].blocked THEN reads + 1 ELSE req[p]
\* Only a blocked pane is painted from the cache.
Seeded(p) == IF known[p].blocked THEN preread[p] ELSE None

Open(p) ==
    /\ reads < MaxReads /\ (up \/ OfflineDrills)
    /\ drill # p /\ known[p] # Unknown
    /\ drill' = p
    /\ reads' = reads + 1
    /\ active' = reads + 1
    /\ req' = [req EXCEPT ![p] = Registered(p)]
    /\ known' = known
    /\ asked' = Ask(p, reads + 1)
    /\ detection' = Seeded(p)
    /\ armed' = Unarmed
    /\ UNCHANGED <<events, pane, turns, sent, owed, reading, down, up, began, preread, missing,
                   revision, unseen, drops>>

\* Back, _expire_idle_view, an answer from elsewhere.
Close ==
    /\ drill # Nothing
    /\ drill' = Nothing /\ armed' = Unarmed
    /\ detection' \in {detection, None}
    /\ UNCHANGED <<events, pane, turns, wire, up, known, began, cache, active, reads, unseen,
                   drops>>

\* What the user reads on the deck when a confirmation is armed.
Seen == [p |-> drill, text |-> detection, term |-> known[drill].term, turn |-> known[drill].turn]

\* _press_drill on an option that asks for confirmation: the first press arms
\* it, the second within _CONFIRM_TTL_S sends the answer and leaves.
PressOption ==
    /\ drill # Nothing /\ up
    /\ known[drill].blocked /\ detection # None
    /\ IF armed = Unarmed
         THEN /\ armed' = Seen
              /\ UNCHANGED <<drill, unseen>>
         ELSE /\ unseen' = (unseen \/ armed # Seen)
              /\ armed' = Unarmed /\ drill' = Nothing
    /\ UNCHANGED <<events, pane, turns, wire, up, known, began, cache, active, reads, detection,
                   drops>>

ConfirmExpires ==
    /\ armed # Unarmed /\ armed' = Unarmed
    /\ UNCHANGED <<events, pane, turns, wire, up, known, began, cache, active, reads, drill,
                   detection, unseen, drops>>

\* _on_connection(down): the reads in flight die with the connection, and so
\* do their markers; a text stays as a hint.
MarkersKept == req
MarkersDropped == [p \in Panes |-> None]

Drop ==
    /\ up /\ drops < MaxDrops
    /\ drops' = drops + 1
    /\ up' = FALSE
    /\ asked' = <<>> /\ reading' = NoRead /\ down' = <<>>
    /\ req' = MarkersDropped
    /\ armed' = Unarmed
    /\ UNCHANGED <<events, pane, turns, sent, owed, known, began, preread, active, missing,
                   revision, reads, drill, detection, unseen>>

\* The list that follows a connect tells the runtime every pane, and the sync
\* every open episode.
Reconnect ==
    /\ ~up
    /\ up' = TRUE
    /\ sent' = [p \in Panes |-> Observed(p)]
    /\ owed' = [p \in Panes |-> events /\ pane[p].blocked]
    /\ down' = [i \in 1..Cardinality(Panes) |-> StateOf(SetToSeq(Panes)[i])]
    /\ UNCHANGED <<events, pane, turns, asked, reading, known, began, cache, active, reads,
                   deck, drops>>

Next ==
    \/ \E p \in Panes, blocked \in BOOLEAN, recycled \in BOOLEAN : Turn(p, blocked, recycled)
    \/ \E p \in Panes : Poll(p) \/ Open(p) \/ \E readable \in BOOLEAN : SendPrompt(p, readable)
    \/ Read \/ Answer \/ Receive
    \/ Close \/ PressOption \/ ConfirmExpires \/ Drop \/ Reconnect

Spec == Init /\ [][Next]_vars

-----------------------------------------------------------------------------
\* The options of a blocked agent come from a text read after the deck was
\* told of the block: "a pre-block or prior-episode capture must never feed
\* the blocked options", whatever reads and reports overtake each other.
OptionsAreOfThisBlock ==
    drill # Nothing /\ known[drill].blocked /\ detection # None
        => detection >= began[drill]

\* A blocked drill that shows nothing waits for a text it will accept: the
\* read or the prompt is on its way, over a new connection too.
BlankDrillIsRead ==
    \A p \in Panes :
        drill = p /\ up /\ detection = None /\ known[p].blocked
        /\ (\A i \in DOMAIN down : down[i].kind # "state") /\ Same(known[p], pane[p])
        => \/ \E i \in DOMAIN asked : asked[i].req = req[p]
           \/ reading # NoRead /\ reading.req = req[p]
           \/ \E i \in DOMAIN down : down[i].kind = "text" /\ down[i].req = req[p]
           \/ owed[p] \/ \E i \in DOMAIN down : down[i].kind = "prompt" /\ down[i].p = p

\* The second press sends what the first one armed: the same agent in the same
\* state with the same prompt on the deck, and no outage in between.
ConfirmsWhatWasSeen == ~unseen

\* What the user reads and answers in a drill is the block the agent is in.
DrillAnswersThisBlock == OptionsAreOfThisBlock /\ BlankDrillIsRead /\ ConfirmsWhatWasSeen
=============================================================================
