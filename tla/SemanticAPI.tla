---------------------------- MODULE SemanticAPI ----------------------------
(***************************************************************************)
(* The cockpit API of a runtime (semantic_api.py, app_control.py and the   *)
(* wiring of deckapp/services.py): a caller acts on the agent of one pane  *)
(* under an idempotency key, stops it only with a confirmation that was    *)
(* issued for exactly this, answers a question with a choice that was read *)
(* from it, and the source behind it may be swapped.                       *)
(*                                                                         *)
(* Everything but the swap and the snapshots runs on the loop of the       *)
(* services, so a handler is one step up to its await. A response is left  *)
(* out, that one was stored is not. A key stands for a caller and its key. *)
(* A revision (decisions.py) is the hash of a terminal and its prompt; here *)
(* it is the pair. What the bridge does with an approval or a text is left *)
(* out, see EventHub; of a choice it compares the revision with the pane.  *)
(***************************************************************************)
EXTENDS Integers, Sequences, FiniteSets, SequencesExt

CONSTANTS
    Keys,            \* the (caller, idempotency key) pairs
    CallerOf,        \* the caller of each
    Terminals,       \* the terminals the pane has one after the other
    Ops,             \* what is asked for: "approve", "stop", "text", "choice"
    KeyTtl,          \* IDEMPOTENCY_TTL_S
    ConfirmTtl,      \* STOP_CONFIRM_TTL_S
    KeyLimit,        \* IDEMPOTENCY_LIMIT
    ConfirmLimit,    \* STOP_CONFIRM_LIMIT
    SwapsAtOnce,     \* no request runs between the wiring and the swap
    HoldsStill,      \* the pane does not go on between the bridge's look and its keys
    MaxNow,          \* bound: clock
    MaxIssued,       \* bound: confirmations issued
    MaxGen,          \* bound: changes of the agent one source sees
    MaxReloads,      \* bound: reloads
    MaxQuestions     \* bound: questions the agent asks

VARIABLES
    now,
    results,      \* _results: key -> until when its response is kept
    executions,   \* _inflight with its task and request: key -> stage
    challenges,   \* _challenges, oldest first
    wire,         \* _wire_generation
    wiring,       \* a reload between wire() and swap_source()
    source,       \* the current source: its number and what it knows
    asked,        \* history: what every confirmation was issued for
    spent,        \* history: confirmations a command was sent with
    sentAt,       \* history: when each key last sent a command
    pane,         \* its terminal, the questions it had, and the one it shows or 0
    looking,      \* a decisions request: what it is for and what it has read
    told,         \* the revisions callers were given
    bridge        \* the choices sent to the bridge, in the order of their requests

requests == <<results, executions, challenges, asked, spent, sentAt>>
wires    == <<wire, wiring, source>>
choices  == <<pane, looking, told, bridge>>
semanticVars == <<now, results, executions, challenges, wire, wiring, source,
                  asked, spent, sentAt, pane, looking, told, bridge>>

Idle == [stage |-> "idle"]
Never == -1

\* A request body: what is asked, the terminal it is meant for, a confirmation or 0,
\* the question it chooses for or 0.
Payloads ==
  [op : Ops \ {"choice"}, term : Terminals, conf : 0..MaxIssued, rev : {0}] \cup
  [op : Ops \cap {"choice"}, term : Terminals, conf : {0}, rev : 1..MaxQuestions]

Init ==
  /\ now = 0
  /\ results = [k \in Keys |-> Never]
  /\ executions = [k \in Keys |-> Idle]
  /\ challenges = << >>
  /\ wire = 1 /\ wiring = FALSE
  /\ source = [id |-> 1, gen |-> 0, term |-> 0, blocked |-> FALSE, ready |-> FALSE]
  /\ asked = << >> /\ spent = {}
  /\ sentAt = [k \in Keys |-> Never]
  /\ pane = [term |-> 1, asks |-> 0, shows |-> 0]
  /\ looking = Idle /\ told = {} /\ bridge = << >>

(***************************************************************************)
(* What the helpers answer.                                                *)
(***************************************************************************)
Resolves(p) == source.term = p.term

\* The generation a confirmation is tied to.
Generation == <<wire, source.gen>>

\* Stopping always does, an approval where the safety settings ask for it.
NeedsConfirmation(op) == op \in {"approve", "stop"}

\* Approvals of an agent that is not blocked are skipped.
Skipped(p) == p.op = "approve" /\ ~source.blocked

Kept(k) == results[k] > now

FullWithout(k) ==
  /\ ~Kept(k) /\ executions[k] = Idle
  /\ Cardinality({j \in Keys : Kept(j)})
       + Cardinality({j \in Keys : executions[j] # Idle}) >= KeyLimit

\* A repeated request is answered from the store, or is a conflict: nothing changes.
Stored(k, ttl) == [results EXCEPT ![k] = now + ttl]

\* The oldest challenges go when there are too many.
Issued(c) ==
  Append(IF Len(challenges) >= ConfirmLimit THEN Tail(challenges) ELSE challenges, c)

\* Mutant: the confirmation is not tied to the state of the agent.
FitsStale(c, k, p) ==
  c.caller = CallerOf[k] /\ c.p = [p EXCEPT !.conf = 0] /\ c.generation[1] = Generation[1]

\* A challenge is taken off whether it fits or not.
Fits(c, k, p) ==
  /\ c.caller = CallerOf[k] /\ c.p = [p EXCEPT !.conf = 0]
  /\ c.generation = Generation

Consumes(k, p) == \E c \in ToSet(challenges) : c.id = p.conf /\ Fits(c, k, p)

\* What a prompt is known by: the terminal it was read from and what it says.
Revision(t, q) == <<t, q>>

(***************************************************************************)
(* A request is answered from the store, refused, answered with a          *)
(* confirmation, joined to the one in flight, or it starts an execution.   *)
(***************************************************************************)
Free(k) == ~Kept(k) /\ ~FullWithout(k)

Handled == wiring => ~SwapsAtOnce

SkipAtOnce(k, p) ==
  /\ Handled /\ Free(k) /\ NeedsConfirmation(p.op) /\ p.conf = 0
  /\ Resolves(p) /\ source.ready /\ Skipped(p)
  /\ results' = Stored(k, KeyTtl)
  /\ UNCHANGED <<now, executions, challenges, wires, asked, spent, sentAt, choices>>

AskConfirmation(k, p) ==
  /\ Handled /\ Free(k) /\ NeedsConfirmation(p.op) /\ p.conf = 0
  /\ Resolves(p) /\ source.ready /\ ~Skipped(p)
  /\ Len(asked) < MaxIssued
  /\ asked' = Append(asked, [caller |-> CallerOf[k], p |-> p, until |-> now + ConfirmTtl,
                             source |-> source.id, gen |-> source.gen])
  /\ challenges' = Issued([id |-> Len(asked'), caller |-> CallerOf[k], p |-> p,
                           until |-> now + ConfirmTtl, generation |-> Generation])
  /\ results' = Stored(k, ConfirmTtl)
  /\ UNCHANGED <<now, executions, wires, spent, sentAt, choices>>

\* Mutant: two requests with one key both execute.
ClaimsAnyway(k) == executions[k].stage # "start"

\* With one in flight the request joins it or is a conflict.
Claims(k) == executions[k] = Idle

Start(k, p) ==
  /\ Handled /\ Free(k)
  /\ Claims(k)
  /\ executions' = [executions EXCEPT ![k] = [stage |-> "start", p |-> p]]
  /\ UNCHANGED <<now, results, challenges, wires, asked, spent, sentAt, choices>>

\* An action with its confirmation, a text, a choice with the revision of a decision.
Act(k, p) == p.op \in {"approve", "stop"} /\ p.conf \in 1..Len(asked) /\ Start(k, p)
SendText(k, p) == p.op = "text" /\ p.conf = 0 /\ Start(k, p)
Choose(k, p) == p.op = "choice" /\ Revision(p.term, p.rev) \in told /\ Start(k, p)

(***************************************************************************)
(* The task of an execution: a refusal or the command, then its result.    *)
(***************************************************************************)
\* _complete: whatever the response is, it is kept.
Completes(k) ==
  /\ executions' = [executions EXCEPT ![k] = Idle]
  /\ results' = Stored(k, KeyTtl)

RefusedText(p) == ~Resolves(p) \/ ~source.ready

\* A choice is for an agent that is blocked, as far as the runtime knows.
RefusedChoice(p) == ~Resolves(p) \/ ~source.ready \/ ~source.blocked

RefusedAction(p) == ~Resolves(p) \/ ~source.ready \/ Skipped(p)

Refused(p) ==
  CASE p.op = "text" -> RefusedText(p)
    [] p.op = "choice" -> RefusedChoice(p)
    [] OTHER -> RefusedAction(p)

Refuse(k) ==
  /\ Handled /\ executions[k].stage = "start"
  /\ LET p == executions[k].p
         unfit == ~Refused(p) /\ NeedsConfirmation(p.op) /\ ~Consumes(k, p)
     IN  /\ Refused(p) \/ unfit
         /\ challenges' = IF unfit THEN SelectSeq(challenges, LAMBDA c : c.id # p.conf)
                          ELSE challenges
  /\ Completes(k)
  /\ UNCHANGED <<now, wires, asked, spent, sentAt, choices>>

Sent(k) ==
  /\ executions' = [executions EXCEPT ![k] = [stage |-> "sent", p |-> executions[k].p,
                                              req |-> Len(bridge')]]
  /\ sentAt' = [sentAt EXCEPT ![k] = now]

\* The confirmation is taken off and the command goes out in one step.
SendAction(k) ==
  /\ Handled /\ executions[k].stage = "start"
  /\ LET p == executions[k].p
     IN  /\ p.op \in {"approve", "stop"} /\ ~Refused(p)
         /\ NeedsConfirmation(p.op) => Consumes(k, p)
         /\ challenges' = SelectSeq(challenges, LAMBDA c : c.id # p.conf)
         /\ spent' = spent \cup ({p.conf} \ {0})
  /\ bridge' = bridge /\ Sent(k)
  /\ UNCHANGED <<now, results, wires, asked, pane, looking, told>>

SendsText(k) ==
  /\ Handled /\ executions[k].stage = "start"
  /\ executions[k].p.op = "text" /\ ~Refused(executions[k].p)
  /\ bridge' = bridge /\ Sent(k)
  /\ UNCHANGED <<now, results, challenges, wires, asked, spent, pane, looking, told>>

\* A choice goes to the bridge with the revision it is for.
SendsChoice(k) ==
  /\ Handled /\ executions[k].stage = "start"
  /\ LET p == executions[k].p
     IN  /\ p.op = "choice" /\ ~Refused(p)
         /\ bridge' = Append(bridge, [term |-> p.term, rev |-> p.rev, stage |-> "sent"])
  /\ Sent(k)
  /\ UNCHANGED <<now, results, challenges, wires, asked, spent, pane, looking, told>>

\* The result is for this request: the connector's thread hands it over to the loop.
\* Nobody waits any more for one that comes after the time-out.
Owned(k) ==
  executions[k].p.op = "choice" => bridge[executions[k].req].stage \in {"typed", "refused"}

Deliver(k) ==
  /\ executions[k].stage = "sent" /\ Owned(k) /\ Completes(k)
  /\ UNCHANGED <<now, challenges, wires, asked, spent, sentAt, choices>>

\* The bridge may still act on a request the caller was told the time was up for.
TimesOut(k) ==
  /\ executions[k].stage = "sent" /\ Completes(k)
  /\ UNCHANGED <<now, challenges, wires, asked, spent, sentAt, choices>>

(***************************************************************************)
(* Decisions: the prompt is read through the bridge, and the agent must    *)
(* still be the one that was asked for when the reply is there.            *)
(***************************************************************************)
Decidable(t) == source.term = t /\ source.ready /\ source.blocked

AskDecisions(t) ==
  /\ "choice" \in Ops /\ Handled /\ looking = Idle /\ Decidable(t)
  /\ looking' = [stage |-> "asked", term |-> t, shows |-> 0]
  /\ UNCHANGED <<now, requests, wires, pane, told, bridge>>

\* The bridge looks which terminal it is, then reads it; the pane may change between.
ReadPrompt ==
  /\ \/ looking.stage = "asked"
        /\ looking' = [looking EXCEPT !.stage = IF pane.term = looking.term
                                                 THEN "checked" ELSE "read"]
     \/ looking.stage = "checked"
        /\ looking' = [looking EXCEPT !.stage = "read", !.shows = pane.shows]
  /\ UNCHANGED <<now, requests, wires, pane, told, bridge>>

TellDecisions ==
  /\ looking.stage = "read" /\ looking' = Idle
  /\ told' = IF Decidable(looking.term) /\ looking.shows # 0
             THEN told \cup {Revision(looking.term, looking.shows)} ELSE told
  /\ UNCHANGED <<now, requests, wires, pane, bridge>>

ReadTimesOut ==
  /\ looking # Idle /\ looking' = Idle
  /\ UNCHANGED <<now, requests, wires, pane, told, bridge>>

\* Mutant: the bridge believes the revision if the agent is blocked at all.
LooksOnlyAtStatus(c) == pane.term = c.term /\ pane.shows # 0

\* The bridge compares terminal, status and prompt with the choice it got.
StillAsks(c) == pane.term = c.term /\ pane.shows = c.rev

Look(i) ==
  /\ bridge[i].stage = "sent"
  /\ bridge' = [bridge EXCEPT ![i].stage = IF StillAsks(bridge[i]) THEN "fits" ELSE "refused"]
  /\ UNCHANGED <<now, requests, wires, pane, looking, told>>

Type(i) ==
  /\ bridge[i].stage = "fits"
  /\ bridge' = [bridge EXCEPT ![i].stage = "typed"]
  /\ UNCHANGED <<now, requests, wires, pane, looking, told>>

\* The agent asks, goes on, or another terminal takes the pane.
PaneMoves(t, asks) ==
  /\ t >= pane.term /\ (asks => pane.asks < MaxQuestions)
  /\ HoldsStill => \A i \in DOMAIN bridge : bridge[i].stage # "fits"
  /\ pane' = [term |-> t, asks |-> pane.asks + (IF asks THEN 1 ELSE 0),
              shows |-> IF asks THEN pane.asks + 1 ELSE 0]
  /\ pane' # pane
  /\ UNCHANGED <<now, requests, wires, looking, told, bridge>>

(***************************************************************************)
(* The source: snapshots, a lost connection, and the reload that wires the *)
(* next source before it swaps it in.                                      *)
(***************************************************************************)
Snapshot(t, b) ==
  /\ source' = [source EXCEPT !.term = t, !.blocked = b, !.ready = TRUE,
                  !.gen = IF source.term = t /\ source.blocked = b THEN @ ELSE @ + 1]
  /\ source'.gen <= MaxGen
  /\ UNCHANGED <<now, requests, wire, wiring, choices>>

Disconnect ==
  /\ source.ready /\ source.gen < MaxGen
  /\ source' = [source EXCEPT !.ready = FALSE, !.gen = @ + 1]
  /\ UNCHANGED <<now, requests, wire, wiring, choices>>

Wired == wire + 1

Wire ==
  /\ ~wiring /\ source.id <= MaxReloads /\ wire <= MaxReloads
  /\ wiring' = TRUE /\ wire' = Wired
  /\ UNCHANGED <<now, requests, source, choices>>

Swap ==
  /\ wiring /\ wiring' = FALSE
  /\ source' = [id |-> source.id + 1, gen |-> 0, term |-> 0, blocked |-> FALSE, ready |-> FALSE]
  /\ UNCHANGED <<now, requests, wire, choices>>

\* The new source cannot be shown: the old one is wired again.
SwapFails ==
  /\ wiring /\ wiring' = FALSE /\ wire' = Wired
  /\ UNCHANGED <<now, requests, source, choices>>

\* What has expired is dropped before anything is looked up (_prune).
Tick ==
  /\ now < MaxNow /\ now' = now + 1
  /\ results' = [k \in Keys |-> IF results[k] > now' THEN results[k] ELSE Never]
  /\ challenges' = SelectSeq(challenges, LAMBDA c : c.until > now')
  /\ UNCHANGED <<executions, wire, wiring, source, asked, spent, sentAt, choices>>

Next ==
  \/ \E k \in Keys, p \in Payloads :
       \/ SkipAtOnce(k, p) \/ AskConfirmation(k, p)
       \/ Act(k, p) \/ SendText(k, p) \/ Choose(k, p)
  \/ \E k \in Keys :
       \/ Refuse(k) \/ SendAction(k) \/ SendsText(k) \/ SendsChoice(k)
       \/ Deliver(k) \/ TimesOut(k)
  \/ \E t \in Terminals : AskDecisions(t)
  \/ ReadPrompt \/ TellDecisions \/ ReadTimesOut
  \/ \E i \in DOMAIN bridge : Look(i) \/ Type(i)
  \/ \E t \in Terminals, b \in BOOLEAN : PaneMoves(t, b)
  \/ \E t \in Terminals, b \in BOOLEAN : Snapshot(t, b)
  \/ Disconnect \/ Wire \/ Swap \/ SwapFails \/ Tick

Spec == Init /\ [][Next]_semanticVars

(***************************************************************************)
(* Properties                                                              *)
(***************************************************************************)
TypeOK ==
  /\ now \in 0..MaxNow
  /\ \A k \in Keys : /\ results[k] \in {Never} \cup 0..MaxNow + KeyTtl
                     /\ executions[k].stage \in {"idle", "start", "sent"}
                     /\ sentAt[k] \in {Never} \cup 0..MaxNow
  /\ Len(challenges) <= ConfirmLimit /\ Len(asked) <= MaxIssued
  /\ wire \in 1..2 * MaxReloads + 1 /\ wiring \in BOOLEAN
  /\ spent \subseteq 1..MaxIssued
  /\ pane \in [term : Terminals, asks : 0..MaxQuestions, shows : 0..MaxQuestions]
  /\ told \subseteq Terminals \X (1..MaxQuestions)
  /\ \A i \in DOMAIN bridge : /\ bridge[i].stage \in {"sent", "fits", "typed", "refused"}
                              /\ Revision(bridge[i].term, bridge[i].rev) \in told

Sends(k) == executions[k].stage = "start" /\ executions'[k].stage = "sent"

\* However often a client repeats a request, joins one in flight or hears that the time
\* was up, its key sends one command for as long as the key is kept (_claim, _complete).
OncePerKey ==
  \A k \in Keys : Sends(k) => sentAt[k] = Never \/ now - sentAt[k] >= KeyTtl

\* An agent is stopped (or approved, when that asks for it) only with a confirmation issued to this caller, for this terminal,
\* by the source in use and with nothing of the agent changed since; and with it once
\* (_consume_challenge, RuntimeServices._generation).
ConfirmedForThis ==
  \A k \in Keys :
    LET p == executions[k].p
    IN  Sends(k) /\ NeedsConfirmation(p.op) =>
          /\ p.conf \notin spent
          /\ asked[p.conf].caller = CallerOf[k] /\ asked[p.conf].p.term = p.term
          /\ asked[p.conf].p.op = p.op
          /\ asked[p.conf].source = source.id /\ asked[p.conf].gen = source.gen
          /\ now < asked[p.conf].until

\* The store never grows past its limit, although a confirmation of a key may be kept
\* next to that key's execution (_capacity_error).
StoreIsBounded ==
  Cardinality({k \in Keys : Kept(k) \/ executions[k] # Idle}) <= KeyLimit

\* A choice is typed only into the question, on the terminal, its caller was told of:
\* not into the next one of the agent, nor into what a new terminal shows, however late
\* the read, the request or its delivery is (decisions, choose, choose_if_blocked).
ChoicesAreMeant ==
  \A i \in DOMAIN bridge :
    bridge[i].stage = "fits" /\ bridge'[i].stage = "typed" =>
      pane.term = bridge[i].term /\ pane.shows = bridge[i].rev

SendsAreMeant == [][OncePerKey /\ ConfirmedForThis /\ ChoicesAreMeant]_semanticVars
=============================================================================
