------------------------------- MODULE Answers -------------------------------
(***************************************************************************)
(* The ways one runtime answers a blocked agent: an option or a text on the *)
(* desktop card (agent_card.py), a button or a reply of a banner (live.py,  *)
(* answer_agent), an option of the drill on the deck.  Each way shows a     *)
(* prompt that was read some time ago and sends a request to the bridge,    *)
(* which checks and types it; meanwhile the agent goes on, people answer in *)
(* the terminal, and connections drop.                                      *)
(*                                                                          *)
(* One agent; questions are numbered, and a request names what its sender   *)
(* was looking at.  The bridge handles a request in one step: what can come *)
(* between its check and its typing is in EventHub.                         *)
(***************************************************************************)
EXTENDS Integers, Sequences, FiniteSets

CONSTANTS
    Events,       \* the bridge announces episodes and questions, and guards them
    Chooses,      \* protocol 3: choose_if_blocked
    Alike,        \* do all questions offer the same options?
    Ways,         \* the ways in play: options by "card", "banner", "drill", and
                  \* "reply" from a banner, "text", "stop", "focus" from the card
    WakesAtOnce,  \* the request of the card goes on before the next frame is read
    MaxQuestions, MaxRequests, MaxFaults,  \* bounds
    MaxReads      \* bound: reads, when somebody asks for another one

VARIABLES
    pane,       \* the question on the agent's screen, and its episode
    turns,      \* questions so far
    bridge,     \* the episode the bridge follows: its question, the answered one
    up,         \* _connected
    toBridge, toRuntime,   \* messages on their way
    block,      \* _block_episode
    preread,    \* _preread: the question the runtime has read, or a text without options
    reading,    \* _preread_req: the last read, and whether it is registered
    revision,   \* _ev_revision
    spent,      \* _answered_episodes
    banner,     \* the last banner
    card,       \* the question the card shows with options
    waits,      \* PendingReplies: requests the card waits for
    woken,      \* answers of the card whose outcome is known, to be spent
    asked,      \* the requests sent
    typed,      \* where each one was typed
    outcome,    \* what the card said of each one
    faults

ansVars == <<pane, turns, bridge, up, toBridge, toRuntime, block, preread, reading, revision, spent, banner, card, waits, woken, asked, typed, outcome, faults>>
ansWorld == <<pane, turns>>
ansView == <<banner, card>>
ansLog == <<waits, woken, asked, typed, outcome>>

Questions == 1..MaxQuestions
None == 0
NotTyped == -1
Plain == -1
NoBanner == [ep |-> None, sig |-> None, q |-> None]
NoEpisode == [ep |-> None, rev |-> None, answered |-> None]
Requests == DOMAIN asked
OptionsOf(q) == IF Alike THEN 1 ELSE q

TypeOK ==
  /\ pane.q \in 0..MaxQuestions /\ pane.ep \in 0..MaxQuestions /\ turns \in 0..MaxQuestions
  /\ {bridge.ep, bridge.rev, bridge.answered, block, revision, card} \subseteq 0..MaxQuestions
  /\ preread \in {None, Plain} \cup Questions
  /\ up \in BOOLEAN /\ reading.on \in BOOLEAN /\ reading.id >= 0 /\ spent \subseteq Questions
  /\ waits \subseteq Requests /\ woken \subseteq Requests /\ Len(asked) <= MaxRequests /\ faults \in 0..MaxFaults
  /\ DOMAIN typed = Requests /\ DOMAIN outcome = Requests

Init ==
  /\ pane = [q |-> None, ep |-> None] /\ turns = 0 /\ bridge = NoEpisode /\ up = TRUE
  /\ toBridge = << >> /\ toRuntime = << >> /\ block = None /\ preread = None
  /\ reading = [id |-> 0, on |-> FALSE] /\ revision = None /\ spent = {} /\ banner = NoBanner /\ card = None
  /\ waits = {} /\ woken = {} /\ asked = << >> /\ typed = << >> /\ outcome = << >> /\ faults = 0

Fault == faults < MaxFaults /\ faults' = faults + 1
----------------------------------------------------------------------------
(* The agent, and the bridge that watches it. *)

\* A question: the next one of the episode, or one of a new episode.
Ask ==
  /\ turns < MaxQuestions /\ turns' = turns + 1
  /\ \E ep \in {pane.ep, turns + 1} \ {None} : pane' = [q |-> turns + 1, ep |-> ep]
  /\ UNCHANGED <<bridge, up, toBridge, toRuntime, block, preread, reading, revision, spent, ansView, ansLog, faults>>
GoOn ==
  /\ pane.q # None /\ pane' = [q |-> None, ep |-> None]
  /\ UNCHANGED <<turns, bridge, up, toBridge, toRuntime, block, preread, reading, revision, spent, ansView, ansLog, faults>>

State(ep) == [kind |-> "state", ep |-> ep, q |-> None, req |-> 0]
Prompt(ep, q) == [kind |-> "prompt", ep |-> ep, q |-> q, req |-> 0]
Answered(ep) == [kind |-> "answered", ep |-> ep, q |-> None, req |-> 0]
Text(q, req) == [kind |-> "text", ep |-> None, q |-> q, req |-> req]
Result(req, code) == [kind |-> code, ep |-> None, q |-> None, req |-> req]

Tells(frames) == IF up THEN toRuntime \o frames ELSE toRuntime
Prompts(ep, q) == IF Events /\ ep # None THEN <<Prompt(ep, q)>> ELSE << >>

\* A poll finds another episode, or a re-read another question of this one.
BridgeLooks ==
  /\ bridge.ep # pane.ep \/ (Events /\ bridge.rev # pane.q)
  /\ IF bridge.ep # pane.ep
     THEN /\ bridge' = [ep |-> pane.ep, rev |-> pane.q, answered |-> None]
          /\ toRuntime' = Tells(<<State(pane.ep)>> \o Prompts(pane.ep, pane.q))
     ELSE /\ bridge' = [bridge EXCEPT !.rev = pane.q]
          /\ toRuntime' = Tells(Prompts(pane.ep, pane.q))
  /\ UNCHANGED <<ansWorld, up, toBridge, block, preread, reading, revision, spent, ansView, ansLog, faults>>

\* A list that has no news of this agent, where the runtime waits for one to read.
BridgeLists ==
  /\ ~Events /\ up /\ toRuntime = << >> /\ block # None /\ ~reading.on
  /\ toRuntime' = <<State(bridge.ep)>>
  /\ UNCHANGED <<ansWorld, bridge, up, toBridge, block, preread, reading, revision, spent, ansView, ansLog, faults>>
----------------------------------------------------------------------------
(* What the runtime hears. *)

Sends(m) == IF up THEN Append(toBridge, m) ELSE toBridge
ReadRequest(id) == [req |-> id, kind |-> "read", q |-> None, seen |-> None, ep |-> None, via |-> "none", claim |-> None, rev |-> None]

\* A read is registered as the one of this episode, and asked for.
Reads ==
  /\ reading' = [id |-> reading.id + 1, on |-> TRUE]
  /\ toBridge' = Sends(ReadRequest(reading.id + 1))
ReadsNot == UNCHANGED <<reading, toBridge>>
Unregistered == [reading EXCEPT !.on = FALSE]

\* A banner of the question the runtime has just learned.
BannerOf(q) == [ep |-> block', sig |-> OptionsOf(q), q |-> q]

\* _reconcile_prereads: only an agent that is not blocked any more drops what was read;
\* in the next episode the prompt of the last one stays until another one comes.
\* A bridge without events has no episode ids, and is asked for the prompt.
HearState(m) ==
  /\ m.kind = "state" /\ UNCHANGED <<spent, banner>>
  /\ block' = IF Events \/ None \in {m.ep, block} THEN m.ep ELSE block
  /\ revision' = IF block' = block THEN revision ELSE None
  /\ IF block' = None
     THEN preread' = None /\ reading' = Unregistered /\ UNCHANGED toBridge
     ELSE /\ UNCHANGED preread
          /\ IF Events \/ reading.on THEN ReadsNot ELSE Reads

\* _ev_blocked: the question of the episode.  One that changed after an answer
\* opens the episode again, and is alerted like the first.
Reopens(m) == revision \notin {None, m.q} /\ m.ep \in spent
HearPrompt(m) ==
  /\ m.kind = "prompt"
  /\ UNCHANGED <<block, reading, toBridge>>
  /\ IF m.ep = block /\ block # None
     THEN /\ preread' = m.q /\ revision' = m.q
          /\ spent' = IF Reopens(m) THEN spent \ {m.ep} ELSE spent
          /\ banner' = IF banner.ep # m.ep \/ Reopens(m) THEN BannerOf(m.q) ELSE banner
     ELSE UNCHANGED <<preread, revision, spent, banner>>

\* _cache_preread: the text of the read that is registered, while the agent is blocked.
\* What it reads of an agent that went on has no options.
HearText(m) ==
  LET accepted == reading.on /\ m.req = reading.id /\ block # None IN
  /\ m.kind = "text" /\ UNCHANGED <<block, reading, revision, spent, toBridge>>
  /\ preread' = IF ~accepted THEN preread ELSE IF m.q = None THEN Plain ELSE m.q
  /\ banner' = IF accepted /\ m.q # None /\ banner.ep # block THEN BannerOf(m.q) ELSE banner

\* _ev_answered: answered here or elsewhere.
HearAnswered(m) ==
  /\ m.kind = "answered" /\ spent' = spent \cup {m.ep}
  /\ UNCHANGED <<block, preread, reading, revision, toBridge, banner>>

Codes == {"sent", "stale", "not_blocked", "focused"}

\* _spend_answered_prompt: an answer that may have gone out closes its episode,
\* and the prompt has to be read again, unless the agent is in another episode.
Spend(ep, answered) ==
  /\ spent' = IF answered /\ ep # None THEN spent \cup {ep} ELSE spent
  /\ preread' = IF ep \in {None, block} THEN None ELSE preread
  /\ reading' = IF ep \in {None, block} THEN Unregistered ELSE reading

\* A card request has its outcome.
Options == {"choose", "keys"}
Settle(rs, code) ==
  /\ waits' = waits \ rs /\ outcome' = [r \in Requests |-> IF r \in rs THEN code ELSE outcome[r]]
  /\ woken' = woken \cup {r \in rs : asked[r].kind \in Options}
  /\ UNCHANGED <<asked, typed>>

\* The request goes on with its outcome: an answer spends the prompt.
Wake ==
  /\ \E r \in woken : woken' = woken \ {r} /\ Spend(asked[r].ep, outcome[r] \in {"sent", "pending"})
  /\ UNCHANGED <<ansWorld, bridge, up, toBridge, toRuntime, block, revision, ansView, waits, asked, typed, outcome, faults>>

\* PendingReplies.resolve: the reply of a request the card waits for.
HearResult(m) ==
  /\ m.kind \in Codes
  /\ IF m.req \in waits THEN Settle({m.req}, m.kind) ELSE UNCHANGED ansLog
  /\ UNCHANGED <<block, preread, reading, revision, spent, toBridge, banner>>

Hear ==
  /\ up /\ toRuntime # << >> /\ toRuntime' = Tail(toRuntime) /\ (WakesAtOnce => woken = {})
  /\ LET m == Head(toRuntime) IN
       \/ (HearState(m) \/ HearPrompt(m) \/ HearText(m) \/ HearAnswered(m)) /\ UNCHANGED ansLog
       \/ HearResult(m)
  /\ UNCHANGED <<ansWorld, bridge, up, card, faults>>

\* _card_send gives up waiting; the request goes on.
Timeout ==
  /\ \E r \in waits : Settle({r}, "pending")
  /\ UNCHANGED <<ansWorld, bridge, up, toBridge, toRuntime, block, preread, reading, revision, spent, ansView, faults>>

\* An error frame without a request fails every request that waits (fail_server).
AnonymousError ==
  /\ waits # {} /\ Fault /\ Settle(waits, "error")
  /\ UNCHANGED <<ansWorld, bridge, up, toBridge, toRuntime, block, preread, reading, revision, spent, ansView>>
----------------------------------------------------------------------------
(* The card. *)

\* _episode_spent: only an events bridge opens an episode again.
Spent(ep) == Events /\ ep \in spent

\* card_detail: the prompt with its options; it is read again when there is none and
\* none is on its way, or when somebody asks for it.
CardDetail(refresh) ==
  LET open == block # None /\ ~Spent(block) IN
  /\ card' = IF open /\ preread \in Questions THEN preread ELSE None
  /\ IF up /\ open /\ (refresh \/ (preread = None /\ ~reading.on)) THEN Reads ELSE ReadsNot
  /\ refresh => reading.id < MaxReads
  /\ <<card', reading'>> # <<card, reading>>
  /\ UNCHANGED <<ansWorld, bridge, up, toRuntime, block, preread, revision, spent, banner, ansLog, faults>>

\* _stamp_answer: the episode and the question as the runtime knows them.
Stamp(m) == IF Events THEN [m EXCEPT !.claim = block, !.rev = revision] ELSE m
Request(via, kind, q, seen) ==
  Stamp([req |-> Len(asked) + 1, kind |-> kind, q |-> q, seen |-> seen, ep |-> block, via |-> via, claim |-> None, rev |-> None])
Send(m) ==
  /\ up /\ Len(asked) < MaxRequests /\ toBridge' = Append(toBridge, m)
  /\ asked' = Append(asked, m) /\ typed' = Append(typed, NotTyped) /\ outcome' = Append(outcome, "none")
\* _card_send waits for the reply.
SendAndWait(m) == Send(m) /\ UNCHANGED woken /\ waits' = waits \cup {m.req}

\* _blocked_option_command.
OptionKind == IF Chooses THEN "choose" ELSE "keys"

\* Mutant: what the card shows is not compared with what was read since.
Answerable(q) == q \in Questions
\* card_answer: only the prompt that is still the one read last.
IsShown(q) == q \in Questions /\ card = q

CardAnswer ==
  /\ "card" \in Ways /\ block # None /\ card # None /\ IsShown(preread)
  /\ SendAndWait(Request("card", OptionKind, preread, card))
  /\ UNCHANGED <<ansWorld, bridge, up, toRuntime, block, preread, reading, revision, spent, ansView, faults>>

\* card_text, card_stop, card_focus.
CardOther ==
  /\ \E kind \in Ways \cap {"text", "stop", "focus"} : SendAndWait(Request("card", kind, None, card))
  /\ UNCHANGED <<ansWorld, bridge, up, toRuntime, block, preread, reading, revision, spent, ansView, faults>>
----------------------------------------------------------------------------
(* The banner and the deck. *)

\* binary_answer: the option list of the prompt.
Sig(q) == IF q \in Questions THEN OptionsOf(q) ELSE None

\* A reply of a banner is only compared by episode.
Open == banner.ep # None /\ banner.ep = block /\ block \notin spent
\* answer_agent: the episode of the banner, not answered, with the same options.
Current == Open /\ Sig(preread) # None /\ Sig(preread) = banner.sig

BannerAnswer ==
  /\ "banner" \in Ways /\ Current
  /\ Send(Request("banner", OptionKind, preread, banner.q)) /\ Spend(block, TRUE)
  /\ UNCHANGED <<ansWorld, bridge, up, toRuntime, block, revision, ansView, waits, woken, faults>>
BannerReply ==
  /\ "reply" \in Ways /\ Open
  /\ Send(Request("banner", "text", None, banner.q)) /\ Spend(block, TRUE)
  /\ UNCHANGED <<ansWorld, bridge, up, toRuntime, block, revision, ansView, waits, woken, faults>>

\* _press_drill: the deck answers what it has read, and spends nothing.
DrillAnswer ==
  /\ "drill" \in Ways /\ block # None /\ preread \in Questions
  /\ Send(Request("drill", "keys", preread, preread))
  /\ UNCHANGED <<ansWorld, bridge, up, toRuntime, block, preread, reading, revision, spent, ansView, waits, woken, faults>>
----------------------------------------------------------------------------
(* The bridge handles a message. *)

\* begin_answer reads the question again before it refuses an answered episode.
\* (What such a read brings of an agent that went on is in EventHub.)
Reread(m) ==
  IF m.claim = bridge.ep /\ bridge.answered = bridge.rev /\ pane.q # None THEN pane.q ELSE bridge.rev
IsAnswer(m) == m.kind \in {"choose", "keys", "text"}

\* A claimed episode that is over, or whose question was answered.
Refuses(m) ==
  /\ Events /\ IsAnswer(m) /\ m.claim # None
  /\ \/ m.claim # bridge.ep
     \/ /\ bridge.answered # None
        /\ Reread(m) = bridge.answered \/ m.rev \notin {None, Reread(m), bridge.answered}

\* handle_client_message: an option only at the prompt it was made for.
ChoosesThis(m) == pane.q = m.q

Code(m) ==
  CASE m.kind = "focus" -> "focused"
    [] Refuses(m) -> "stale"
    [] m.kind = "choose" /\ ~ChoosesThis(m) -> IF pane.q = None THEN "not_blocked" ELSE "stale"
    [] m.kind = "keys" /\ pane.q = None -> "not_blocked"
    [] OTHER -> "sent"

\* end_answer: an answer that went out is reported to every runtime.
Tracked(m) == Events /\ IsAnswer(m) /\ bridge.ep # None
Announces(m) == IF Reread(m) # bridge.rev THEN Prompts(bridge.ep, Reread(m)) ELSE << >>

HandleAnswer(m) ==
  LET code == Code(m) IN
  /\ typed' = [typed EXCEPT ![m.req] = IF code = "sent" THEN pane.q ELSE @]
  /\ bridge' = [bridge EXCEPT !.rev = IF Tracked(m) THEN Reread(m) ELSE @,
                              !.answered = IF Tracked(m) /\ code = "sent" THEN Reread(m) ELSE @]
  /\ toRuntime' = Tells((IF Tracked(m) THEN Announces(m) ELSE << >>)
                        \o (IF Tracked(m) /\ code = "sent" THEN <<Answered(bridge.ep)>> ELSE << >>)
                        \o <<Result(m.req, code)>>)
  /\ UNCHANGED pane
HandleStop(m) ==
  /\ m.kind = "stop" /\ pane' = [q |-> None, ep |-> None]
  /\ typed' = [typed EXCEPT ![m.req] = pane.q]
  /\ toRuntime' = Tells(<<Result(m.req, "sent")>>) /\ UNCHANGED bridge
HandleRead(m) ==
  m.kind = "read" /\ toRuntime' = Tells(<<Text(pane.q, m.req)>>) /\ UNCHANGED <<pane, bridge, typed>>

Handle ==
  /\ toBridge # << >> /\ toBridge' = Tail(toBridge)
  /\ LET m == Head(toBridge) IN
       \/ HandleRead(m) \/ HandleStop(m)
       \/ m.kind \notin {"read", "stop"} /\ HandleAnswer(m)
  /\ UNCHANGED <<turns, up, block, preread, reading, revision, spent, ansView, waits, woken, asked, outcome, faults>>

\* The connection drops: what waits for a reply is disconnected.
Drop ==
  /\ up /\ Fault /\ up' = FALSE /\ toRuntime' = << >>
  /\ \E lost \in BOOLEAN : toBridge' = IF lost THEN << >> ELSE toBridge
  /\ Settle(waits, "disconnected") /\ reading' = Unregistered
  /\ UNCHANGED <<ansWorld, bridge, block, preread, revision, spent, ansView>>

\* The new connection tells the list and the open episode.
Replay ==
  IF ~Events \/ bridge.ep = None THEN << >>
  ELSE IF bridge.answered = None THEN <<Prompt(bridge.ep, bridge.rev)>>
  ELSE IF bridge.answered = bridge.rev THEN <<Prompt(bridge.ep, bridge.rev), Answered(bridge.ep)>>
  ELSE <<Answered(bridge.ep), Prompt(bridge.ep, bridge.rev)>>
Connect ==
  /\ ~up /\ toBridge = << >> /\ up' = TRUE /\ toRuntime' = <<State(bridge.ep)>> \o Replay
  /\ UNCHANGED <<ansWorld, bridge, toBridge, block, preread, reading, revision, spent, ansView, ansLog, faults>>

Next ==
  \/ Ask \/ GoOn \/ BridgeLooks \/ BridgeLists \/ Hear \/ Wake \/ Timeout \/ AnonymousError
  \/ (\E refresh \in BOOLEAN : CardDetail(refresh)) \/ CardAnswer \/ CardOther \/ BannerAnswer \/ BannerReply \/ DrillAnswer
  \/ Handle \/ Drop \/ Connect

Spec == Init /\ [][Next]_ansVars
----------------------------------------------------------------------------
\* An option of the card is typed at the question the card showed, an option of a
\* banner at the question of the banner, however old either is.
OptionsHitTheirQuestion ==
  \A r \in Requests :
    asked[r].kind = "choose" /\ typed[r] # NotTyped => typed[r] = asked[r].seen

\* "A prompt is answered exactly once whoever gets there first": of the answers
\* that card, banner and deck make for a question the bridge has announced, one at
\* most is typed into it.
AnswersIts(r) ==
  IsAnswer(asked[r]) /\ typed[r] # None /\ typed[r] = asked[r].seen /\ typed[r] = asked[r].rev
OnceFromHere == \A r, s \in Requests : AnswersIts(r) /\ AnswersIts(s) /\ typed[r] = typed[s] => r = s

\* What the card says of a request is what became of that request.
OutcomesAreTrue ==
  \A r \in Requests :
    /\ outcome[r] = "sent" => typed[r] # NotTyped
    /\ outcome[r] \in {"stale", "not_blocked"} => typed[r] = NotTyped

\* A question nobody answered stays answerable: when all is told in time, the
\* runtime does not take its episode for answered.
OpenStaysOpen ==
  (/\ Events /\ up /\ faults = 0 /\ toRuntime = << >> /\ toBridge = << >> /\ waits = {} /\ woken = {}
   /\ \A r \in Requests : outcome[r] # "pending"
   /\ pane.q # None /\ bridge.ep = pane.ep /\ bridge.rev = pane.q /\ bridge.answered # pane.q)
    => block \notin spent

AnswersAreMeant == OptionsHitTheirQuestion /\ OnceFromHere /\ OutcomesAreTrue /\ OpenStaysOpen
============================================================================
