------------------------------ MODULE EventHub ------------------------------
(***************************************************************************)
(* The lifecycle core of a herdeck bridge: blocked/done episodes, the      *)
(* pre-read of a blocked prompt, and the gate that lets one answer through *)
(* (src/herdeck/events.py, bridge_answers.py and the answer branches of    *)
(* bridge.handle_client_message).                                          *)
(*                                                                         *)
(* The event loop runs one coroutine at a time, so an action is the code   *)
(* between two awaits.  Reads of a pane are RPCs of their own: each has a  *)
(* start, the moment herdr captures the screen, and the moment its result  *)
(* is applied; any other coroutine may run in between.                     *)
(***************************************************************************)
EXTENDS Naturals, Sequences, FiniteSets, TLC

CONSTANTS
  Panes,             \* the panes herdr shows
  Prompts,           \* texts of a question on a pane (its revision)
  Output,            \* what a pane shows when it asks nothing
  None,              \* Python's None
  Unread,            \* "": answered while the prompt was unknown
  Requests,          \* answer messages, each handled once by its connection
  Kinds,             \* message types in play
  MaxTurns,          \* bound: how many times an agent changes its state
  Rereads,           \* len(ANSWER_REREAD_DELAYS)
  ReadsMayFail,      \* a pane read may fail or time out
  ReadsInOrder,      \* herdr answers one pane read before it takes the next
  RpcMayFail,        \* a typing RPC may fail, before or after it took effect
  TerminalTyping,    \* a person may also answer in the terminal itself
  UnclaimedAnswers   \* older clients answer without an episode_id

AnswerMessages == {"act", "send_text", "choose_if_blocked"}
Texts == Prompts \cup {Output}
Turns == 1..MaxTurns
EpisodeIds == Panes \X Turns

ASSUME ConstantsAssumption ==
  /\ MaxTurns \in Nat \ {0}
  /\ Rereads \in Nat \ {0}
  /\ Kinds \subseteq AnswerMessages
  /\ None \notin Texts \cup {Unread} \cup EpisodeIds
  /\ Unread \notin Texts
  /\ Output \notin Prompts
  /\ Requests \cap EpisodeIds = {}
  /\ Texts \cap {"idle", "asked"} = {}
  /\ {ReadsMayFail, ReadsInOrder, RpcMayFail, TerminalTyping, UnclaimedAnswers}
       \subseteq BOOLEAN

VARIABLES
  agent,    \* herdr's truth per pane: status, screen, turn, who typed into it
  seen,     \* the status clock: per pane the status last stamped and its since
  snap,     \* the stamped snapshot _broadcast is sending out, or None
  open,     \* EventHub._episodes: pane -> open episode, or None
  eps,      \* the Episode objects (they outlive their place in `open`)
  shot,     \* pane reads in flight: "idle", "asked", or the captured text
  req,      \* answer requests: where the handler of each one stands
  emitted   \* per episode, the event frames emitted for it, oldest first

vars == <<agent, seen, snap, open, eps, shot, req, emitted>>
hubVars == <<open, eps, shot, req, emitted>>

Statuses == {"working", "blocked", "done"}
OpenKinds == {"blocked", "done"}
CloseKind(kind) == IF kind = "blocked" THEN "unblocked" ELSE "cleared"
CloseKinds == {"unblocked", "cleared"}
Readers == EpisodeIds \cup Requests

Frame(kind, rev) == [kind |-> kind, rev |-> rev]
Frames == [kind : OpenKinds \cup CloseKinds \cup {"answered"}, rev : Texts \cup {None}]

NewEpisode(kind) ==
  [kind |-> kind, revision |-> None, announced |-> kind = "done",
   answered |-> None, answering |-> FALSE,
   reading |-> IF kind = "blocked" THEN "first" ELSE "no"]

Message(kind, p, claim, rev) ==
  [pc |-> "idle", kind |-> kind, pane |-> p, claim |-> claim, rev |-> rev,
   ticket |-> None, base |-> None, tries |-> 0]

NewRequest == Message(None, None, None, None)

Init ==
  /\ agent = [p \in Panes |-> [status |-> "working", screen |-> Output, turn |-> 1, typed |-> {}]]
  /\ seen = [p \in Panes |-> [status |-> "working", since |-> 1]]
  /\ snap = None
  /\ open = [p \in Panes |-> None]
  /\ eps = [e \in EpisodeIds |-> [NewEpisode("blocked") EXCEPT !.reading = "no"]]
  /\ shot = [s \in Readers |-> "idle"]
  /\ req = [r \in Requests |-> NewRequest]
  /\ emitted = [e \in EpisodeIds |-> << >>]

-----------------------------------------------------------------------------
(* The agents, outside the bridge.  A blocked agent moves on when somebody *)
(* answered it: through the bridge, or in the terminal.                    *)

Turn(p, status, text) ==
  /\ agent[p].turn < MaxTurns
  /\ agent' = [agent EXCEPT ![p] = [status |-> status, screen |-> text,
                                    turn |-> @.turn + 1, typed |-> {}]]
  /\ UNCHANGED <<seen, snap, hubVars>>

Released(p) == agent[p].status # "blocked" \/ TerminalTyping \/ agent[p].typed # {}

AgentAsks(p) ==
  /\ Released(p)
  /\ \E q \in Prompts : q # agent[p].screen /\ Turn(p, "blocked", q)

AgentWorks(p) ==
  /\ agent[p].status # "working"
  /\ Released(p)
  /\ Turn(p, "working", Output)

AgentFinishes(p) ==
  /\ agent[p].status = "working"
  /\ Turn(p, "done", Output)

-----------------------------------------------------------------------------
(* Snapshots.  A stamp keeps the since of a pane whose status did not      *)
(* change and gives a changed one the current time, here the turn.         *)

Stamp ==
  [p \in Panes |->
     IF agent[p].status = seen[p].status THEN seen[p]
     ELSE [status |-> agent[p].status, since |-> agent[p].turn]]

ListSnapshot ==
  /\ seen' = Stamp
  /\ UNCHANGED <<agent, snap, hubVars>>

BroadcastSnapshot ==
  /\ snap = None
  /\ seen' = Stamp
  /\ snap' = Stamp
  /\ UNCHANGED <<agent, hubVars>>

EpisodeOf(p) == IF snap[p].status \in OpenKinds THEN <<p, snap[p].since>> ELSE None

\* observe(): one full snapshot closes, keeps or opens an episode per pane.
Observe ==
  /\ snap # None
  /\ LET closing == {e \in EpisodeIds : open[e[1]] = e /\ EpisodeOf(e[1]) # e}
         opening == {e \in EpisodeIds : open[e[1]] # e /\ EpisodeOf(e[1]) = e}
     IN /\ open' = [p \in Panes |-> EpisodeOf(p)]
        /\ eps' = [e \in EpisodeIds |->
                     IF e \in opening THEN NewEpisode(snap[e[1]].status)
                     ELSE IF e \in closing THEN [eps[e] EXCEPT !.reading = "no"]
                     ELSE eps[e]]
        /\ shot' = [s \in Readers |->
                     IF s \in closing THEN "idle"
                     ELSE IF s \in opening /\ snap[s[1]].status = "blocked" THEN "asked"
                     ELSE shot[s]]
        /\ emitted' = [e \in EpisodeIds |->
                     IF e \in opening /\ snap[e[1]].status = "done"
                       THEN Append(emitted[e], Frame("done", None))
                     ELSE IF e \in closing /\ eps[e].announced
                       THEN Append(emitted[e], Frame(CloseKind(eps[e].kind), None))
                     ELSE emitted[e]]
  /\ snap' = None
  /\ UNCHANGED <<agent, seen, req>>

-----------------------------------------------------------------------------
(* Reading a blocked prompt.                                               *)

PaneOf(s) == IF s \in Requests THEN req[s].pane ELSE s[1]

Capture(s) ==
  /\ shot[s] = "asked"
  /\ ReadsInOrder => \A t \in Readers : shot[t] \in Texts => PaneOf(t) # PaneOf(s)
  /\ shot' = [shot EXCEPT ![s] = agent[PaneOf(s)].screen]
  /\ UNCHANGED <<agent, seen, snap, open, eps, req, emitted>>

IsOpen(e) == open[e[1]] = e

\* Mutant: a finished read does not look whether its episode is still open.
LoadsClosed(e, text) == text \in Texts /\ text # eps[e].revision

\* _read(): the captured text is new to the open episode e.
Loads(e, text) == IsOpen(e) /\ text \in Texts /\ text # eps[e].revision
Loaded(e, text) == IF Loads(e, text) THEN [eps EXCEPT ![e].revision = text] ELSE eps

\* Mutant: a prompt that changed in place is kept to the bridge.
ReannouncedNever(e, text) == emitted

\* _fresh_read() / _reread(): a changed prompt of an announced episode goes out again.
Reannounced(e, text) ==
  IF Loads(e, text) /\ eps[e].announced
    THEN [emitted EXCEPT ![e] = Append(@, Frame("blocked", text))]
    ELSE emitted

\* The text a finished read delivers; None when it failed or timed out.
Delivers(s, text) ==
  \/ shot[s] \in Texts /\ text = shot[s]
  \/ shot[s] # "idle" /\ ReadsMayFail /\ text = None

\* Mutant: a first read that failed or timed out announces nothing.
FirstReadOrNothing(e) ==
  /\ eps[e].reading = "first"
  /\ \E text \in Texts \cup {None} :
       /\ Delivers(e, text)
       /\ eps' = [Loaded(e, text) EXCEPT ![e].announced = text # None, ![e].reading = "no"]
       /\ emitted' = IF text = None THEN emitted
                     ELSE [emitted EXCEPT ![e] = Append(@, Frame("blocked", Loaded(e, text)[e].revision))]
  /\ shot' = [shot EXCEPT ![e] = "idle"]
  /\ UNCHANGED <<agent, seen, snap, open, req>>

\* _first_read(): the episode is announced with the prompt, or without one when
\* the read failed or timed out.
FirstRead(e) ==
  /\ eps[e].reading = "first"
  /\ \E text \in Texts \cup {None} :
       /\ Delivers(e, text)
       /\ eps' = [Loaded(e, text) EXCEPT ![e].announced = TRUE, ![e].reading = "no"]
       /\ emitted' = [emitted EXCEPT ![e] = Append(@, Frame("blocked", Loaded(e, text)[e].revision))]
  /\ shot' = [shot EXCEPT ![e] = "idle"]
  /\ UNCHANGED <<agent, seen, snap, open, req>>

\* Mutant: once a prompt is known it is not read again.
PollDueOnce(e) ==
  /\ IsOpen(e) /\ eps[e].kind = "blocked" /\ eps[e].announced
  /\ eps[e].reading = "no" /\ eps[e].revision = None

\* poll_prompts(): the interval is abstracted, so is the minute after which an
\* answered episode is no longer polled.
PollDue(e) ==
  /\ IsOpen(e) /\ eps[e].kind = "blocked" /\ eps[e].announced
  /\ eps[e].reading = "no"

PollPrompt(e) ==
  /\ PollDue(e)
  /\ eps' = [eps EXCEPT ![e].reading = "again"]
  /\ shot' = [shot EXCEPT ![e] = "asked"]
  /\ UNCHANGED <<agent, seen, snap, open, req, emitted>>

Reread(e) ==
  /\ eps[e].reading = "again"
  /\ \E text \in Texts \cup {None} :
       /\ Delivers(e, text)
       /\ eps' = [Loaded(e, text) EXCEPT ![e].reading = "no"]
       /\ emitted' = Reannounced(e, text)
  /\ shot' = [shot EXCEPT ![e] = "idle"]
  /\ UNCHANGED <<agent, seen, snap, open, req>>

-----------------------------------------------------------------------------
(* begin_answer(): the gate.                                               *)

AnswerTarget(p) == IF open[p] # None /\ eps[open[p]].kind = "blocked" THEN open[p] ELSE None

\* Read again before refusing an answered episode, and before the first answer
\* to an unknown prompt.
NeedsFreshRead(m) ==
  LET ep == AnswerTarget(m.pane) IN
  /\ ep # None
  /\ ~eps[ep].answering
  /\ m.claim \in {None, ep}
  /\ \/ eps[ep].revision = None
     \/ eps[ep].answered # None /\ eps[ep].revision = eps[ep].answered

\* The answered episode x takes no answer for this prompt.
AlreadyAnswered(x, m) ==
  /\ x.answered # None
  /\ \/ x.revision = x.answered
     \/ m.rev # None /\ m.rev \notin {x.revision, x.answered}

\* Mutant: an answer on its way does not keep the next one out.
RefusesAnswered(x, m) == AlreadyAnswered(x, m)

Refuses(x, m) == x.answering \/ AlreadyAnswered(x, m)

Verdict(E, m) ==
  LET ep == AnswerTarget(m.pane) IN
  IF m.claim # None
    THEN IF ep # m.claim \/ Refuses(E[ep], m) THEN "stale" ELSE "ticket"
    ELSE IF ep = None \/ E[ep].answering THEN "untracked" ELSE "ticket"

\* Settle the verdict: reserve the episode and go on to herdr, or refuse.
Gate(r, E, m) ==
  LET verdict == Verdict(E, m)
      ep == AnswerTarget(m.pane)
  IN /\ eps' = IF verdict = "ticket" THEN [E EXCEPT ![ep].answering = TRUE] ELSE E
     /\ req' = [req EXCEPT ![r] =
                  IF verdict = "stale" THEN [m EXCEPT !.pc = "stale"]
                  ELSE [m EXCEPT !.pc = IF m.kind = "send_text" THEN "type" ELSE "check",
                                 !.ticket = IF verdict = "ticket" THEN ep ELSE None]]

\* A client claims an episode it heard of, in an event or a stamped snapshot,
\* and names a revision it was shown.
Shown(e) == {emitted[e][i].rev : i \in DOMAIN emitted[e]} \cap Texts
Known(p) ==
  {e \in EpisodeIds :
     /\ e[1] = p
     /\ \/ emitted[e] # << >> /\ eps[e].kind = "blocked"
        \/ seen[p] = [status |-> "blocked", since |-> e[2]]}

Claims(p, claim, rev) ==
  \/ UnclaimedAnswers /\ claim = None /\ rev = None
  \/ claim \in Known(p) /\ rev \in Shown(claim) \cup {None}

BeginAnswer(r) ==
  /\ req[r].pc = "idle"
  /\ \E p \in Panes, kind \in Kinds, claim \in EpisodeIds \cup {None}, rev \in Texts \cup {None} :
       /\ Claims(p, claim, rev)
       /\ kind = "choose_if_blocked" => rev # None
       /\ LET m == Message(kind, p, claim, rev) IN
          IF NeedsFreshRead(m)
            THEN /\ req' = [req EXCEPT ![r] = [m EXCEPT !.pc = "fresh", !.ticket = open[p]]]
                 /\ shot' = [shot EXCEPT ![r] = "asked"]
                 /\ UNCHANGED eps
            ELSE Gate(r, eps, m) /\ UNCHANGED shot
  /\ UNCHANGED <<agent, seen, snap, open, emitted>>

FreshRead(r) ==
  /\ req[r].pc = "fresh"
  /\ \E text \in Texts \cup {None} :
       /\ Delivers(r, text)
       /\ Gate(r, Loaded(req[r].ticket, text), [req[r] EXCEPT !.ticket = None])
       /\ emitted' = Reannounced(req[r].ticket, text)
  /\ shot' = [shot EXCEPT ![r] = "idle"]
  /\ UNCHANGED <<agent, seen, snap, open>>

-----------------------------------------------------------------------------
(* handle_client_message() and end_answer().                               *)

Finished(r) == [NewRequest EXCEPT !.pc = "finished", !.claim = req[r].claim]

\* end_answer() of r's ticket, in the same step as the reply that settles it.
EndAnswer(r, sent) ==
  LET ep == req[r].ticket
      revision == IF eps[ep].revision = None THEN Unread ELSE eps[ep].revision
  IN IF ep = None
       THEN req' = [req EXCEPT ![r] = Finished(r)] /\ UNCHANGED <<eps, emitted>>
     ELSE IF ~sent
       THEN /\ eps' = [eps EXCEPT ![ep].answering = FALSE]
            /\ req' = [req EXCEPT ![r] = Finished(r)]
            /\ UNCHANGED emitted
     ELSE /\ eps' = [eps EXCEPT ![ep].answering = FALSE, ![ep].answered = revision]
          /\ emitted' = [emitted EXCEPT ![ep] = Append(@, Frame("answered", None))]
          /\ req' = [req EXCEPT ![r] =
                       IF IsOpen(ep) THEN [@ EXCEPT !.pc = "watch", !.base = revision, !.tries = Rereads]
                       ELSE Finished(r)]

\* The guards of "act" and "choose_if_blocked": the pane is still blocked, and
\* a choice still belongs to the prompt on screen.
Accepts(m) ==
  /\ agent[m.pane].status = "blocked"
  /\ m.kind = "choose_if_blocked" => m.rev = agent[m.pane].screen

CheckPane(r) ==
  /\ req[r].pc = "check"
  /\ IF Accepts(req[r])
       THEN req' = [req EXCEPT ![r].pc = "type"] /\ UNCHANGED <<eps, emitted>>
       ELSE EndAnswer(r, FALSE)
  /\ UNCHANGED <<agent, seen, snap, open, shot>>

\* The keys or the text reach the pane.
TypeAnswer(r) ==
  /\ req[r].pc = "type"
  /\ agent' = [agent EXCEPT ![req[r].pane].typed =
                 IF agent[req[r].pane].status = "blocked" THEN @ \cup {r} ELSE @]
  /\ req' = [req EXCEPT ![r].pc = "reply"]
  /\ UNCHANGED <<seen, snap, open, eps, shot, emitted>>

SendReply(r) ==
  /\ \/ req[r].pc = "reply" /\ EndAnswer(r, TRUE)
     \/ RpcMayFail /\ req[r].pc \in {"check", "type", "reply"} /\ EndAnswer(r, FALSE)
  /\ UNCHANGED <<agent, seen, snap, open, shot>>

-----------------------------------------------------------------------------
(* _after_answer(): look for the next question of the same episode.        *)

WatchStops(r) ==
  /\ req[r].pc = "watch"
  /\ ~IsOpen(req[r].ticket) \/ eps[req[r].ticket].answered # req[r].base
  /\ req' = [req EXCEPT ![r] = Finished(r)]
  /\ UNCHANGED <<agent, seen, snap, open, eps, shot, emitted>>

WatchStarts(r) ==
  /\ req[r].pc = "watch"
  /\ IsOpen(req[r].ticket)
  /\ eps[req[r].ticket].answered = req[r].base
  /\ req' = [req EXCEPT ![r].pc = "watching"]
  /\ shot' = [shot EXCEPT ![r] = "asked"]
  /\ UNCHANGED <<agent, seen, snap, open, eps, emitted>>

\* Mutant: the look-outs after an answer never run out.
WatchGoesOn(w, revision) == revision # w.base

WatchOver(w, revision) == revision # w.base \/ w.tries = 1

\* Mutant: a look-out after an answer does not count down.
WatchesOnForever(r) == [req[r] EXCEPT !.pc = "watch"]

WatchesOn(r) == [req[r] EXCEPT !.pc = "watch", !.tries = req[r].tries - 1]

WatchRead(r) ==
  LET ep == req[r].ticket IN
  /\ req[r].pc = "watching"
  /\ \E text \in Texts \cup {None} :
       /\ Delivers(r, text)
       /\ eps' = Loaded(ep, text)
       /\ emitted' = Reannounced(ep, text)
       /\ req' = [req EXCEPT ![r] =
                    IF WatchOver(req[r], Loaded(ep, text)[ep].revision) THEN Finished(r)
                    ELSE WatchesOn(r)]
  /\ shot' = [shot EXCEPT ![r] = "idle"]
  /\ UNCHANGED <<agent, seen, snap, open>>

-----------------------------------------------------------------------------
AgentStep == \E p \in Panes : AgentAsks(p) \/ AgentWorks(p) \/ AgentFinishes(p)
ReadStep == \E e \in EpisodeIds : FirstRead(e) \/ PollPrompt(e) \/ Reread(e)
RequestStep(r) ==
  \/ BeginAnswer(r) \/ FreshRead(r) \/ CheckPane(r) \/ TypeAnswer(r) \/ SendReply(r)
  \/ WatchStops(r) \/ WatchStarts(r) \/ WatchRead(r)

Next ==
  \/ AgentStep
  \/ ListSnapshot \/ BroadcastSnapshot \/ Observe
  \/ \E s \in Readers : Capture(s)
  \/ ReadStep
  \/ \E r \in Requests : RequestStep(r)

Spec == Init /\ [][Next]_vars

PollUnanswered(e) == eps[e].answered = None /\ PollPrompt(e)
WatchWakes(r) == WatchStops(r) \/ WatchStarts(r)

\* The event loop keeps running, every RPC has a timeout, and the prompt poll
\* never stops for an episode nobody answered.  Agents, people and clients
\* owe nothing.
Fairness ==
  /\ WF_vars(BroadcastSnapshot)
  /\ WF_vars(Observe)
  /\ \A s \in Readers : WF_vars(Capture(s))
  /\ \A e \in EpisodeIds :
       /\ WF_vars(FirstRead(e))
       /\ WF_vars(PollUnanswered(e))
       /\ WF_vars(Reread(e))
  /\ \A r \in Requests :
       /\ WF_vars(FreshRead(r))
       /\ WF_vars(CheckPane(r))
       /\ WF_vars(TypeAnswer(r))
       /\ WF_vars(SendReply(r))
       /\ WF_vars(WatchWakes(r))
       /\ WF_vars(WatchRead(r))

FairSpec == Spec /\ Fairness

-----------------------------------------------------------------------------
EpisodeRecords ==
  [kind : OpenKinds, revision : Texts \cup {None}, announced : BOOLEAN,
   answered : Texts \cup {None, Unread}, answering : BOOLEAN,
   reading : {"no", "first", "again"}]

Places == {"idle", "fresh", "stale", "check", "type", "reply", "watch", "watching", "finished"}

RequestRecords ==
  [pc : Places,
   kind : Kinds \cup {None}, pane : Panes \cup {None}, claim : EpisodeIds \cup {None},
   rev : Texts \cup {None}, ticket : EpisodeIds \cup {None},
   base : Texts \cup {None, Unread}, tries : 0..Rereads]

TypeOK ==
  /\ agent \in [Panes -> [status : Statuses, screen : Texts, turn : Turns, typed : SUBSET Requests]]
  /\ seen \in [Panes -> [status : Statuses, since : Turns]]
  /\ snap \in [Panes -> [status : Statuses, since : Turns]] \cup {None}
  /\ open \in [Panes -> EpisodeIds \cup {None}]
  /\ eps \in [EpisodeIds -> EpisodeRecords]
  /\ shot \in [Readers -> {"idle", "asked"} \cup Texts]
  /\ req \in [Requests -> RequestRecords]
  /\ emitted \in [EpisodeIds -> Seq(Frames)]

InFlight == {"check", "type", "reply"}
Answers(r, e) == req[r].pc \in InFlight /\ req[r].ticket = e

\* An episode is reserved exactly while one request answers it: the check and
\* the reservation of begin_answer() are one step although the fresh read
\* before them is not, and every end of a send gives the episode back.
OneAnswerInFlight ==
  \A e \in EpisodeIds :
    /\ eps[e].answering <=> \E r \in Requests : Answers(r, e)
    /\ \A r, s \in Requests : Answers(r, e) /\ Answers(s, e) => r = s

\* A reader of the events sees an episode open before it closes and nothing of
\* it afterwards, but for the report of an answer that was still being sent:
\* no read that outlives its episode may announce it again.
ClosedForGood ==
  \A e \in EpisodeIds : \A i \in DOMAIN emitted[e] :
    emitted[e][i].kind \in CloseKinds =>
      /\ \E j \in 1..(i - 1) : emitted[e][j].kind \in OpenKinds
      /\ \A j \in (i + 1)..Len(emitted[e]) : emitted[e][j].kind = "answered"

\* The revision an open episode compares answers with is the one its latest
\* blocked frame told the clients, whichever of the concurrent reads set it.
ClientsKnowTheRevision ==
  \A e \in EpisodeIds :
    IsOpen(e) /\ eps[e].kind = "blocked" /\ eps[e].announced =>
      \E i \in DOMAIN emitted[e] :
        /\ emitted[e][i] = Frame("blocked", eps[e].revision)
        /\ \A j \in (i + 1)..Len(emitted[e]) : emitted[e][j].kind # "blocked"

\* "A prompt is answered exactly once whoever gets there first": of the answers
\* that claim an episode, one at most is typed into a question.
AnsweredOnce ==
  \A p \in Panes : \A r, s \in agent[p].typed :
    req[r].claim # None /\ req[s].claim # None => r = s

\* An answer to the question on screen of an open episode is refused as stale
\* only if somebody answered that question.
RefusedWhenAnswered ==
  [][\A r \in Requests :
       LET m == req'[r] IN
       /\ req[r].pc # "stale" /\ m.pc = "stale"
       /\ m.claim = open[m.pane]
       /\ ~eps[m.claim].answering
       /\ agent[m.pane].status = "blocked"
       /\ m.rev = agent[m.pane].screen
       => agent[m.pane].typed # {}]_vars

\* What has to happen in the end, see MCProgress.
Unannounced(e) == IsOpen(e) /\ ~eps[e].announced
Asked(r) == req[r].pc # "idle"
Settled(r) == req[r].pc \in {"stale", "finished"}
Waiting(p, q) ==
  /\ open[p] # None /\ eps[open[p]].kind = "blocked" /\ eps[open[p]].answered = None
  /\ agent[p].screen = q
Told(p, q) == eps[open[p]].revision = q /\ eps[open[p]].announced
-----------------------------------------------------------------------------
\* For TLC: requests and prompts are interchangeable, no definition singles one out.
Interchangeable == Permutations(Requests) \cup Permutations(Prompts)
=============================================================================
