----------------------------- MODULE TelegramPoll -----------------------------
(***************************************************************************)
(* The getUpdates cursor of the bridge's Telegram poller (bridge_notify.py  *)
(* and TelegramInteractor.poll_once): taps are read in batches, acted on    *)
(* one by one, and confirmed to Telegram by the next request's offset.      *)
(* Settings and the bot can change at any time, also during a request.     *)
(***************************************************************************)
EXTENDS Integers, FiniteSets, FiniteSetsExt

CONSTANTS
    Bots,        \* bots a token can name, numbered in the order of their use
    MaxTaps,     \* bound: updates of a bot
    MaxChanges,  \* bound: changes of settings or token
    MaxFaults    \* bound: failed requests and restarts

VARIABLES
    posted,     \* updates of each bot so far
    confirmed,  \* the update id below which Telegram has forgotten
    bot,        \* the token, _token
    offset,     \* _offset of the notifier, 0 for None
    interactor, \* [gen, off, on]: the current interactor and its cursor
    poll,       \* the request or batch in progress
    acted,      \* how often a tap was acted on
    ignored,    \* updates read while no interactor was configured
    fresh,      \* taps on messages of this run of the bridge
    changes, faults

pollVars == <<posted, confirmed, bot, offset, interactor, poll, acted, ignored, fresh, changes, faults>>

Updates == Bots \X (1..MaxTaps)
Idle == [stage |-> "idle", gen |-> 0, bot |-> 0, off |-> 0, batch |-> {}, on |-> FALSE]

TypeOK ==
  /\ posted \in [Bots -> 0..MaxTaps] /\ confirmed \in [Bots -> 1..(MaxTaps + 1)]
  /\ bot \in Bots /\ offset \in 0..(MaxTaps + 1) /\ interactor.off \in 0..(MaxTaps + 1)
  /\ poll.stage \in {"idle", "request", "batch", "acting"} /\ poll.batch \subseteq 1..MaxTaps
  /\ acted \in [Updates -> 0..(1 + MaxFaults)] /\ ignored \subseteq Updates /\ fresh \subseteq Updates

Init ==
  /\ posted = [b \in Bots |-> 0] /\ confirmed = [b \in Bots |-> 1]
  /\ bot \in Bots /\ offset = 0 /\ interactor \in {[gen |-> 1, off |-> 0, on |-> on] : on \in BOOLEAN}
  /\ poll = Idle /\ acted = [u \in Updates |-> 0] /\ ignored = {} /\ fresh = {}
  /\ changes = 0 /\ faults = 0
----------------------------------------------------------------------------
\* Someone taps a button of a message this bot sent.
Post(b) ==
  /\ posted[b] < MaxTaps /\ posted' = [posted EXCEPT ![b] = @ + 1]
  /\ fresh' = fresh \cup {<<b, posted'[b]>>}
  /\ UNCHANGED <<confirmed, bot, offset, interactor, poll, acted, ignored, changes, faults>>

\* A bug: a rebuilt interactor starts from the cursor it was built with.
CarriedNone == interactor.off
\* _poll_interactive: an interactor built before the last poll ended goes on
\* from where that one came to.
Carried == IF offset > interactor.off THEN offset ELSE interactor.off

\* A round begins; without an interactor updates are only read for their chats.
Begin ==
  /\ poll.stage = "idle"
  /\ interactor' = [interactor EXCEPT !.off = IF interactor.on THEN Carried ELSE @]
  /\ poll' = [stage |-> "request", gen |-> interactor.gen, bot |-> bot, on |-> interactor.on, batch |-> {},
              off |-> IF interactor.on THEN Carried ELSE offset]
  /\ UNCHANGED <<posted, confirmed, bot, offset, acted, ignored, fresh, changes, faults>>

Current == poll.gen = interactor.gen

\* getUpdates returns: everything below the offset is confirmed.
Receive ==
  /\ poll.stage = "request"
  /\ LET b == poll.bot
         from == IF poll.off > confirmed[b] THEN poll.off ELSE confirmed[b]
         batch == from..posted[b]
     IN /\ confirmed' = [confirmed EXCEPT ![b] = from]
        /\ poll' = IF batch = {} \/ ~Current THEN Idle ELSE [poll EXCEPT !.stage = "batch", !.batch = batch]
  /\ UNCHANGED <<posted, bot, offset, interactor, acted, ignored, fresh, changes, faults>>
Fails ==
  /\ poll.stage = "request" /\ faults < MaxFaults /\ faults' = faults + 1 /\ poll' = Idle
  /\ UNCHANGED <<posted, confirmed, bot, offset, interactor, acted, ignored, fresh, changes>>

\* _poll_discovery: the cursor moves over the batch.
Discover ==
  /\ poll.stage = "batch" /\ ~poll.on
  /\ IF Current
     THEN offset' = Max(poll.batch) + 1 /\ ignored' = ignored \cup {<<poll.bot, n>> : n \in poll.batch}
     ELSE UNCHANGED <<offset, ignored>>
  /\ poll' = Idle
  /\ UNCHANGED <<posted, confirmed, bot, interactor, acted, fresh, changes, faults>>

\* process_update of the next one: a tap acts on a message of this run; it is
\* stale to a bridge that restarted.
Act ==
  /\ poll.stage = "batch" /\ poll.on /\ poll.batch # {} /\ Current
  /\ LET u == <<poll.bot, Min(poll.batch)>> IN
       acted' = IF u \in fresh THEN [acted EXCEPT ![u] = @ + 1] ELSE acted
  /\ poll' = [poll EXCEPT !.stage = "acting"]
  /\ UNCHANGED <<posted, confirmed, bot, offset, interactor, ignored, fresh, changes, faults>>
\* Its cursor moves on whatever came of it.
Acted ==
  /\ poll.stage = "acting"
  /\ LET n == Min(poll.batch) IN
       poll' = [poll EXCEPT !.stage = "batch", !.off = n + 1, !.batch = @ \ {n}]
  /\ UNCHANGED <<posted, confirmed, bot, offset, interactor, acted, ignored, fresh, changes, faults>>

\* A bug: the cursor of the old bot becomes that of the new one.
KeepsAny == TRUE
\* The cursor belongs to one bot.
KeepsCursor == poll.bot = bot

\* The batch is done, or the interactor was replaced meanwhile.
Finish ==
  /\ poll.stage = "batch" /\ poll.on /\ (poll.batch = {} \/ ~Current)
  /\ offset' = IF KeepsCursor /\ poll.off > offset THEN poll.off ELSE offset
  /\ interactor' = IF Current THEN [interactor EXCEPT !.off = poll.off] ELSE interactor
  /\ poll' = Idle
  /\ UNCHANGED <<posted, confirmed, bot, acted, ignored, fresh, changes, faults>>

\* _sync: other settings make a new interactor, with or without buttons; another
\* token also a new cursor.  A bot that was replaced does not come back: its
\* unconfirmed taps would be read again, and find their messages answered.
Rebuild(b, on) ==
  /\ b >= bot
  /\ changes < MaxChanges /\ changes' = changes + 1
  /\ bot' = b /\ offset' = IF b = bot THEN offset ELSE 0
  /\ interactor' = [gen |-> interactor.gen + 1, off |-> offset', on |-> on]
  /\ UNCHANGED <<posted, confirmed, poll, acted, ignored, fresh, faults>>

\* The bridge restarts: its cursor and its messages' records are gone.
Restart ==
  /\ faults < MaxFaults /\ faults' = faults + 1
  /\ offset' = 0 /\ interactor' = [interactor EXCEPT !.off = 0] /\ poll' = Idle /\ fresh' = {}
  /\ UNCHANGED <<posted, confirmed, bot, acted, ignored, changes>>

Next ==
  \/ \E b \in Bots : Post(b) \/ \E on \in BOOLEAN : Rebuild(b, on)
  \/ Begin \/ Receive \/ Fails \/ Discover \/ Act \/ Acted \/ Finish \/ Restart

Spec == Init /\ [][Next]_pollVars
----------------------------------------------------------------------------
\* A tap is acted on at most once, over failed requests, rebuilt interactors,
\* bots that come and go, and restarts.
ActedOnce == \A u \in Updates : acted[u] <= 1

\* Telegram forgets a tap on a live message only after it was acted on, or
\* read while taps were switched off.
NoneSkipped == \A u \in fresh : u[2] < confirmed[u[1]] => acted[u] = 1 \/ u \in ignored

TapsActOnce == ActedOnce /\ NoneSkipped
============================================================================
