------------------------------ MODULE UsagePoll ------------------------------
(***************************************************************************)
(* The usage poller (usage.py): every refresh its thread asks a long-lived  *)
(* `codex app-server` for the Codex limits, reads the file Claude's status  *)
(* line leaves, and asks CodexBar for what is missing.  Answers of the      *)
(* server can be late, belong to another request, or never come; another    *)
(* thread closes the poller at any time.                                    *)
(*                                                                          *)
(* Data: the usage of a provider is a number that grows; the time is        *)
(* counted in refreshes, which are long against a poll.                     *)
(***************************************************************************)
EXTENDS Integers, Sequences, FiniteSets

CONSTANTS
    PaidOnly,     \* only paid subscriptions are shown
    CacheAge,     \* refreshes until Claude's file is too old
    StaleAge,     \* _STALE_REFRESHES
    SlowSpawn,    \* may closing give up on a thread that has not spawned yet?
    MaxNow, MaxUsed, MaxFaults   \* bounds

VARIABLES
    now,
    used,      \* what each provider would say
    plan,      \* the Codex subscription
    servers,   \* app-servers running
    proc,      \* _proc: the server the source talks to, 0 = None
    asked,     \* requests it has not answered
    queue,     \* _messages of its reader
    nextId,    \* _next_id
    at,        \* where the poller thread is
    got,       \* what this poll has read
    cache,     \* the file of Claude's status line
    data,      \* _data
    closing,   \* the thread that closes the poller
    polled,    \* polls begun
    faults

pollVars == <<now, used, plan, servers, proc, asked, queue, nextId, at, got, cache, data, closing, polled, faults>>

Providers == {"codex", "claude"}
Nothing == [used |-> 0, sub |-> "none", poll |-> 0]
NoData == [used |-> 0, sub |-> "none", poll |-> 0, at |-> 0]
End == [id |-> -1, kind |-> "end", used |-> 0, sub |-> "none", poll |-> 0]

TypeOK ==
  /\ now \in 0..MaxNow /\ used \in [Providers -> 1..MaxUsed] /\ plan \in {"paid", "free"}
  /\ proc \in 0..(polled + 1) /\ servers \subseteq 1..(polled + 1)
  /\ at \in {"idle", "spawn", "init", "account", "limits", "claude", "bar", "store", "ended"}
  /\ closing \in {"no", "joining", "closed"} /\ faults \in 0..MaxFaults
  /\ \A p \in Providers : got[p].used \in 0..MaxUsed /\ data[p].sub \in {"none", "paid", "free", "unknown"}

Init ==
  /\ now = 0 /\ used = [p \in Providers |-> 1] /\ plan \in {"paid", "free"}
  /\ servers = {} /\ proc = 0 /\ asked = << >> /\ queue = << >> /\ nextId = 1
  /\ at = "idle" /\ got = [p \in Providers |-> Nothing]
  /\ cache = [at |-> 0, used |-> 0] /\ data = [p \in Providers |-> NoData]
  /\ closing = "no" /\ polled = 0 /\ faults = 0

Fault == faults < MaxFaults /\ faults' = faults + 1
----------------------------------------------------------------------------
(* The providers. *)

Use(p) ==
  /\ used[p] < MaxUsed /\ used' = [used EXCEPT ![p] = @ + 1]
  /\ UNCHANGED <<now, plan, servers, proc, asked, queue, nextId, at, got, cache, data, closing, polled, faults>>

\* capture_claude_statusline: a session replaces the file with what it last
\* saw, which can be less than what another session wrote.
Capture ==
  /\ \E n \in 1..used["claude"] : cache' = [at |-> now, used |-> n] /\ cache' # cache
  /\ UNCHANGED <<now, used, plan, servers, proc, asked, queue, nextId, at, got, data, closing, polled, faults>>

Request(id, kind) == [id |-> id, kind |-> kind, poll |-> polled]
\* What an account or the limits say of the plan; either can leave it out.
Plans == {plan, "unknown"}
Reply(r, kind, sub) == [id |-> r.id, kind |-> kind, used |-> used["codex"], sub |-> sub, poll |-> r.poll]

\* The app-server answers the next request, or refuses it.
ServerAnswers ==
  /\ proc \in servers /\ asked # << >> /\ asked' = Tail(asked)
  /\ \/ /\ \E sub \in Plans : queue' = Append(queue, Reply(Head(asked), Head(asked).kind, sub))
        /\ UNCHANGED faults
     \/ queue' = Append(queue, Reply(Head(asked), "error", "unknown")) /\ Fault
  /\ UNCHANGED <<now, used, plan, servers, proc, nextId, at, got, cache, data, closing, polled>>
\* It asks something itself, under a number of its own.
ServerAsks ==
  /\ proc \in servers /\ asked # << >> /\ Fault
  /\ queue' = Append(queue, [End EXCEPT !.id = Head(asked).id, !.kind = "method"])
  /\ UNCHANGED <<now, used, plan, servers, proc, asked, nextId, at, got, cache, data, closing, polled>>
\* It dies; its reader tells.
ServerDies ==
  /\ proc \in servers /\ Fault
  /\ servers' = servers \ {proc} /\ asked' = << >> /\ queue' = Append(queue, End)
  /\ UNCHANGED <<now, used, plan, proc, nextId, at, got, cache, data, closing, polled>>
----------------------------------------------------------------------------
(* CodexAppServerSource, on the poller's thread. *)

\* A bug: any message that carries a number is taken for the answer.
MatchesAny(m, id) == m.kind \notin {"end", "method"}
\* _read_response: an answer is one to this request.
Matches(m, id) == m.kind \notin {"end", "method"} /\ m.id = id

Ended == \E i \in DOMAIN queue : queue[i] = End
\* What the reader delivers of the answers to a request before it ends.
Hits(id) == {i \in DOMAIN queue : Matches(queue[i], id) /\ \A j \in 1..(i - 1) : queue[j] # End}
First(id) == CHOOSE i \in Hits(id) : \A j \in Hits(id) : i <= j
Answer(id) == queue[First(id)]

\* An answer came: it is taken, everything before it dropped.
Answered(id) == Hits(id) # {} /\ queue' = SubSeq(queue, First(id) + 1, Len(queue))
\* None does: the server went away, the source was closed, or the time is up.
Unanswered(id) ==
  /\ Hits(id) = {} \/ proc = 0
  /\ queue' = << >>
  /\ IF Ended \/ proc = 0 THEN UNCHANGED faults ELSE Fault

\* close(): the process is stopped, its reader with it.
Stopped == servers' = servers \ {proc} /\ proc' = 0 /\ asked' = << >>

\* A poll begins: a server that runs is asked at once.
Begin ==
  /\ at = "idle" /\ closing = "no" /\ polled = now
  /\ polled' = polled + 1 /\ got' = [p \in Providers |-> Nothing]
  /\ IF proc \in servers
     THEN /\ at' = "account" /\ nextId' = nextId + 1
          /\ asked' = Append(asked, [id |-> nextId, kind |-> "account", poll |-> polled'])
     ELSE at' = "spawn" /\ UNCHANGED <<nextId, asked>>
  /\ UNCHANGED <<now, used, plan, servers, proc, queue, cache, data, closing, faults>>

\* _ensure_started: a new server, with a queue of its own, or none is installed.
Spawn ==
  /\ at = "spawn"
  /\ \/ /\ proc' = polled /\ servers' = servers \cup {polled}
        /\ queue' = << >> /\ asked' = <<Request(0, "init")>> /\ at' = "init" /\ UNCHANGED faults
     \/ Fault /\ proc' = 0 /\ UNCHANGED <<servers, queue, asked>> /\ at' = "claude"
  /\ UNCHANGED <<now, used, plan, nextId, got, cache, data, closing, polled>>

\* fetch fails, without an answer or with a refusal: the server is stopped, the
\* next poll starts another.
Fails(id) ==
  /\ \/ Unanswered(id)
     \/ Answered(id) /\ Answer(id).kind = "error" /\ UNCHANGED faults
  /\ Stopped /\ at' = "claude" /\ UNCHANGED <<nextId, got>>

Asks(kind) ==
  /\ at' = kind /\ nextId' = nextId + 1
  /\ asked' = IF proc \in servers THEN Append(asked, Request(nextId, kind)) ELSE asked

InitializedNow ==
  /\ Answered(0) /\ Answer(0).kind # "error" /\ Asks("account")
  /\ UNCHANGED <<servers, proc, got, faults>>
Initialized ==
  /\ at = "init" /\ (InitializedNow \/ Fails(0))
  /\ UNCHANGED <<now, used, plan, cache, data, closing, polled>>

\* parse_codex_account: without an account the subscription is unknown; the
\* limits are asked for whatever came of it.
Subscription(id) == IF Answer(id).kind = "account" THEN Answer(id).sub ELSE "unknown"
AccountRead ==
  /\ Answered(nextId - 1) /\ UNCHANGED faults
  /\ got' = [got EXCEPT !["codex"].sub = Subscription(nextId - 1)]
AccountFails == Unanswered(nextId - 1) /\ got' = [got EXCEPT !["codex"].sub = "unknown"]
Account ==
  /\ at = "account" /\ (AccountRead \/ AccountFails)
  /\ Asks("limits") /\ UNCHANGED <<now, used, plan, servers, proc, cache, data, closing, polled>>

\* parse_codex_rate_limits: the numbers, under the plan they name or else the
\* one of the account.
PlanOf(m) == IF m.sub = "unknown" THEN got["codex"].sub ELSE m.sub
Numbers(m) == [used |-> IF m.kind = "limits" THEN m.used ELSE 0, sub |-> PlanOf(m), poll |-> m.poll]
LimitsRead ==
  /\ Answered(nextId - 1) /\ Answer(nextId - 1).kind # "error" /\ at' = "claude"
  /\ got' = [got EXCEPT !["codex"] = Numbers(Answer(nextId - 1))]
  /\ UNCHANGED <<servers, proc, asked, nextId, faults>>
Limits ==
  /\ at = "limits" /\ (LimitsRead \/ Fails(nextId - 1))
  /\ UNCHANGED <<now, used, plan, cache, data, closing, polled>>
----------------------------------------------------------------------------
(* The rest of a poll. *)

\* Who has limits has paid.
StatusLine == [used |-> cache.used, sub |-> "paid", poll |-> polled]
\* read_claude_cache: only a fresh file counts.
FreshFile == cache.used # 0 /\ now - cache.at <= CacheAge
Claude ==
  /\ at = "claude" /\ at' = "bar"
  /\ got' = [got EXCEPT !["claude"] = IF FreshFile THEN StatusLine ELSE Nothing]
  /\ UNCHANGED <<now, used, plan, servers, proc, asked, queue, nextId, cache, data, closing, polled, faults>>

Missing == {p \in Providers : got[p].used = 0}
Accepts(sub) == PaidOnly => sub = "paid"

\* _fetch_codexbar: CodexBar is asked for what is missing and reports what it
\* knows of it, with the tier its login method names.
Entry(p, sub) == [used |-> used[p], sub |-> sub, poll |-> polled]
CodexBar ==
  /\ at = "bar" /\ at' = "store"
  /\ \E known \in SUBSET Missing, sub \in Plans :
       got' = [p \in Providers |-> IF p \in known /\ Accepts(sub) THEN Entry(p, sub) ELSE got[p]]
  /\ UNCHANGED <<now, used, plan, servers, proc, asked, queue, nextId, cache, data, closing, polled, faults>>

Fresh(p) == [used |-> got[p].used, sub |-> got[p].sub, poll |-> got[p].poll, at |-> now]
\* A bug: a poll that read nothing of a provider forgets it.
Forgets(p) == Fresh(p)
\* What was read takes the place of the old; the rest stays until it is stale.
Updated(p) == IF got[p].used = 0 THEN data[p] ELSE Fresh(p)

\* poll_once ends; the thread waits, or stops when the poller was closed.
Store ==
  /\ at = "store" /\ data' = [p \in Providers |-> Updated(p)]
  /\ at' = IF closing = "no" THEN "idle" ELSE "ended"
  /\ UNCHANGED <<now, used, plan, servers, proc, asked, queue, nextId, got, cache, closing, polled, faults>>

\* snapshot: what is not stale, and paid for when only that is wanted.
Shown == {p \in Providers : data[p].used # 0 /\ data[p].at >= now - StaleAge /\ Accepts(data[p].sub)}

\* A refresh passes; the thread polls once in each.
Tick ==
  /\ now < MaxNow /\ (at = "ended" \/ (at = "idle" /\ polled = now + 1)) /\ now' = now + 1
  /\ UNCHANGED <<used, plan, servers, proc, asked, queue, nextId, at, got, cache, data, closing, polled, faults>>

\* UsagePoller.close, in another thread: a thread that waits ends at once; one
\* that polls is waited for, but not for long.
Close ==
  /\ closing = "no" /\ closing' = "joining"
  /\ at' = IF at = "idle" THEN "ended" ELSE at
  /\ UNCHANGED <<now, used, plan, servers, proc, asked, queue, nextId, got, cache, data, polled, faults>>
\* Then its server is stopped, also under the thread.
CloseServer ==
  /\ closing = "joining" /\ (at = "spawn" => SlowSpawn) /\ closing' = "closed"
  /\ Stopped /\ queue' = IF proc = 0 THEN queue ELSE Append(queue, End)
  /\ UNCHANGED <<now, used, plan, nextId, at, got, cache, data, polled, faults>>

Next ==
  \/ \E p \in Providers : Use(p)
  \/ Capture \/ ServerAnswers \/ ServerAsks \/ ServerDies
  \/ Begin \/ Spawn \/ Initialized \/ Account \/ Limits \/ Claude \/ CodexBar \/ Store
  \/ Tick \/ Close \/ CloseServer

Spec == Init /\ [][Next]_pollVars
----------------------------------------------------------------------------
\* The numbers of a poll were asked for by that poll: no late answer, answer of
\* another request or of another server is taken for them.
AnswersAreOwn ==
  /\ \A p \in Providers : got[p].used # 0 => got[p].poll = polled
  /\ at = "claude" => (got["codex"].poll # 0 => got["codex"].used # 0)

\* At most one app-server runs, the one the source talks to; none is left over
\* by a poller that was closed.
OneServer ==
  /\ servers \subseteq {proc}
  /\ closing = "closed" => servers = {}

\* A number is shown for StaleAge refreshes after it was read, over polls that
\* fail; and a number that is shown is no older.
ShownIsRecent ==
  \A p \in Providers : data[p].used # 0 /\ Accepts(data[p].sub) =>
    (p \in Shown <=> data[p].poll + StaleAge >= now + 1)

\* An hour of failures does not hide what was read in it.
FailureKeeps == \A p \in Providers : (p \in Shown /\ now' = now /\ data'[p] # data[p]) => got[p].used # 0

\* The Codex number never goes back: it is asked for in each poll.  (Claude's
\* does: the file holds what one session saw last.)
CodexGrows == data'["codex"].used >= data["codex"].used

PollIsHonest == AnswersAreOwn /\ OneServer /\ ShownIsRecent
============================================================================
