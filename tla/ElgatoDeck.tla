------------------------------ MODULE ElgatoDeck ------------------------------
(***************************************************************************)
(* The backend of the Elgato Stream Deck plugin (elgato/session.py,        *)
(* runtime.py, ipc.py, slots.py).  The session keeps the agents of a       *)
(* bridge, the leases of the slot keys, the prompts that were read, and    *)
(* the arm of Stop; the runtime reads the prompt of every blocked agent;   *)
(* the IPC server pushes to the one client it has the keys that changed    *)
(* since its last push.                                                    *)
(*                                                                         *)
(* Data: one bridge; a prompt is the number of its question, 0 where it is *)
(* blank; what a key shows is the agent, its state and one mark; approve   *)
(* stands for deny; the image, the profile and the theme are left out.     *)
(***************************************************************************)
EXTENDS Integers, Sequences, FiniteSets

CONSTANTS
  Agents,          \* numbers of panes, in the order of the overview
  Errors,          \* may the bridge answer a read with an error?
  PressesOffline,  \* is a slot key pressed while the bridge is away?
  SlowClient,      \* may the client be slow to take the first frame?
  MaxAsks, MaxTerms, MaxReqs, MaxDrops, MaxClients   \* bounds

VARIABLES
  real,      \* what herdr has: [st, term, ask]
  told,      \* what the bridge sent last
  up,        \* the connection of the backend to the bridge
  inbox,     \* what the backend has not handled yet
  outbox,    \* commands on their way
  s,         \* ElgatoSession with its ReadCorrelator
  writer,    \* the authenticated client
  shown,     \* what the keys of that client show
  last,      \* _last_bytes
  due,       \* a push_diff is scheduled
  priming,   \* clients whose hello has not primed the diff yet
  steady,    \* the selection stayed online and the same since Stop was armed
  reqs, drops

vars == <<real, told, up, inbox, outbox, s, writer, shown, last, due, priming, steady, reqs, drops>>
bridge == <<real, told, up, drops>>
ipc == <<writer, shown, last, priming>>

Nobody == 0
NoTerm == 0
Gone == [st |-> "gone", term |-> NoTerm, ask |-> 0]
Pane == [st : {"gone", "idle", "blocked"}, term : 0..MaxTerms, ask : 0..MaxAsks]
Slots == 1..Cardinality(Agents)

Init ==
  /\ real = [a \in Agents |-> Gone] /\ told = real /\ up = TRUE
  /\ inbox = <<>> /\ outbox = <<>>
  /\ s = [agents |-> real, down |-> FALSE, leases |-> [o \in Slots |-> Nobody], manual |-> Nobody,
          text |-> [a \in Agents |-> 0], gen |-> [a \in Agents |-> 0], acting |-> Nobody,
          armed |-> Nobody, armedTerm |-> NoTerm,
          pending |-> [a \in Agents |-> [req |-> 0, gen |-> 0]], cool |-> [a \in Agents |-> -1]]
  /\ writer = Nobody /\ shown = <<>> /\ last = <<>> /\ due = FALSE /\ priming = {}
  /\ steady = FALSE /\ reqs = 0 /\ drops = 0

-----------------------------------------------------------------------------
(* The session *)

Present(v) == {a \in Agents : v.agents[a].st # "gone"}
Blocked(v) == {a \in Agents : v.agents[a].st = "blocked"}

\* The agent that is selected by hand, or the only blocked one.
Selected(v) ==
  IF v.manual \in Present(v) THEN v.manual
  ELSE IF Cardinality(Blocked(v)) = 1 THEN CHOOSE a \in Blocked(v) : TRUE ELSE Nobody

TermOf(v, a) == IF a = Nobody THEN NoTerm ELSE v.agents[a].term

\* A stale arm is dropped.
\* Mutant: an arm survives an outage.
DisarmsOnline(v) ==
  v.armed # Selected(v) \/ v.armedTerm # TermOf(v, Selected(v))
Disarms(v) ==
  v.armed # Selected(v) \/ v.down \/ v.armedTerm # TermOf(v, Selected(v))

Reconciled(v) ==
  LET w == [v EXCEPT !.manual = IF @ \in Present(v) THEN @ ELSE Nobody]
  IN IF w.armed # Nobody /\ Disarms(w) THEN [w EXCEPT !.armed = Nobody, !.armedTerm = NoTerm] ELSE w

\* SlotLeases: who has a key keeps it, a newcomer takes the lowest free one.
Leased(leases, present) ==
  LET kept == [o \in Slots |-> IF leases[o] \in present THEN leases[o] ELSE Nobody]
      new == {a \in present : \A o \in Slots : kept[o] # a}
      free == {o \in Slots : kept[o] = Nobody}
      Rank(S, x) == Cardinality({y \in S : y < x})
  IN [o \in Slots |-> IF o \in free /\ Rank(free, o) < Cardinality(new)
                      THEN CHOOSE a \in new : Rank(new, a) = Rank(free, o) ELSE kept[o]]

\* apply_snapshot, and apply_event for a snapshot that changes one pane.
Applied(v, states) ==
  LET recycled == {a \in Present(v) : states[a].term # v.agents[a].term /\ states[a].st # "gone"}
      enters == {a \in Agents : states[a].st = "blocked"
                                /\ (v.agents[a].st # "blocked" \/ a \in recycled)}
      blocked == {a \in Agents : states[a].st = "blocked"}
      w == [v EXCEPT !.agents = states, !.acting = Nobody,
                     !.armed = IF @ \in recycled THEN Nobody ELSE @,
                     !.gen = [a \in Agents |-> IF a \in enters THEN @[a] + 1 ELSE @[a]],
                     !.text = [a \in Agents |-> IF a \in blocked \ recycled THEN @[a] ELSE 0]]
  IN Reconciled([w EXCEPT !.leases = Leased(v.leases, Present(w))])

Connected(v, isUp) ==
  Reconciled(IF isUp THEN [v EXCEPT !.down = FALSE]
             ELSE [v EXCEPT !.down = TRUE, !.acting = Nobody, !.text = [a \in Agents |-> 0],
                            !.pending = [a \in Agents |-> [req |-> 0, gen |-> 0]],
                            !.cool = [a \in Agents |-> -1]])

HasPending(v, a) == v.pending[a].req # 0 /\ v.pending[a].gen = v.gen[a]
InCooldown(v, a) == v.cool[a] = v.gen[a]

\* A read counts for the request and the block that issued it; a blank one
\* waits for the next try.
\* Mutant: a read for an earlier block counts.
FitsAnyBlock(v, a, req) == v.pending[a].req = req
Fits(v, a, req) == v.pending[a] = [req |-> req, gen |-> v.gen[a]]

Read(v, a, req, ask) ==
  IF ~Fits(v, a, req) THEN v
  ELSE LET w == [v EXCEPT !.pending[a] = [req |-> 0, gen |-> 0]]
       IN IF v.agents[a].st = "blocked" /\ ask # 0
          THEN [w EXCEPT !.text[a] = ask, !.cool[a] = -1]
          ELSE [w EXCEPT !.cool[a] = v.gen[a]]

Enabled(v, kind) ==
  LET a == Selected(v)
  IN /\ a # Nobody /\ ~v.down
     /\ kind = "approve" => v.agents[a].st = "blocked" /\ v.text[a] # 0

-----------------------------------------------------------------------------
(* Rendering *)

Keys == [kind : {"slot"}, at : Slots] \cup [kind : {"approve", "stop"}, at : {0}]

Render(v) ==
  LET chosen == Selected(v)
      Slot(a) == IF a = Nobody THEN [who |-> Nobody, st |-> "gone", mark |-> FALSE]
                 ELSE [who |-> a, st |-> IF v.down THEN "down" ELSE v.agents[a].st, mark |-> a = chosen]
      Action(kind) == [who |-> chosen,
                       st |-> IF kind = "stop" /\ v.armed # Nobody THEN "sure?"
                              ELSE IF chosen # Nobody /\ chosen = v.acting THEN "pending"
                              ELSE IF Enabled(v, kind) THEN "on" ELSE "off",
                       mark |-> FALSE]
  IN [k \in Keys |-> IF k.kind = "slot" THEN Slot(v.leases[k.at]) ELSE Action(k.kind)]

\* take_render_diff, sent at once: only the keys that differ from the last.
Pushed(keys) == [k \in Keys |-> IF last = <<>> \/ last[k] # keys[k] THEN keys[k] ELSE shown[k]]

Push(v) == LET keys == Render(v) IN last' = keys /\ shown' = Pushed(keys)

Session(v) ==
  /\ s' = v
  /\ steady' = /\ steady /\ Selected(v) = Selected(s) /\ ~v.down
               /\ TermOf(v, Selected(v)) = TermOf(s, Selected(s))

-----------------------------------------------------------------------------
(* Messages of the bridge *)

\* A command is numbered; without a connection it is lost.
Sends(v, cmds) ==
  /\ reqs' = reqs + Len(cmds) /\ reqs' <= MaxReqs
  /\ LET numbered == [i \in DOMAIN cmds |-> [cmds[i] EXCEPT !.req = reqs + i]]
         reads == {i \in DOMAIN cmds : cmds[i].kind = "read"}
         Issued(a) == {i \in reads : cmds[i].agent = a}
     IN /\ outbox' = IF up THEN outbox \o numbered ELSE outbox
        /\ Session([v EXCEPT
             !.pending = [a \in Agents |-> IF Issued(a) = {} THEN @[a]
                                           ELSE [req |-> reqs + (CHOOSE i \in Issued(a) : TRUE), gen |-> v.gen[a]]],
             !.cool = [a \in Agents |-> IF Issued(a) = {} THEN @[a] ELSE -1]])

Command(v, kind, a) == [kind |-> kind, agent |-> a, term |-> TermOf(v, a), req |-> 0]

\* Blocked agents on a bridge that is there, whose prompt has not been read.
Unread(v) ==
  {a \in Blocked(v) : ~v.down /\ v.text[a] = 0 /\ ~HasPending(v, a) /\ ~InCooldown(v, a)}

ReadCommands(v) ==
  LET R[S \in SUBSET Agents] ==
        IF S = {} THEN <<>>
        ELSE LET a == CHOOSE x \in S : \A y \in S : x <= y
             IN <<Command(v, "read", a)>> \o R[S \ {a}]
  IN R[Unread(v)]

\* _apply: the session changes, prompts are read, a push is scheduled.
Apply(v) == Sends(v, ReadCommands(v)) /\ due' = TRUE

Handle ==
  /\ inbox # <<>> /\ inbox' = Tail(inbox)
  /\ LET m == Head(inbox)
     IN CASE m.kind = "snapshot" -> Apply(Applied(s, m.states))
          [] m.kind = "link" -> /\ Session(Connected(s, m.up)) /\ due' = TRUE
                                /\ UNCHANGED <<outbox, reqs>>
          [] m.kind = "read" -> Apply(Read(s, m.agent, m.req, m.ask))
          [] m.kind = "acted" -> Apply(s)
  /\ UNCHANGED <<bridge, ipc>>

\* The ticker: what waits on the clock is over, or not yet.
Tick ==
  /\ \E cool \in SUBSET {a \in Agents : s.cool[a] # -1}, armed \in {s.armed, Nobody} :
       Sends([s EXCEPT !.cool = [a \in Agents |-> IF a \in cool THEN -1 ELSE @[a]],
                       !.armed = armed, !.armedTerm = IF armed = Nobody THEN NoTerm ELSE @],
             ReadCommands([s EXCEPT !.cool = [a \in Agents |-> IF a \in cool THEN -1 ELSE @[a]]]))
  /\ s' # s
  /\ due' = TRUE
  /\ UNCHANGED <<bridge, inbox, ipc>>

PushDiff ==
  /\ due /\ due' = FALSE
  /\ IF writer = Nobody THEN UNCHANGED <<last, shown>> ELSE Push(s)
  /\ UNCHANGED <<bridge, inbox, outbox, s, writer, priming, steady, reqs>>

-----------------------------------------------------------------------------
(* The client *)

\* A hello supersedes the client before it, gets every key, and primes the diff.
Hello(c) ==
  /\ writer = c - 1 \/ (writer = Nobody /\ c > 1)
  /\ writer' = c /\ shown' = Render(s)
  /\ IF SlowClient THEN priming' = priming \cup {c} /\ UNCHANGED last
                   ELSE last' = Render(s) /\ UNCHANGED priming
  /\ UNCHANGED <<bridge, inbox, outbox, s, due, steady, reqs>>

Prime(c) ==
  /\ c \in priming /\ priming' = priming \ {c}
  /\ last' = Render(s)
  /\ UNCHANGED <<bridge, inbox, outbox, s, writer, shown, due, steady, reqs>>

Leave ==
  /\ writer # Nobody /\ writer' = Nobody /\ shown' = <<>>
  /\ UNCHANGED <<bridge, inbox, outbox, s, last, due, priming, steady, reqs>>

\* A slot key selects its agent, focuses it and reads its prompt.
PressSlot(o) ==
  LET a == s.leases[o]
      v == Reconciled([s EXCEPT !.manual = a])
  IN /\ writer # Nobody /\ a # Nobody /\ (up \/ PressesOffline)
     /\ Sends(v, <<Command(v, "read", a)>>)
     /\ Push(s')
     /\ UNCHANGED <<bridge, inbox, writer, priming, due>>

Free(v) == Selected(v) # v.acting

Approve ==
  /\ writer # Nobody /\ Enabled(s, "approve") /\ Free(s)
  /\ Sends([s EXCEPT !.acting = Selected(s)], <<Command(s, "approve", Selected(s))>>)
  /\ Push(s')
  /\ UNCHANGED <<bridge, inbox, writer, priming, due>>

\* The first press arms Stop, the second sends it.
Arm ==
  /\ writer # Nobody /\ Enabled(s, "stop") /\ Free(s) /\ s.armed = Nobody
  /\ s' = [s EXCEPT !.armed = Selected(s), !.armedTerm = TermOf(s, Selected(s))]
  /\ steady' = TRUE
  /\ Push(s')
  /\ UNCHANGED <<bridge, inbox, outbox, writer, priming, due, reqs>>

Stop ==
  /\ writer # Nobody /\ Enabled(s, "stop") /\ Free(s) /\ s.armed = Selected(s)
  /\ Sends([s EXCEPT !.armed = Nobody, !.armedTerm = NoTerm, !.acting = Selected(s)],
           <<Command(s, "stop", Selected(s))>>)
  /\ Push(s')
  /\ UNCHANGED <<bridge, inbox, writer, priming, due>>

-----------------------------------------------------------------------------
(* Bridge and herdr *)

backend == <<s, writer, shown, last, due, priming, steady, reqs>>

Reply(m) == inbox' = Append(inbox, m)

Serve ==
  /\ up /\ outbox # <<>> /\ outbox' = Tail(outbox)
  /\ LET c == Head(outbox)
         pane == real[c.agent]
         same == pane.st # "gone" /\ pane.term = c.term
         answered == [kind |-> "acted"]
     IN IF c.kind = "read"
        THEN /\ \/ same /\ \E ask \in {0, IF pane.st = "blocked" THEN pane.ask ELSE 0} :
                             Reply([kind |-> "read", agent |-> c.agent, req |-> c.req, ask |-> ask])
                \/ ~same /\ Reply(answered)
                \/ Errors /\ UNCHANGED inbox
             /\ UNCHANGED real
        ELSE /\ real' = IF same /\ (c.kind = "stop" \/ pane.st = "blocked")
                        THEN [real EXCEPT ![c.agent].st = "idle"] ELSE real
             /\ Reply(answered)
  /\ UNCHANGED <<told, up, drops, backend>>

\* The pane of an agent: it starts, asks, goes on, ends, or is taken by
\* another terminal.  Every turn is listed before the next.
Turn(a) ==
  /\ told = real
  /\ \/ /\ real[a].st = "gone" /\ real[a].term < MaxTerms
        /\ real' = [real EXCEPT ![a].st = "idle", ![a].term = @ + 1]
     \/ /\ real[a].st \in {"idle", "blocked"} /\ real[a].ask < MaxAsks
        /\ real' = [real EXCEPT ![a].st = IF @ = "idle" THEN "blocked" ELSE "idle",
                                ![a].ask = IF real[a].st = "idle" THEN @ + 1 ELSE @]
     \/ /\ real[a].st = "blocked" /\ real[a].term < MaxTerms /\ real[a].ask < MaxAsks
        /\ real' = [real EXCEPT ![a].term = @ + 1, ![a].ask = @ + 1]
     \/ real[a].st # "gone" /\ real' = [real EXCEPT ![a].st = "gone"]
  /\ UNCHANGED <<told, up, inbox, outbox, drops, backend>>

Tell ==
  /\ up /\ told # real /\ told' = real
  /\ Reply([kind |-> "snapshot", states |-> real])
  /\ UNCHANGED <<real, up, outbox, drops, backend>>

Drop ==
  /\ up /\ drops < MaxDrops /\ drops' = drops + 1
  /\ up' = FALSE /\ outbox' = <<>>
  /\ Reply([kind |-> "link", up |-> FALSE])
  /\ UNCHANGED <<real, told, backend>>

Reconnect ==
  /\ ~up /\ up' = TRUE /\ told' = real
  /\ inbox' = inbox \o <<[kind |-> "link", up |-> TRUE], [kind |-> "snapshot", states |-> real]>>
  /\ UNCHANGED <<real, outbox, drops, backend>>

Next ==
  \/ Handle \/ Tick \/ PushDiff
  \/ \E c \in 1..MaxClients : Hello(c) \/ Prime(c)
  \/ Leave \/ (\E o \in Slots : PressSlot(o)) \/ Approve \/ Arm \/ Stop
  \/ Serve \/ (\E a \in Agents : Turn(a)) \/ Tell \/ Drop \/ Reconnect

Spec == Init /\ [][Next]_vars

-----------------------------------------------------------------------------

TypeOK ==
  /\ real \in [Agents -> Pane] /\ told \in [Agents -> Pane] /\ s.agents \in [Agents -> Pane]
  /\ s.manual \in Agents \cup {Nobody} /\ s.armed \in Agents \cup {Nobody}
  /\ s.text \in [Agents -> 0..MaxAsks] /\ s.leases \in [Slots -> Agents \cup {Nobody}]
  /\ writer \in 0..MaxClients /\ priming \subseteq 1..MaxClients
  /\ reqs \in 0..MaxReqs /\ {up, due, steady} \subseteq BOOLEAN

\* The client shows what the session would render, in every key, unless a push
\* is on its way: no diff is lost to a client that comes, goes or is replaced.
KeysAreCurrent == writer # Nobody /\ ~due /\ priming = {} => shown = Render(s)

\* Approve is enabled by the prompt of the block the deck knows or a newer one,
\* never by one that was read for an earlier block or another terminal.
PromptIsOfThisBlock ==
  \A a \in Agents : s.text[a] # 0 => s.agents[a].st = "blocked" /\ s.text[a] >= s.agents[a].ask

\* A blocked agent is read in the end: what keeps it from being read again is
\* a read that is under way, or the news that will end the wait.
News(a) == (\E i \in DOMAIN inbox : inbox[i].kind = "link" \/ inbox[i].kind = "snapshot") \/ told # real \/ ~up
NeverStuck ==
  \A a \in Blocked(s) : HasPending(s, a) =>
    \/ \E i \in DOMAIN outbox : outbox[i].kind = "read" /\ outbox[i].req = s.pending[a].req
    \/ \E i \in DOMAIN inbox : inbox[i].kind = "read" /\ inbox[i].req = s.pending[a].req
    \/ News(a)

\* Stop goes to the agent for which it was armed, if the selection stayed the
\* same terminal, and online, between the two presses.
StopStep == (s.armed # Nobody /\ s'.armed = Nobody /\ s'.acting = s.armed /\ s.acting # s.armed) => steady
StopIsConfirmed == [][StopStep]_vars

ElgatoIsTrue == KeysAreCurrent /\ PromptIsOfThisBlock /\ NeverStuck
===============================================================================
