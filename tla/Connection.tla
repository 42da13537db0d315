------------------------------ MODULE Connection ------------------------------
(***************************************************************************)
(* One connector of the runtime (connector.py): it connects to its bridge, *)
(* resyncs, asks once per connection for icons and whether the bridge is   *)
(* managed, and reconnects with a backoff until it is stopped.  stop() runs *)
(* on another thread and finds it at any point.                            *)
(***************************************************************************)
EXTENDS Integers, Sequences, TLAPS

CONSTANTS
    MaxConnects,   \* bound: connections made
    MaxAttempt     \* bound: backoff steps told apart (backoff_max)

VARIABLES
    state,     \* run(): new, connecting, up, closing, backoff, ended
    stopping,  \* _stop, and whether the stopper's call reached the loop
    conn,      \* the number of the connection (history)
    far,       \* the bridge behind it: has it self_update, is it managed, wants it the token
    wire,      \* frames of this connection that were not dispatched yet
    asked,     \* what this connection was asked: icons, and the probe
    probe,     \* _health_task: none, created, waiting or answered; _health_seq
    managed,   \* _managed, with the connection it is from; "unknown"
    attempt,   \* _attempt
    told       \* the last on_connection, and what the usage hub was told

connectionVars == <<state, stopping, conn, far, wire, asked, probe, managed, attempt, told>>

NoProbe == [pc |-> "none", seq |-> 0]
Unknown == [value |-> "unknown", of |-> 0]
Quiet == [icons |-> 0, health |-> 0]

TypeOK ==
  /\ state \in {"new", "connecting", "up", "closing", "backoff", "ended"}
  /\ stopping \in {"no", "asked", "closes", "wakes", "done"} /\ conn \in 0..MaxConnects
  /\ far \in [updates : BOOLEAN, managed : {"yes", "no"}, accepts : BOOLEAN]
  /\ asked.icons \in 0..2 /\ asked.health \in 0..2 /\ probe.pc \in {"none", "created", "waiting", "answered"}
  /\ managed.value \in {"unknown", "yes", "no"} /\ attempt \in 0..MaxAttempt
  /\ told \in [up : BOOLEAN, usage : BOOLEAN] /\ Len(wire) <= 4

Init ==
  /\ state = "new" /\ stopping = "no" /\ conn = 0
  /\ far = [updates |-> FALSE, managed |-> "no", accepts |-> TRUE]
  /\ wire = << >> /\ asked = Quiet /\ probe = NoProbe /\ managed = Unknown /\ attempt = 0
  /\ told = [up |-> FALSE, usage |-> FALSE]
----------------------------------------------------------------------------
Stops == stopping # "no"

\* A bug: the answer of the last connection is kept.
ResetTaskOnly(m) == m
ResetManaged(m) == Unknown
\* _reset_health_probe: the waiter and its task are cancelled.
ResetProbe ==
  /\ managed' = ResetManaged(managed)
  /\ probe' = [probe EXCEPT !.pc = "none"]

Run ==
  /\ state = "new" /\ state' = IF Stops THEN "ended" ELSE "connecting"
  /\ UNCHANGED <<stopping, conn, far, wire, asked, probe, managed, attempt, told>>

\* The handshake: another bridge process may answer than the last time.  A
\* connector stopped meanwhile closes at once.
Connected ==
  /\ state = "connecting" /\ conn < MaxConnects /\ conn' = conn + 1
  /\ far' \in [updates : BOOLEAN, managed : {"yes", "no"}, accepts : BOOLEAN]
  /\ wire' = << >> /\ asked' = Quiet
  /\ IF Stops
     THEN state' = "ended" /\ UNCHANGED <<attempt, told, probe, managed>>
     ELSE /\ state' = "up" /\ attempt' = 0 /\ told' = [told EXCEPT !.up = TRUE] /\ ResetProbe
  /\ UNCHANGED stopping

ConnectFails ==
  /\ state = "connecting" /\ state' = "closing"
  /\ UNCHANGED <<stopping, conn, far, wire, asked, probe, managed, attempt, told>>

\* The bridge sends its snapshots (the first for the resync) and answers.
Frame(f) == Len(wire) < 2 /\ wire' = Append(wire, f)
BridgeSnapshot ==
  /\ state = "up" /\ far.accepts /\ Frame([kind |-> "snapshot"])
  /\ UNCHANGED <<state, stopping, conn, far, asked, probe, managed, attempt, told>>
BridgeAnswers ==
  /\ state = "up" /\ asked.health > 0 /\ probe.pc = "waiting"
  /\ \E seq \in 1..probe.seq :
       Frame([kind |-> "health", seq |-> seq]) \/ Frame([kind |-> "error", seq |-> seq])
  /\ UNCHANGED <<state, stopping, conn, far, asked, probe, managed, attempt, told>>

\* A bug: every snapshot asks.
ProbesAlways == far.updates
\* _maybe_probe_health: once per connection, and only a bridge that updates itself.
Probes == far.updates /\ asked.health = 0 /\ probe.pc = "none"

\* _dispatch: a snapshot carries the capabilities; an answer resolves the
\* waiter it names.
Dispatch ==
  /\ state = "up" /\ wire # << >> /\ wire' = Tail(wire)
  /\ LET f == Head(wire) IN
       \/ /\ f.kind = "snapshot"
          /\ asked' = [asked EXCEPT !.icons = IF @ = 0 THEN 1 ELSE @]
          /\ told' = [told EXCEPT !.usage = TRUE]
          /\ probe' = IF Probes THEN [pc |-> "created", seq |-> probe.seq + 1] ELSE probe
          /\ UNCHANGED managed
       \/ /\ f.kind = "health" /\ probe.pc = "waiting" /\ f.seq = probe.seq
          /\ probe' = [probe EXCEPT !.pc = "answered"] /\ UNCHANGED <<asked, told, managed>>
       \/ /\ f.kind = "error" /\ probe.pc = "waiting" /\ f.seq = probe.seq
          /\ probe' = [probe EXCEPT !.pc = "none"] /\ UNCHANGED <<asked, told, managed>>
       \/ /\ f.kind # "snapshot" /\ (probe.pc # "waiting" \/ f.seq # probe.seq)
          /\ UNCHANGED <<asked, told, probe, managed>>
  /\ UNCHANGED <<state, stopping, conn, far, attempt>>

\* _probe_health: the request is sent; it times out, or what the answer said
\* is taken when the task runs again.
ProbeSends ==
  /\ probe.pc = "created" /\ probe' = [probe EXCEPT !.pc = "waiting"]
  /\ asked' = [asked EXCEPT !.health = IF @ < 2 THEN @ + 1 ELSE @]
  /\ UNCHANGED <<state, stopping, conn, far, wire, managed, attempt, told>>
ProbeTimesOut ==
  /\ probe.pc = "waiting" /\ probe' = [probe EXCEPT !.pc = "none"]
  /\ UNCHANGED <<state, stopping, conn, far, wire, asked, managed, attempt, told>>
ProbeTakes ==
  /\ probe.pc = "answered" /\ probe' = [probe EXCEPT !.pc = "none"]
  /\ managed' = [value |-> far.managed, of |-> conn]
  /\ UNCHANGED <<state, stopping, conn, far, wire, asked, attempt, told>>

\* The connection drops, or stop() closed it; what was on the wire is gone.
Drop ==
  /\ state = "up" /\ state' = "closing" /\ wire' = << >>
  /\ UNCHANGED <<stopping, conn, far, asked, probe, managed, attempt, told>>

\* The finally block, and on to the backoff or the end.
Next1(n) == IF n < MaxAttempt THEN n + 1 ELSE n
Finally ==
  /\ state = "closing" /\ ResetProbe
  /\ told' = [up |-> FALSE, usage |-> FALSE]
  /\ IF Stops THEN state' = "ended" /\ UNCHANGED attempt
              ELSE state' = "backoff" /\ attempt' = Next1(attempt)
  /\ UNCHANGED <<stopping, conn, far, wire, asked>>

\* The delay is over, or stop() woke it.
Backoff ==
  /\ state = "backoff" /\ state' = IF Stops THEN "ended" ELSE "connecting"
  /\ UNCHANGED <<stopping, conn, far, wire, asked, probe, managed, attempt, told>>

\* stop(): the flag, then whatever it sees of the connection, then its call
\* on the loop.
Stop ==
  /\ stopping = "no" /\ stopping' = "asked"
  /\ UNCHANGED <<state, conn, far, wire, asked, probe, managed, attempt, told>>
LooksOnce == IF state = "up" THEN "closes" ELSE "wakes"
StopLooks ==
  /\ stopping = "asked" /\ stopping' = LooksOnce
  /\ UNCHANGED <<state, conn, far, wire, asked, probe, managed, attempt, told>>
StopCloses ==
  /\ stopping = "closes" /\ stopping' = "done"
  /\ IF state = "up" THEN state' = "closing" /\ wire' = << >> ELSE UNCHANGED <<state, wire>>
  /\ UNCHANGED <<conn, far, asked, probe, managed, attempt, told>>

Next ==
  \/ Run \/ Connected \/ ConnectFails \/ BridgeSnapshot \/ BridgeAnswers \/ Dispatch
  \/ ProbeSends \/ ProbeTimesOut \/ ProbeTakes \/ Drop \/ Finally \/ Backoff
  \/ Stop \/ StopLooks \/ StopCloses

Spec == Init /\ [][Next]_connectionVars
----------------------------------------------------------------------------
\* What the deck says of a bridge (may it update itself?) is of the bridge it
\* is connected to now, which may be another process than a moment ago.
ManagedIsThisBridge ==
  managed # Unknown => state \in {"up", "closing"} /\ managed = [value |-> far.managed, of |-> conn]

\* Each connection is asked once, however often it sends snapshots.
AskedOnce == asked.icons <= 1 /\ asked.health <= 1

\* A stopped connector ends, and nothing counts as connected then.
EndsQuietly == state = "ended" => ~told.up /\ ~told.usage /\ managed = Unknown

\* stop() never leaves a connection open: once its call is made, the
\* connector is not up, or finds the flag when it is.
StopFindsIt == stopping \in {"wakes", "done"} => state # "up"

ConnectionIsHonest == ManagedIsThisBridge /\ AskedOnce /\ EndsQuietly /\ StopFindsIt

-----------------------------------------------------------------------------
(* Proofs, for any number of connections and any backoff.                  *)

Bounds == MaxConnects \in Nat /\ MaxAttempt \in Nat

-----------------------------------------------------------------------------
(* The inductive invariant.                                                *)

Frames == [kind : {"snapshot"}] \cup [kind : {"health", "error"}, seq : Nat]

Types ==
  /\ state \in {"new", "connecting", "up", "closing", "backoff", "ended"}
  /\ stopping \in {"no", "asked", "closes", "wakes", "done"}
  /\ conn \in 0..MaxConnects
  /\ far \in [updates : BOOLEAN, managed : {"yes", "no"}, accepts : BOOLEAN]
  /\ wire \in Seq(Frames) /\ Len(wire) <= 2
  /\ asked \in [icons : 0..1, health : 0..1]
  /\ probe \in [pc : {"none", "created", "waiting", "answered"}, seq : Nat]
  /\ managed \in [value : {"unknown", "yes", "no"}, of : Nat]
  /\ attempt \in 0..MaxAttempt
  /\ told \in [up : BOOLEAN, usage : BOOLEAN]

\* A probe runs only on the connection that made it, and one that has yet to
\* send is the first to ask.
ProbeIsOfThisConnection ==
  /\ probe.pc # "none" => state \in {"up", "closing"}
  /\ probe.pc = "created" => asked.health = 0

\* Between connections nobody is told that there is one.
QuietBetween ==
  state \in {"new", "connecting", "backoff", "ended"} => ~told.up /\ ~told.usage

IInv == Types /\ ManagedIsThisBridge /\ ProbeIsOfThisConnection /\ QuietBetween /\ StopFindsIt

-----------------------------------------------------------------------------
LEMMA InitIInv == ASSUME Bounds, Init PROVE IInv
BY DEF Bounds, Init, IInv, Types, ManagedIsThisBridge, ProbeIsOfThisConnection, QuietBetween,
       StopFindsIt, Quiet, NoProbe, Unknown

\* What the actions do to the wire.
LEMMA Wires ==
  ASSUME wire \in Seq(Frames)
  PROVE  /\ << >> \in Seq(Frames) /\ Len(<< >>) = 0
         /\ \A f \in Frames : Append(wire, f) \in Seq(Frames) /\ Len(Append(wire, f)) = Len(wire) + 1
         /\ wire # << >> => /\ Tail(wire) \in Seq(Frames) /\ Len(Tail(wire)) = Len(wire) - 1
                            /\ Head(wire) \in Frames
         /\ Len(wire) \in Nat
OBVIOUS

LEMMA FramesAre ==
  /\ [kind |-> "snapshot"] \in Frames
  /\ \A n \in Nat : [kind |-> "health", seq |-> n] \in Frames /\ [kind |-> "error", seq |-> n] \in Frames
BY DEF Frames

LEMMA StepIInv == ASSUME Bounds, IInv, [Next]_connectionVars PROVE IInv'
<1> USE DEF Bounds, IInv, Types, ManagedIsThisBridge, ProbeIsOfThisConnection, QuietBetween,
            StopFindsIt
<1>1. CASE Run
  BY <1>1 DEF Run, Stops
<1>2. CASE Connected
  <2>1. conn' \in 0..MaxConnects /\ wire' \in Seq(Frames) /\ Len(wire') <= 2
    BY <1>2, Wires DEF Connected
  <2>2. asked' \in [icons : 0..1, health : 0..1] /\ asked'.health = 0
    BY <1>2 DEF Connected, Quiet
  <2>3. CASE Stops
    BY <1>2, <2>1, <2>2, <2>3 DEF Connected, Unknown
  <2>4. CASE ~Stops
    <3>1. /\ state' = "up" /\ attempt' = 0 /\ managed' = Unknown /\ stopping' = "no"
          /\ told' \in [up : BOOLEAN, usage : BOOLEAN]
          /\ probe' \in [pc : {"none", "created", "waiting", "answered"}, seq : Nat]
          /\ probe'.pc = "none" /\ far' \in [updates : BOOLEAN, managed : {"yes", "no"}, accepts : BOOLEAN]
      BY <1>2, <2>4 DEF Connected, Stops, ResetProbe, ResetManaged
    <3>2. Unknown \in [value : {"unknown", "yes", "no"}, of : Nat]
      BY DEF Unknown
    <3> QED BY <2>1, <2>2, <3>1, <3>2
  <2> QED BY <2>3, <2>4
<1>3. CASE ConnectFails
  BY <1>3 DEF ConnectFails
<1>4. CASE BridgeSnapshot
  BY <1>4, Wires, FramesAre DEF BridgeSnapshot, Frame
<1>5. CASE BridgeAnswers
  <2>1. PICK f \in Frames : Frame(f)
    BY <1>5, FramesAre DEF BridgeAnswers
  <2>2. wire' \in Seq(Frames) /\ Len(wire') <= 2
    BY <2>1, Wires DEF Frame
  <2> QED BY <1>5, <2>2 DEF BridgeAnswers
<1>6. CASE Dispatch
  <2>1. wire' \in Seq(Frames) /\ Len(wire') <= 2
    BY <1>6, Wires DEF Dispatch
  <2>2. asked' \in [icons : 0..1, health : 0..1] /\ asked'.health = asked.health
    BY <1>6 DEF Dispatch
  <2>3. /\ probe' \in [pc : {"none", "created", "waiting", "answered"}, seq : Nat]
        /\ probe'.pc = "created" => asked.health = 0
    BY <1>6 DEF Dispatch, Probes
  <2>4. told' \in [up : BOOLEAN, usage : BOOLEAN]
    BY <1>6 DEF Dispatch
  <2> QED BY <1>6, <2>1, <2>2, <2>3, <2>4 DEF Dispatch
<1>7. CASE ProbeSends
  <2>1. asked' \in [icons : 0..1, health : 0..1]
    BY <1>7 DEF ProbeSends
  <2>2. /\ probe' \in [pc : {"none", "created", "waiting", "answered"}, seq : Nat]
        /\ probe'.pc = "waiting"
    BY <1>7 DEF ProbeSends
  <2> QED BY <1>7, <2>1, <2>2 DEF ProbeSends
<1>8. CASE ProbeTimesOut
  BY <1>8 DEF ProbeTimesOut
<1>9. CASE ProbeTakes
  BY <1>9 DEF ProbeTakes
<1>10. CASE Drop
  BY <1>10, Wires DEF Drop
<1>11. CASE Finally
  BY <1>11 DEF Finally, Stops, ResetProbe, ResetManaged, Unknown, Next1
<1>12. CASE Backoff
  BY <1>12 DEF Backoff, Stops
<1>13. CASE Stop \/ StopLooks
  BY <1>13 DEF Stop, StopLooks, LooksOnce
<1>14. CASE StopCloses
  <2>1. /\ state' \in {"new", "connecting", "closing", "backoff", "ended"}
        /\ state \in {"up", "closing"} => state' = "closing"
        /\ state \notin {"up", "closing"} => state' = state
    BY <1>14 DEF StopCloses
  <2>2. wire' \in Seq(Frames) /\ Len(wire') <= 2
    <3>1. CASE wire' = << >>
      BY <3>1, Wires
    <3>2. CASE UNCHANGED wire
      BY <3>2
    <3> QED BY <1>14, <3>1, <3>2 DEF StopCloses
  <2> QED BY <1>14, <2>1, <2>2 DEF StopCloses
<1>15. CASE UNCHANGED connectionVars
  BY <1>15 DEF connectionVars
<1> QED
  BY <1>1, <1>2, <1>3, <1>4, <1>5, <1>6, <1>7, <1>8, <1>9, <1>10, <1>11, <1>12, <1>13, <1>14, <1>15
     DEF Next

\* What the invariant says of a connection: its answers are its own, it is
\* asked once, its end is quiet and a stop finds it.
LEMMA IsHonest == IInv => TypeOK /\ ConnectionIsHonest
BY DEF IInv, Types, TypeOK, ConnectionIsHonest, ManagedIsThisBridge, AskedOnce, EndsQuietly,
       QuietBetween, Unknown

\* Whatever a connector's bridge answers, whenever the connection drops and
\* whenever stop() finds it: "managed" is of the bridge it is connected to, each
\* connection is asked once, and a stopped connector has told everybody.
THEOREM Honest ==
  ASSUME Bounds
  PROVE  Spec => [](TypeOK /\ ConnectionIsHonest)
<1>1. Init => IInv
  BY InitIInv
<1>2. IInv /\ [Next]_connectionVars => IInv'
  BY StepIInv
<1> QED BY <1>1, <1>2, IsHonest, PTL DEF Spec
=============================================================================
