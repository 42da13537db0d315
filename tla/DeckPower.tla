------------------------------ MODULE DeckPower ------------------------------
(***************************************************************************)
(* Restarting the D200 and cutting the power of its USB port               *)
(* (deckapp/maintenance.py).  Every request is a thread of the HTTP        *)
(* server.  It asks the USB bus whether the deck is there, at most every   *)
(* PresentTtl; it asks uhubctl where, at most every LocationTtl or when it *)
(* is about to cut the power; and what it learned is kept in d200-usb.json *)
(* for the time when the deck is no longer on the bus.  The user moves the *)
(* deck to another port meanwhile.                                         *)
(*                                                                         *)
(* Data: a hub and port is one number.  uhubctl is installed; its wording  *)
(* and the rest of GET /maintenance are left out.                          *)
(***************************************************************************)
EXTENDS Integers, FiniteSets

CONSTANTS
  Ports, Pins,    \* ports of the hub, and what the configuration may pin (0: nothing)
  PresentTtl, LocationTtl,
  MovesAnytime,   \* may the deck be moved while a listing is under way?
  MaxRequests, MaxNow, MaxMoves, MaxFaults   \* bounds

VARIABLES
  now,
  port,     \* where the deck is, or Nowhere
  since,    \* since when
  away,     \* was it off the bus at some time since the last restart failed?
  pin,      \* [hardware].usb_hub and usb_port, or Nowhere
  saved,    \* d200-usb.json
  present,  \* _present: when it was asked, and the answer
  checked,  \* _location_checked_at
  thread,   \* what each thread does
  moves, faults

Threads == 1..MaxRequests   \* each request is one thread

vars == <<now, port, since, away, pin, saved, present, checked, thread, moves, faults>>

Nowhere == 0
Never == -1 - LocationTtl
Unasked == [at |-> Never, is |-> "unknown"]
Answers == {"yes", "no", "unknown"}
\* missed: something it relied on failed.
Idle == [op |-> "status", at |-> "idle", began |-> 0, asked |-> 0, is |-> "unknown",
         found |-> Nowhere, target |-> Nowhere, missed |-> FALSE, outcome |-> "none"]

Init ==
  /\ now = 0 /\ port \in Ports \cup {Nowhere} /\ since = 0
  /\ away = FALSE
  /\ pin \in Pins /\ saved \in Ports \cup {Nowhere}
  /\ present = Unasked /\ checked = Never
  /\ thread = [t \in Threads |-> Idle] /\ moves = 0 /\ faults = 0

To(t, at) == thread' = [thread EXCEPT ![t].at = at]
Ends(t, outcome) ==
  thread' = [thread EXCEPT ![t] = [Idle EXCEPT !.at = "done", !.op = thread[t].op, !.began = thread[t].began,
                                     !.missed = thread[t].missed, !.outcome = outcome]]
Fault == faults < MaxFaults /\ faults' = faults + 1

world == <<now, port, since, away, pin, moves>>

-----------------------------------------------------------------------------
(* Requests *)

\* One restart and one power cycle at a time.
IsBusy(op) == op # "status" /\ \E t \in Threads : thread[t].op = op /\ thread[t].at \notin {"idle", "done"}

Request(t) ==
  /\ thread[t].at = "idle" /\ \A u \in 1..(t - 1) : thread[u].at # "idle"
  /\ \E op \in {"status", "restart", "cycle"} :
       thread' = [thread EXCEPT ![t] =
         [Idle EXCEPT !.op = op, !.began = now,
                      !.at = IF IsBusy(op) THEN "done" ELSE IF op = "restart" THEN "restart" ELSE "probe",
                      !.outcome = IF IsBusy(op) THEN "busy" ELSE "none"]]
  /\ UNCHANGED <<now, port, since, away, pin, saved, present, checked, moves, faults>>

\* Mutant: the failure is judged by what the bus said before.
ForgottenNot == present
Forgotten == Unasked

\* The sink reopens the deck, or fails to, is locked out or timed out.  What
\* it says of a failure is settled by asking the bus anew.
RestartDeck(t) ==
  /\ thread[t].at = "restart"
  /\ \/ port # Nowhere /\ Ends(t, "reopened") /\ UNCHANGED <<present, away>>
     \/ \E outcome \in {"locked_by", "timeout"} : Ends(t, outcome) /\ UNCHANGED <<present, away>>
     \/ present' = Forgotten /\ away' = (port = Nowhere) /\ To(t, "probe")
  /\ UNCHANGED <<now, port, since, pin, moves, saved, checked, faults>>

-----------------------------------------------------------------------------
(* The bus *)

\* Mutant: an answer is good for one more tick.
FreshLonger == now - present.at <= PresentTtl
Fresh == now - present.at < PresentTtl

\* What follows the answer of usb_present.
After(t, is) ==
  IF thread[t].op = "restart" THEN "answer" ELSE IF is = "yes" THEN "gate" ELSE "locate"

Probe(t) ==
  /\ thread[t].at = "probe"
  /\ IF Fresh
     THEN thread' = [thread EXCEPT ![t].is = present.is, ![t].at = After(t, present.is),
                                   ![t].missed = @ \/ present.is = "unknown"]
     ELSE thread' = [thread EXCEPT ![t].asked = now, ![t].at = "enumerate"]
  /\ UNCHANGED <<world, saved, present, checked, faults>>

Enumerate(t) ==
  /\ thread[t].at = "enumerate"
  /\ \/ thread' = [thread EXCEPT ![t].is = IF port = Nowhere THEN "no" ELSE "yes", ![t].at = "keep"]
        /\ UNCHANGED faults
     \/ Fault
        /\ thread' = [thread EXCEPT ![t].is = "unknown", ![t].missed = TRUE, ![t].at = "keep"]
  /\ UNCHANGED <<world, saved, present, checked>>

\* The answer is kept under the time at which it was asked for.
Keep(t) ==
  /\ thread[t].at = "keep"
  /\ present' = [at |-> thread[t].asked, is |-> thread[t].is]
  /\ To(t, After(t, thread[t].is))
  /\ UNCHANGED <<world, saved, checked, faults>>

Answer(t) ==
  /\ thread[t].at = "answer"
  /\ Ends(t, IF thread[t].is = "yes" THEN "failed" ELSE "not_present")
  /\ UNCHANGED <<world, saved, present, checked, faults>>

-----------------------------------------------------------------------------
(* The location *)

\* Mutant: a cycle trusts a recent listing.
ForceNever(t) == FALSE
Force(t) == thread[t].op = "cycle"
Lists(t) == Force(t) \/ now - checked >= LocationTtl

Gate(t) ==
  /\ thread[t].at = "gate"
  /\ IF Lists(t) THEN checked' = now /\ To(t, "list")
                 ELSE UNCHANGED checked /\ To(t, "locate")
  /\ UNCHANGED <<world, saved, present, faults>>

List(t) ==
  /\ thread[t].at = "list"
  /\ \/ thread' = [thread EXCEPT ![t].found = port, ![t].at = IF port = Nowhere THEN "locate" ELSE "save"]
        /\ UNCHANGED faults
     \/ Fault /\ thread' = [thread EXCEPT ![t].missed = TRUE, ![t].at = "locate"]
  /\ UNCHANGED <<world, saved, present, checked>>

Save(t) ==
  /\ thread[t].at \in {"keep", "save"}
  /\ \/ saved' = thread[t].found /\ To(t, "locate") /\ UNCHANGED faults
     \/ Fault /\ thread' = [thread EXCEPT ![t].missed = TRUE, ![t].at = "locate"] /\ UNCHANGED saved
  /\ UNCHANGED <<world, present, checked>>

\* The pin of the configuration wins over the last-seen location.
Location == IF pin # Nowhere THEN pin ELSE saved

Locate(t) ==
  /\ thread[t].at = "locate"
  /\ IF thread[t].op = "status" THEN Ends(t, "shown")
     ELSE IF Location = Nowhere THEN Ends(t, "unavailable")
     ELSE thread' = [thread EXCEPT ![t].target = Location, ![t].at = "cut"]
  /\ UNCHANGED <<world, saved, present, checked, faults>>

\* uhubctl cuts the power: the deck leaves the bus if it is at that port.  It
\* may lack the permission, fail, or be killed after its timeout.
Cut(t) ==
  /\ thread[t].at = "cut"
  /\ LET gone == port = thread[t].target
         off == /\ port' = IF gone THEN Nowhere ELSE port
                /\ since' = IF gone THEN now ELSE since
                /\ away' = (away \/ gone)
     IN \/ off /\ present' = Unasked /\ Ends(t, "cycled")
        \/ off /\ Ends(t, "timeout") /\ UNCHANGED present
        \/ Ends(t, "needs_admin") /\ UNCHANGED <<port, since, away, present>>
  /\ UNCHANGED <<now, pin, saved, checked, moves, faults>>

-----------------------------------------------------------------------------
(* The world around *)

\* The deck is plugged in somewhere, also after its port got power again.
Move ==
  /\ moves < MaxMoves /\ moves' = moves + 1
  /\ MovesAnytime \/ ~\E t \in Threads : thread[t].at \in {"keep", "save"}
  /\ port' \in (Ports \cup {Nowhere}) \ {port}
  /\ since' = now /\ away' = (away \/ port' = Nowhere \/ port = Nowhere)
  /\ UNCHANGED <<now, pin, saved, present, checked, thread, faults>>

Tick ==
  /\ now < MaxNow /\ now' = now + 1
  /\ UNCHANGED <<port, since, away, pin, saved, present, checked, thread, moves, faults>>

Next ==
  \/ \E t \in Threads :
       \/ Request(t) \/ RestartDeck(t) \/ Probe(t) \/ Enumerate(t) \/ Keep(t) \/ Answer(t)
       \/ Gate(t) \/ List(t) \/ Save(t) \/ Locate(t) \/ Cut(t)
  \/ Move \/ Tick

Spec == Init /\ [][Next]_vars

-----------------------------------------------------------------------------

TypeOK ==
  /\ now \in 0..MaxNow /\ away \in BOOLEAN /\ {since, checked, present.at} \subseteq Never..MaxNow
  /\ {port, pin, saved} \subseteq Ports \cup {Nowhere} /\ present.is \in Answers
  /\ \A t \in Threads :
       /\ thread[t].at \in {"idle", "done", "restart", "probe", "enumerate", "keep", "answer",
                            "gate", "list", "save", "locate", "cut"}
       /\ thread[t].target \in Ports \cup {Nowhere} /\ thread[t].is \in Answers

\* The power that is cut is that of the deck's port, wherever it was moved to
\* earlier, unless the configuration says otherwise: once the deck has been on
\* the bus for longer than an answer of the bus is good for.
CutsTheDeck ==
  \A t \in Threads :
    /\ thread[t].at = "cut" /\ pin = Nowhere /\ ~thread[t].missed
    /\ port # Nowhere /\ since <= thread[t].began - PresentTtl
    => thread[t].target = port

\* A failed restart says that the deck is not on the bus only when it was off
\* the bus at some time since the restart failed, not for an earlier answer.
NotPresentIsTrue ==
  \A t \in Threads :
    thread[t].at = "answer" /\ thread[t].is # "yes" /\ ~thread[t].missed => away

DeckIsFound == CutsTheDeck /\ NotPresentIsTrue
=============================================================================
