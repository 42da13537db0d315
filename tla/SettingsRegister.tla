--------------------------- MODULE SettingsRegister ---------------------------
(***************************************************************************)
(* What the shared settings of a bridge promise their editors, whatever    *)
(* carries a save there and its outcome back: one document; a save         *)
(* replaces exactly the document its editor saw, at most once; and what    *)
(* the editor is told is true ("unknown" promises nothing).                *)
(* SharedSettings implements this.                                         *)
(***************************************************************************)
CONSTANTS
  Edits,   \* the saves; each writes a document of its own
  None     \* no document

VARIABLES
  doc,     \* the document: the save that wrote it, or None
  saw,     \* per save, the document its editor saw
  fate,    \* per save: "new", "asked", then "saved" or "refused"
  told     \* per save, what its editor was told, "nothing" before that

registerVars == <<doc, saw, fate, told>>

Init ==
  /\ doc = None
  /\ saw = [e \in Edits |-> None]
  /\ fate = [e \in Edits |-> "new"]
  /\ told = [e \in Edits |-> "nothing"]

Ask(e, d) ==
  /\ fate[e] = "new"
  /\ saw' = [saw EXCEPT ![e] = d]
  /\ fate' = [fate EXCEPT ![e] = "asked"]
  /\ UNCHANGED <<doc, told>>

Replace(e) ==
  /\ fate[e] = "asked"
  /\ doc = saw[e]
  /\ doc' = e
  /\ fate' = [fate EXCEPT ![e] = "saved"]
  /\ UNCHANGED <<saw, told>>

Refuse(e) ==
  /\ fate[e] = "asked"
  /\ fate' = [fate EXCEPT ![e] = "refused"]
  /\ UNCHANGED <<doc, saw, told>>

Tell(e, outcome) ==
  /\ fate[e] # "new" /\ told[e] = "nothing"
  /\ outcome \in {fate[e], "unknown"} \ {"asked"}
  /\ told' = [told EXCEPT ![e] = outcome]
  /\ UNCHANGED <<doc, saw, fate>>

\* A step that tells several editors that nobody knows.
TellUnknown(some) ==
  /\ \A e \in some : fate[e] # "new" /\ told[e] = "nothing"
  /\ told' = [e \in Edits |-> IF e \in some THEN "unknown" ELSE told[e]]
  /\ UNCHANGED <<doc, saw, fate>>

Next ==
  \/ \E e \in Edits :
       \/ \E d \in Edits \cup {None} : Ask(e, d)
       \/ Replace(e) \/ Refuse(e)
       \/ \E outcome \in {"saved", "refused", "unknown"} : Tell(e, outcome)
  \/ \E some \in SUBSET Edits : TellUnknown(some)

Spec == Init /\ [][Next]_registerVars
===============================================================================
