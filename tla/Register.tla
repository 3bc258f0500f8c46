------------------------------ MODULE Register ------------------------------
(***************************************************************************)
(* What an owner's knowledge promises: of each slot (an owner's predicate  *)
(* about a thing) at most one fact is current, the last one learned, and a *)
(* decision rests on the fact that was current when it was made.           *)
(***************************************************************************)
CONSTANTS Slot, Learning, Deciding, None

VARIABLES current, basis
vars == <<current, basis>>

Init ==
  /\ current = [s \in Slot |-> None]
  /\ basis = [d \in Deciding |-> None]

\* A fact learned replaces the slot's, whatever it was
Learn(s, l) ==
  /\ \A r \in Slot : current[r] # l
  /\ current' = [current EXCEPT ![s] = l]
  /\ UNCHANGED basis

Decide(d, s) ==
  /\ basis[d] = None /\ current[s] # None
  /\ basis' = [basis EXCEPT ![d] = current[s]]
  /\ UNCHANGED current

Next ==
  \/ \E s \in Slot, l \in Learning : Learn(s, l)
  \/ \E d \in Deciding, s \in Slot : Decide(d, s)

Spec == Init /\ [][Next]_vars
=============================================================================
