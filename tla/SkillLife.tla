----------------------------- MODULE SkillLife ------------------------------
(***************************************************************************)
(* What a skill's life may be: proposed by a distillation, approved by a   *)
(* person, retired by either a better path or its followers, and nothing   *)
(* after.                                                                  *)
(***************************************************************************)
CONSTANT Path
VARIABLE status

Init == status = [k \in Path |-> "absent"]

Propose(k) == status[k] = "absent" /\ status' = [status EXCEPT ![k] = "proposed"]
Approve(k) == status[k] = "proposed" /\ status' = [status EXCEPT ![k] = "approved"]
Retire(k) ==
  /\ status[k] \in {"proposed", "approved"}
  /\ status' = [status EXCEPT ![k] = "retired"]

Next == \E k \in Path : Propose(k) \/ Approve(k) \/ Retire(k)

Spec == Init /\ [][Next]_status
=============================================================================
