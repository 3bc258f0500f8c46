------------------------------ MODULE MCSkills ------------------------------
(***************************************************************************)
(* A few tasks of one kind of work, done in two ways.                      *)
(***************************************************************************)
EXTENDS Skills, TLC

MCPath == 1 .. 2
MCWorkOf == [p \in MCPath |-> CHOOSE w \in Work : TRUE]
Symmetry == Permutations(Task) \cup Permutations(Run) \cup Permutations(Approver)
=============================================================================
