---------------------------- MODULE MCKnowledge ----------------------------
(***************************************************************************)
(* A few lessons and decisions about one customer.                         *)
(***************************************************************************)
EXTENDS Knowledge, TLC

Symmetry == Permutations(Learning) \cup Permutations(Deciding)
=============================================================================
