----------------------------- MODULE MCAnswers -----------------------------
(***************************************************************************)
(* A few exchanges about one question.                                     *)
(***************************************************************************)
EXTENDS Answers, TLC

Symmetry == Permutations(Conversation) \cup Permutations(Precedent)
=============================================================================
