------------------------------- MODULE Turns --------------------------------
(***************************************************************************)
(* Conversations as the process graph reads them (src/qlsc/process/):      *)
(* turns in order, each a State (the customer's) or an Action (the rep's), *)
(* and what the build and the absorption count in them.  An event is       *)
(* <<conversation, seq>>; `of` says which element each turn is in.         *)
(***************************************************************************)
EXTENDS Integers, Sequences, FiniteSets

CONSTANTS
  Conversations, \* the conversations, by number: the order their files are in
  Script         \* each conversation's turns, by kind

Kinds == {"state", "action"}

ASSUME TurnsAssumption ==
  /\ Conversations \subseteq Nat /\ IsFiniteSet(Conversations)
  /\ Script \in [Conversations -> Seq(Kinds)]

Events == UNION {{<<c, i>> : i \in 1 .. Len(Script[c])} : c \in Conversations}
Kind(t) == Script[t[1]][t[2]]
Other(k) == IF k = "state" THEN "action" ELSE "state"

\* The file's order: by conversation, then by seq.
Earlier(t, u) == t[1] < u[1] \/ (t[1] = u[1] /\ t[2] < u[2])

\* u is the turn after t among those that were annotated.
Follows(rows, t, u) ==
  /\ t[1] = u[1] /\ t[2] < u[2]
  /\ \A v \in rows : v[1] = t[1] => ~ (t[2] < v[2] /\ v[2] < u[2])

\* A State then an Action, or an Action then a State: two turns of one kind
\* in a row are no transition.
Pairs(rows) ==
  {p \in rows \X rows : Follows(rows, p[1], p[2]) /\ Kind(p[2]) = Other(Kind(p[1]))}

Count(rows, of, e) == Cardinality({t \in rows : of[t] = e})
EndsLast(rows, of, e) ==   \* mutant of Ends: only a conversation's last turn
  Cardinality({t \in rows : of[t] = e /\ \A u \in rows : ~ Follows(rows, t, u)})
\* The turns nothing the graph holds followed: the last, and those before
\* another of their kind.
Ends(rows, of, e) ==
  Cardinality({t \in rows : of[t] = e /\ \A p \in Pairs(rows) : p[1] # t})
Num(rows, of, a, b) == Cardinality({p \in Pairs(rows) : of[p[1]] = a /\ of[p[2]] = b})
Lifted(rows, of) == {<<of[p[1]], of[p[2]]>> : p \in Pairs(rows)}
=============================================================================
