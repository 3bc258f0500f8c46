------------------------------ MODULE Catalogue ------------------------------
(***************************************************************************)
(* What a question's request may name (src/qlsc/compile.py): tables, their *)
(* columns and the trusted joins between them, and how the compiler gets   *)
(* from one table to another without multiplying the first one's rows.     *)
(*                                                                         *)
(* Tables and columns are numbers, in the order of their names.  A step is *)
(* a join in one direction; a route is a sequence of steps.                *)
(***************************************************************************)
EXTENDS Integers, Sequences, FiniteSets

CONSTANTS
  Tables,   \* the tables offered
  Columns,  \* their columns
  Joins,    \* the trusted joins between them; outer: the log mostly writes it so
  Hops,     \* navigate.compile_hops
  Nil       \* no value: NULL, no table, no route

ASSUME CatalogueAssumption ==
  /\ Tables \subseteq Nat /\ Columns \subseteq Nat
  /\ IsFiniteSet(Tables) /\ IsFiniteSet(Columns)
  /\ Joins \subseteq [a : Tables, ac : Columns, b : Tables, bc : Columns, outer : BOOLEAN]
  /\ Hops \in Nat
  /\ Nil \notin Nat

Refs == Tables \X Columns

Steps ==
  {[from |-> j.a, mine |-> j.ac, to |-> j.b, theirs |-> j.bc] : j \in Joins} \cup
  {[from |-> j.b, mine |-> j.bc, to |-> j.a, theirs |-> j.ac] : j \in Joins}

\* Whether the log mostly writes a step's join as an outer one.
Outer(s) ==
  \E j \in Joins : j.outer /\ {<<j.a, j.ac>>, <<j.b, j.bc>>} = {<<s.from, s.mine>>, <<s.to, s.theirs>>}

\* A table's edges are taken in order: by table, its column, the other's.
StepBefore(s, t) ==
  \/ s.to < t.to
  \/ s.to = t.to /\ s.mine < t.mine
  \/ s.to = t.to /\ s.mine = t.mine /\ s.theirs < t.theirs

\* The search goes breadth first: the shorter route, then the earlier.
RouteBefore(p, q) ==
  \/ Len(p) < Len(q)
  \/ /\ Len(p) = Len(q)
     /\ \E i \in 1 .. Len(p) : StepBefore(p[i], q[i]) /\ \A k \in 1 .. i - 1 : p[k] = q[k]

IsRoute(p, start, goal, unique) ==
  /\ p[1].from = start /\ p[Len(p)].to = goal
  /\ \A i \in 1 .. Len(p) : <<p[i].to, p[i].theirs>> \in unique
  /\ \A i \in 1 .. Len(p) - 1 : p[i].to = p[i + 1].from

RoutesAcross(start, goal, unique) ==   \* mutant of Routes: a step may go to any table
  IF start = goal THEN {<<>>}
  ELSE {p \in UNION {[1 .. n -> Steps] : n \in 1 .. Hops} : IsRoute(p, start, goal, Refs)}
\* The ways from one table to another that never multiply the first's rows:
\* each step goes to a table unique on its join column.
Routes(start, goal, unique) ==
  IF start = goal THEN {<<>>}
  ELSE {p \in UNION {[1 .. n -> Steps] : n \in 1 .. Hops} : IsRoute(p, start, goal, unique)}

\* The one the search finds, or Nil.
Route(start, goal, unique) ==
  LET all == Routes(start, goal, unique)
  IN  IF all = {} THEN Nil ELSE CHOOSE p \in all : \A q \in all : p = q \/ RouteBefore(p, q)
Reaches(start, goal, unique) == Routes(start, goal, unique) # {}

\* The columns a trusted join equates one to.
Equivalents(ref) == {<<s.to, s.theirs>> : s \in {t \in Steps : <<t.from, t.mine>> = ref}}

-----------------------------------------------------------------------------
(* The warehouse's rows: each table's, in a sequence; a row is a function  *)
(* of its columns, NULL is Nil.                                            *)

\* is_unique: whether a column tells a table's rows apart, NULL a value like
\* another; no column of an empty table does.
IsUnique(data, ref) ==
  LET rows == data[ref[1]]
  IN  /\ Len(rows) > 0
      /\ \A i, k \in DOMAIN rows : rows[i][ref[2]] = rows[k][ref[2]] => i = k

\* The rows of s.to that a value of s.from's column joins to.
Matches(data, s, v) == {i \in DOMAIN data[s.to] : v # Nil /\ data[s.to][i][s.theirs] = v}
=============================================================================
