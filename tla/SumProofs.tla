------------------------------ MODULE SumProofs ------------------------------
(***************************************************************************)
(* Sums over finite sets and the counting the process graph rests on; and  *)
(* folds over sequences, sequences put together and numbers put in order,  *)
(* which the compiler's are made of.  A sum or a fold is a recursive       *)
(* function: that it is one, and what it comes to, is shown by taking a    *)
(* least set that is wrong.                                                *)
(***************************************************************************)
EXTENDS Sums, Sequences, FiniteSetTheorems, TLAPS

\* Of some sets of members of a finite set, one has no other inside it.
LEMMA Least ==
  ASSUME NEW S, IsFiniteSet(S), NEW B, B \subseteq SUBSET S, B # {}
  PROVE  \E T \in B : \A U \in B : U \subseteq T => U = T
<1> DEFINE R == StrictSubsetOrdering(S)
<1>1. IsWellFoundedOn(R, SUBSET S)
  BY FS_StrictSubsetOrderingWellFounded, FS_FiniteSubsetsOfFinite
<1>2. PICK T \in B : \A U \in B : <<U, T>> \notin R
  <2> HIDE DEF R
  <2> QED
    BY <1>1, WFMin
<1>3. ASSUME NEW U \in B, U \subseteq T PROVE U = T
  <2>1. <<U, T>> \notin R /\ U \in SUBSET S /\ T \in SUBSET S
    BY <1>2, <1>3
  <2> QED
    BY <1>3, <2>1 DEF StrictSubsetOrdering
<1> QED
  BY <1>3

\* Of some numbers, one is the least.
LEMMA LeastNumber ==
  ASSUME NEW N \in SUBSET Nat, N # {}
  PROVE  \E n \in N : \A m \in N : n <= m
<1>1. PICK n \in N : \A m \in N : <<m, n>> \notin OpToRel(<, Nat)
  BY NatLessThanWellFounded, WFMin
<1>2. \A m \in N : ~ (m < n)
  BY <1>1 DEF OpToRel
<1> QED
  BY <1>2

-----------------------------------------------------------------------------
(* The fold is the function its recursion defines *)

Some(S) == CHOOSE x \in S : TRUE
Adds(g, f, S) ==
  g = [T \in SUBSET S |-> IF T = {} THEN 0 ELSE f[Some(T)] + g[T \ {Some(T)}]]

LEMMA SumIsFold ==
  ASSUME NEW f, NEW S
  PROVE  Sum(f, S) = (CHOOSE g : Adds(g, f, S))[S]
  BY Zenon DEF Sum, MapThenSumSet, MapThenFoldSet, Adds, Some

LEMMA AddsAt ==
  ASSUME NEW f, NEW S, NEW g, Adds(g, f, S), NEW T \in SUBSET S
  PROVE  g[T] = IF T = {} THEN 0 ELSE f[Some(T)] + g[T \ {Some(T)}]
  BY DEF Adds

LEMMA AddsAgree ==
  ASSUME NEW f, NEW S, NEW U, IsFiniteSet(S), NEW g, NEW h, Adds(g, f, S), Adds(h, f, U), S \subseteq U
  PROVE  \A T \in SUBSET S : g[T] = h[T]
<1> DEFINE B == {T \in SUBSET S : g[T] # h[T]}
<1> SUFFICES ASSUME B # {} PROVE FALSE
  OBVIOUS
<1>0. B \subseteq SUBSET S
  OBVIOUS
<1>1. PICK T \in B : \A V \in B : V \subseteq T => V = T
  <2> HIDE DEF B
  <2> QED
    BY <1>0, Least
<1>2. T \in SUBSET S /\ T \in SUBSET U /\ g[T] # h[T]
  OBVIOUS
<1>3. CASE T = {}
  BY <1>2, <1>3, AddsAt
<1>4. CASE T # {}
  <2>1. Some(T) \in T
    BY <1>4 DEF Some
  <2> DEFINE V == T \ {Some(T)}
  <2>2. V \in SUBSET S /\ V # T /\ V \subseteq T
    BY <1>2, <2>1
  <2>3. g[V] = h[V]
    BY <1>1, <2>2
  <2>4. g[T] = f[Some(T)] + g[V]
    BY <1>2, <1>4, AddsAt
  <2>5. h[T] = f[Some(T)] + h[V]
    BY <1>2, <1>4, AddsAt
  <2> QED
    BY <1>2, <2>3, <2>4, <2>5
<1> QED
  BY <1>3, <1>4

\* A smaller set's fold is the larger one's, as far as it goes.
LEMMA AddsWithin ==
  ASSUME NEW f, NEW S, NEW g, Adds(g, f, S), NEW U \in SUBSET S
  PROVE  Adds([T \in SUBSET U |-> g[T]], f, U)
<1> DEFINE h == [T \in SUBSET U |-> g[T]]
<1>1. \A T \in SUBSET U : h[T] = IF T = {} THEN 0 ELSE f[Some(T)] + h[T \ {Some(T)}]
  <2> SUFFICES ASSUME NEW T \in SUBSET U
               PROVE  h[T] = IF T = {} THEN 0 ELSE f[Some(T)] + h[T \ {Some(T)}]
    OBVIOUS
  <2>1. T \in SUBSET S /\ h[T] = g[T] /\ h[T \ {Some(T)}] = g[T \ {Some(T)}]
    OBVIOUS
  <2> QED
    BY <2>1, AddsAt
<1>2. h = [T \in SUBSET U |-> h[T]]
  OBVIOUS
<1> HIDE DEF h
<1>3. h = [T \in SUBSET U |-> IF T = {} THEN 0 ELSE f[Some(T)] + h[T \ {Some(T)}]]
  BY <1>1, <1>2
<1>4. Adds(h, f, U)
  BY <1>3 DEF Adds
<1> QED
  BY <1>4 DEF h

\* What the sum is once there is such a function.
LEMMA SumOfAdds ==
  ASSUME NEW f, NEW S, IsFiniteSet(S), NEW g, Adds(g, f, S), NEW U \in SUBSET S
  PROVE  Sum(f, U) = g[U]
<1> DEFINE h == CHOOSE k : Adds(k, f, U)
<1>1. Adds(h, f, U)
  BY AddsWithin
<1>2. IsFiniteSet(U)
  BY FS_Subset
<1>3. h[U] = g[U]
  <2> HIDE DEF h
  <2> QED
    BY <1>1, <1>2, AddsAgree
<1> QED
  BY <1>3, SumIsFold

LEMMA AddsExists ==
  ASSUME NEW f, NEW S, IsFiniteSet(S)
  PROVE  \E g : Adds(g, f, S)
<1> DEFINE B == {T \in SUBSET S : ~ \E g : Adds(g, f, T)}
<1> SUFFICES ASSUME B # {} PROVE FALSE
  OBVIOUS
<1>0. B \subseteq SUBSET S
  OBVIOUS
<1>1. PICK T \in B : \A V \in B : V \subseteq T => V = T
  <2> HIDE DEF B
  <2> QED
    BY <1>0, Least
<1> DEFINE g == [V \in SUBSET T |-> IF V = {} THEN 0 ELSE f[Some(V)] + Sum(f, V \ {Some(V)})]
<1>2. \A V \in SUBSET T : V # {} => g[V \ {Some(V)}] = Sum(f, V \ {Some(V)})
  <2> SUFFICES ASSUME NEW V \in SUBSET T, V # {} PROVE g[V \ {Some(V)}] = Sum(f, V \ {Some(V)})
    OBVIOUS
  <2> DEFINE W == V \ {Some(V)}
  <2>1. W \in SUBSET T /\ W # T /\ Some(V) \in V
    BY DEF Some
  <2>2. W \in SUBSET S /\ W \notin B
    BY <1>1, <2>1
  <2>3. PICK k : Adds(k, f, W)
    BY <2>2
  <2>4. IsFiniteSet(W)
    BY <2>2, FS_Subset
  <2> HIDE DEF W
  <2>5. Sum(f, W) = k[W] /\ k[W] = IF W = {} THEN 0 ELSE f[Some(W)] + k[W \ {Some(W)}]
    BY <2>3, <2>4, SumOfAdds, AddsAt
  <2>6. W # {} => k[W \ {Some(W)}] = Sum(f, W \ {Some(W)})
    BY <2>3, <2>4, SumOfAdds
  <2>7. g[W] = IF W = {} THEN 0 ELSE f[Some(W)] + Sum(f, W \ {Some(W)})
    BY <2>1
  <2> QED
    BY <2>5, <2>6, <2>7 DEF W
<1>3. g = [V \in SUBSET T |-> IF V = {} THEN 0 ELSE f[Some(V)] + g[V \ {Some(V)}]]
  <2>1. \A V \in SUBSET T : g[V] = IF V = {} THEN 0 ELSE f[Some(V)] + g[V \ {Some(V)}]
    BY <1>2
  <2>2. g = [V \in SUBSET T |-> g[V]]
    OBVIOUS
  <2> HIDE DEF g
  <2> QED
    BY <2>1, <2>2
<1>4. Adds(g, f, T)
  <2> HIDE DEF g
  <2> QED
    BY <1>3 DEF Adds
<1> QED
  BY <1>4

-----------------------------------------------------------------------------
(* What a sum adds up to *)

LEMMA SumEmpty == ASSUME NEW f PROVE Sum(f, {}) = 0
<1>1. IsFiniteSet({})
  BY FS_EmptySet
<1>2. PICK g : Adds(g, f, {})
  BY <1>1, AddsExists
<1>3. Sum(f, {}) = g[{}]
  BY <1>1, <1>2, SumOfAdds
<1> QED
  BY <1>2, <1>3, AddsAt

LEMMA SumStep ==
  ASSUME NEW f, NEW S, IsFiniteSet(S), S # {}
  PROVE  Sum(f, S) = f[Some(S)] + Sum(f, S \ {Some(S)})
<1>1. PICK g : Adds(g, f, S)
  BY AddsExists
<1>2. Sum(f, S) = g[S] /\ Sum(f, S \ {Some(S)}) = g[S \ {Some(S)}]
  BY <1>1, SumOfAdds
<1> QED
  BY <1>1, <1>2, AddsAt

\* Numbers add up to a number.
LEMMA SumNat ==
  ASSUME NEW f, NEW S, IsFiniteSet(S), \A x \in S : f[x] \in Nat
  PROVE  Sum(f, S) \in Nat
<1> DEFINE B == {T \in SUBSET S : Sum(f, T) \notin Nat}
<1> SUFFICES ASSUME B # {} PROVE FALSE
  OBVIOUS
<1>0. B \subseteq SUBSET S
  OBVIOUS
<1>1. PICK T \in B : \A V \in B : V \subseteq T => V = T
  <2> HIDE DEF B
  <2> QED
    BY <1>0, Least
<1>2. T # {}
  BY SumEmpty
<1>3. Some(T) \in T /\ IsFiniteSet(T)
  BY <1>2, FS_Subset DEF Some
<1>4. Sum(f, T \ {Some(T)}) \in Nat
  BY <1>1, <1>3
<1>5. f[Some(T)] \in Nat
  BY <1>3
<1> QED
  BY <1>2, <1>3, <1>4, <1>5, SumStep

\* A member's number and the others'.
LEMMA SumRemove ==
  ASSUME NEW f, NEW S, IsFiniteSet(S), \A x \in S : f[x] \in Nat, NEW x \in S
  PROVE  Sum(f, S) = f[x] + Sum(f, S \ {x})
<1> DEFINE B == {T \in SUBSET S : \E y \in T : Sum(f, T) # f[y] + Sum(f, T \ {y})}
<1> SUFFICES ASSUME B # {} PROVE FALSE
  OBVIOUS
<1>0. B \subseteq SUBSET S
  OBVIOUS
<1>1. PICK T \in B : \A V \in B : V \subseteq T => V = T
  <2> HIDE DEF B
  <2> QED
    BY <1>0, Least
<1>2. PICK y \in T : Sum(f, T) # f[y] + Sum(f, T \ {y})
  OBVIOUS
<1> DEFINE p == Some(T)
           V == T \ {p}
           W == T \ {y}
<1>3. p \in T /\ IsFiniteSet(T) /\ IsFiniteSet(V) /\ IsFiniteSet(W)
  BY FS_Subset DEF Some
<1>4. Sum(f, T) = f[p] + Sum(f, V)
  BY <1>3, SumStep
<1>5. y # p
  BY <1>2, <1>4
<1>6. V \notin B /\ W \notin B
  BY <1>1, <1>3
<1>7. y \in V /\ p \in W /\ V \ {y} = W \ {p}
  BY <1>3, <1>5
<1>8. Sum(f, V) = f[y] + Sum(f, V \ {y}) /\ Sum(f, W) = f[p] + Sum(f, V \ {y})
  BY <1>6, <1>7
<1>9. f[p] \in Nat /\ f[y] \in Nat /\ Sum(f, V \ {y}) \in Nat
  <2>1. IsFiniteSet(V \ {y}) /\ \A z \in V \ {y} : f[z] \in Nat
    BY <1>3, FS_Subset
  <2> QED
    BY <1>3, <2>1, SumNat
<1> HIDE DEF p, V, W
<1>10. Sum(f, T) = f[y] + Sum(f, W)
  BY <1>4, <1>8, <1>9
<1> QED
  BY <1>2, <1>10 DEF W

\* Functions alike on the set add up alike.
LEMMA SumSame ==
  ASSUME NEW f, NEW g, NEW S, IsFiniteSet(S), \A x \in S : f[x] = g[x]
  PROVE  Sum(f, S) = Sum(g, S)
<1> DEFINE B == {T \in SUBSET S : Sum(f, T) # Sum(g, T)}
<1> SUFFICES ASSUME B # {} PROVE FALSE
  OBVIOUS
<1>0. B \subseteq SUBSET S
  OBVIOUS
<1>1. PICK T \in B : \A V \in B : V \subseteq T => V = T
  <2> HIDE DEF B
  <2> QED
    BY <1>0, Least
<1>2. T # {}
  BY SumEmpty
<1> DEFINE p == Some(T)
           V == T \ {p}
<1>3. p \in T /\ p \in S /\ IsFiniteSet(T) /\ IsFiniteSet(V) /\ V \in SUBSET S /\ V \notin B
  BY <1>1, <1>2, FS_Subset DEF Some
<1>4. Sum(f, T) = f[p] + Sum(f, V) /\ Sum(g, T) = g[p] + Sum(g, V)
  BY <1>2, <1>3, SumStep
<1>5. Sum(f, V) = Sum(g, V) /\ f[p] = g[p]
  BY <1>3
<1> HIDE DEF p, V
<1> QED
  BY <1>4, <1>5

\* A smaller function adds up to no more.
LEMMA SumAtMost ==
  ASSUME NEW f, NEW g, NEW S, IsFiniteSet(S),
         \A x \in S : f[x] \in Nat /\ g[x] \in Nat /\ f[x] <= g[x]
  PROVE  Sum(f, S) <= Sum(g, S)
<1> DEFINE B == {T \in SUBSET S : ~ (Sum(f, T) <= Sum(g, T))}
<1> SUFFICES ASSUME B # {} PROVE FALSE
  OBVIOUS
<1>0. B \subseteq SUBSET S
  OBVIOUS
<1>1. PICK T \in B : \A V \in B : V \subseteq T => V = T
  <2> HIDE DEF B
  <2> QED
    BY <1>0, Least
<1>2. T # {}
  BY SumEmpty
<1> DEFINE p == Some(T)
           V == T \ {p}
<1>3. p \in T /\ p \in S /\ IsFiniteSet(T) /\ IsFiniteSet(V) /\ V \in SUBSET S /\ V \notin B
  BY <1>1, <1>2, FS_Subset DEF Some
<1>4. Sum(f, T) = f[p] + Sum(f, V) /\ Sum(g, T) = g[p] + Sum(g, V)
  BY <1>2, <1>3, SumStep
<1>5. Sum(f, V) <= Sum(g, V) /\ f[p] <= g[p] /\ f[p] \in Nat /\ g[p] \in Nat
  BY <1>3
<1>6. Sum(f, V) \in Nat /\ Sum(g, V) \in Nat
  BY <1>3, SumNat
<1>7. ~ (Sum(f, T) <= Sum(g, T))
  OBVIOUS
<1> HIDE DEF p, V, B
<1> QED
  BY <1>4, <1>5, <1>6, <1>7

\* What two functions add up to together.
LEMMA SumPlus ==
  ASSUME NEW f, NEW g, NEW h, NEW S, IsFiniteSet(S),
         \A x \in S : f[x] \in Nat /\ g[x] \in Nat /\ h[x] = f[x] + g[x]
  PROVE  Sum(h, S) = Sum(f, S) + Sum(g, S)
<1> DEFINE B == {T \in SUBSET S : Sum(h, T) # Sum(f, T) + Sum(g, T)}
<1> SUFFICES ASSUME B # {} PROVE FALSE
  OBVIOUS
<1>0. B \subseteq SUBSET S
  OBVIOUS
<1>1. PICK T \in B : \A V \in B : V \subseteq T => V = T
  <2> HIDE DEF B
  <2> QED
    BY <1>0, Least
<1>2. T # {}
  <2>1. Sum(h, T) # Sum(f, T) + Sum(g, T)
    OBVIOUS
  <2>2. Sum(f, {}) + Sum(g, {}) = 0 /\ Sum(h, {}) = 0
    BY SumEmpty
  <2> HIDE DEF B
  <2> QED
    BY Zenon, <2>1, <2>2
<1> DEFINE p == Some(T)
           V == T \ {p}
<1>3. p \in T /\ p \in S /\ IsFiniteSet(T) /\ IsFiniteSet(V) /\ V \in SUBSET S /\ V \notin B
  BY <1>1, <1>2, FS_Subset DEF Some
<1>4. Sum(f, T) = f[p] + Sum(f, V) /\ Sum(g, T) = g[p] + Sum(g, V) /\ Sum(h, T) = h[p] + Sum(h, V)
  BY <1>2, <1>3, SumStep
<1>5. Sum(h, V) = Sum(f, V) + Sum(g, V) /\ h[p] = f[p] + g[p] /\ f[p] \in Nat /\ g[p] \in Nat
  BY <1>3
<1>6. Sum(f, V) \in Nat /\ Sum(g, V) \in Nat
  BY <1>3, SumNat
<1>7. Sum(h, T) # Sum(f, T) + Sum(g, T)
  OBVIOUS
<1> HIDE DEF p, V, B
<1> QED
  BY <1>4, <1>5, <1>6, <1>7

\* Nothing but zeros adds up to zero.
LEMMA SumZero ==
  ASSUME NEW f, NEW S, IsFiniteSet(S), \A x \in S : f[x] = 0
  PROVE  Sum(f, S) = 0
<1> DEFINE B == {T \in SUBSET S : Sum(f, T) # 0}
<1> SUFFICES ASSUME B # {} PROVE FALSE
  OBVIOUS
<1>0. B \subseteq SUBSET S
  OBVIOUS
<1>1. PICK T \in B : \A V \in B : V \subseteq T => V = T
  <2> HIDE DEF B
  <2> QED
    BY <1>0, Least
<1>2. T # {}
  BY SumEmpty
<1> DEFINE p == Some(T)
           V == T \ {p}
<1>3. p \in T /\ p \in S /\ IsFiniteSet(T) /\ IsFiniteSet(V) /\ V \in SUBSET S /\ V \notin B
  BY <1>1, <1>2, FS_Subset DEF Some
<1>4. Sum(f, T) = f[p] + Sum(f, V)
  BY <1>2, <1>3, SumStep
<1>5. Sum(f, V) = 0 /\ f[p] = 0 /\ Sum(f, T) # 0
  BY <1>3
<1> HIDE DEF p, V, B
<1> QED
  BY <1>4, <1>5

\* The sum of ones counts the set.
LEMMA SumOnes ==
  ASSUME NEW f, NEW S, IsFiniteSet(S), \A x \in S : f[x] = 1
  PROVE  Sum(f, S) = Cardinality(S)
<1> DEFINE B == {T \in SUBSET S : Sum(f, T) # Cardinality(T)}
<1> SUFFICES ASSUME B # {} PROVE FALSE
  OBVIOUS
<1>0. B \subseteq SUBSET S
  OBVIOUS
<1>1. PICK T \in B : \A V \in B : V \subseteq T => V = T
  <2> HIDE DEF B
  <2> QED
    BY <1>0, Least
<1>2. T # {}
  BY SumEmpty, FS_EmptySet
<1> DEFINE p == Some(T)
           V == T \ {p}
<1>3. p \in T /\ p \in S /\ IsFiniteSet(T) /\ IsFiniteSet(V) /\ V \in SUBSET S /\ V \notin B
  BY <1>1, <1>2, FS_Subset DEF Some
<1>4. Sum(f, T) = f[p] + Sum(f, V)
  BY <1>2, <1>3, SumStep
<1>5. Sum(f, V) = Cardinality(V) /\ f[p] = 1 /\ Sum(f, T) # Cardinality(T)
  BY <1>3
<1>6. Cardinality(V) = Cardinality(T) - 1 /\ Cardinality(T) \in Nat
  BY <1>3, FS_RemoveElement, FS_CardinalityType
<1> HIDE DEF p, V, B
<1> QED
  BY <1>4, <1>5, <1>6

\* Two sets that share nothing add up together.
LEMMA SumUnion ==
  ASSUME NEW f, NEW S, NEW U, IsFiniteSet(S), IsFiniteSet(U), S \cap U = {},
         \A x \in S \cup U : f[x] \in Nat
  PROVE  Sum(f, S \cup U) = Sum(f, S) + Sum(f, U)
<1> DEFINE B == {T \in SUBSET S : Sum(f, T \cup U) # Sum(f, T) + Sum(f, U)}
<1> SUFFICES ASSUME B # {} PROVE FALSE
  OBVIOUS
<1>0. B \subseteq SUBSET S
  OBVIOUS
<1>1. PICK T \in B : \A V \in B : V \subseteq T => V = T
  <2> HIDE DEF B
  <2> QED
    BY <1>0, Least
<1>2. T # {}
  <2>1. Sum(f, T \cup U) # Sum(f, T) + Sum(f, U)
    OBVIOUS
  <2>2. Sum(f, {}) = 0 /\ Sum(f, U) \in Nat /\ {} \cup U = U
    BY SumEmpty, SumNat
  <2> HIDE DEF B
  <2> QED
    BY <2>1, <2>2
<1> DEFINE p == Some(T)
           V == T \ {p}
<1>3. p \in T /\ p \in S /\ IsFiniteSet(T) /\ IsFiniteSet(V) /\ V \in SUBSET S /\ V \notin B
  BY <1>1, <1>2, FS_Subset DEF Some
<1>4. Sum(f, T) = f[p] + Sum(f, V) /\ f[p] \in Nat
  BY <1>2, <1>3, SumStep
<1>5. Sum(f, T \cup U) = f[p] + Sum(f, V \cup U)
  <2>1. IsFiniteSet(T \cup U) /\ (\A x \in T \cup U : f[x] \in Nat) /\ p \in T \cup U
    BY <1>3, FS_Union
  <2>2. Sum(f, T \cup U) = f[p] + Sum(f, (T \cup U) \ {p})
    BY <2>1, SumRemove
  <2>3. (T \cup U) \ {p} = V \cup U
    BY <1>3
  <2> QED
    BY <2>2, <2>3
<1>6. Sum(f, V \cup U) = Sum(f, V) + Sum(f, U)
  BY <1>3
<1>7. Sum(f, V) \in Nat /\ Sum(f, U) \in Nat
  BY <1>3, SumNat
<1>8. Sum(f, T \cup U) # Sum(f, T) + Sum(f, U)
  OBVIOUS
<1> HIDE DEF p, V, B
<1> QED
  BY <1>4, <1>5, <1>6, <1>7, <1>8

-----------------------------------------------------------------------------
(* Sums over a set's parts, and counting *)

\* The members of S that h puts in c.
Part(S, h, c) == {x \in S : h[x] = c}
LEMMA PartOf ==
  ASSUME NEW S, NEW h, NEW c, IsFiniteSet(S)
  PROVE  IsFiniteSet(Part(S, h, c)) /\ Part(S, h, c) \subseteq S /\ \A x : x \in Part(S, h, c) <=> x \in S /\ h[x] = c
<1>1. Part(S, h, c) \in SUBSET S /\ \A x : x \in Part(S, h, c) <=> x \in S /\ h[x] = c
  BY DEF Part
<1> QED
  BY <1>1, FS_Subset

\* A set's sum is that of its parts' sums: total[c] is what the members that
\* h puts in c add up to.
LEMMA SumParts ==
  ASSUME NEW f, NEW S, NEW C, NEW h, NEW total, IsFiniteSet(S), IsFiniteSet(C),
         \A x \in S : f[x] \in Nat /\ h[x] \in C,
         \A c \in C : total[c] = Sum(f, Part(S, h, c))
  PROVE  Sum(f, S) = Sum(total, C)
<1> DEFINE In(T) == {x \in S : h[x] \in T}
           B == {T \in SUBSET C : Sum(f, In(T)) # Sum(total, T)}
<1>1. B = {}
  <2> SUFFICES ASSUME B # {} PROVE FALSE
    OBVIOUS
  <2>0. B \subseteq SUBSET C
    OBVIOUS
  <2>1. PICK T \in B : \A V \in B : V \subseteq T => V = T
    <3> HIDE DEF B
    <3> QED
      BY <2>0, Least
  <2>2. Sum(f, In(T)) # Sum(total, T)
    OBVIOUS
  <2>3. T # {}
    <3>1. In({}) = {} /\ Sum(f, {}) = 0 /\ Sum(total, {}) = 0
      BY SumEmpty
    <3> HIDE DEF B, In
    <3> QED
      BY Zenon, <2>2, <3>1
  <2> DEFINE p == Some(T)
             V == T \ {p}
  <2>4. p \in T /\ p \in C /\ IsFiniteSet(T) /\ V \in SUBSET C /\ V \notin B
    BY <2>1, <2>3, FS_Subset DEF Some
  <2>5. Sum(total, T) = total[p] + Sum(total, V) /\ Sum(f, In(V)) = Sum(total, V)
    BY <2>3, <2>4, SumStep
  <2>6. In(T) = In(V) \cup Part(S, h, p) /\ In(V) \cap Part(S, h, p) = {}
    BY <2>4, PartOf
  <2>7. IsFiniteSet(In(V)) /\ IsFiniteSet(Part(S, h, p)) /\ Part(S, h, p) \subseteq S
    BY FS_Subset, PartOf
  <2>8. Sum(f, In(T)) = Sum(f, In(V)) + Sum(f, Part(S, h, p))
    BY <2>6, <2>7, SumUnion
  <2>9. Sum(f, In(V)) \in Nat /\ Sum(f, Part(S, h, p)) \in Nat
    BY <2>7, SumNat
  <2>10. total[p] = Sum(f, Part(S, h, p))
    BY <2>4
  <2> HIDE DEF B, In, p, V
  <2> QED
    BY <2>2, <2>5, <2>8, <2>9, <2>10
<1>2. Sum(f, In(C)) = Sum(total, C)
  BY <1>1
<1>3. In(C) = S
  OBVIOUS
<1> HIDE DEF In
<1> QED
  BY <1>2, <1>3

\* A set's members are those of its parts.
LEMMA CountParts ==
  ASSUME NEW S, NEW C, NEW h, NEW total, IsFiniteSet(S), IsFiniteSet(C),
         \A x \in S : h[x] \in C,
         \A c \in C : total[c] = Cardinality(Part(S, h, c))
  PROVE  Cardinality(S) = Sum(total, C)
<1> DEFINE one == [x \in S |-> 1]
<1>1. \A x \in S : one[x] = 1 /\ one[x] \in Nat
  OBVIOUS
<1> HIDE DEF one
<1>2. Sum(one, S) = Cardinality(S)
  BY <1>1, SumOnes
<1>3. \A c \in C : total[c] = Sum(one, Part(S, h, c))
  <2> SUFFICES ASSUME NEW c \in C PROVE total[c] = Sum(one, Part(S, h, c))
    OBVIOUS
  <2> DEFINE part == Part(S, h, c)
  <2>1. IsFiniteSet(part) /\ \A x \in part : one[x] = 1
    BY <1>1, PartOf
  <2>2. total[c] = Cardinality(part)
    OBVIOUS
  <2>3. Sum(one, part) = Cardinality(part)
    <3> HIDE DEF part
    <3> QED
      BY <2>1, SumOnes
  <2> QED
    BY <2>2, <2>3
<1>4. Sum(one, S) = Sum(total, C)
  BY <1>1, <1>3, SumParts
<1> QED
  BY <1>2, <1>4

\* A set covered by others has no more members than they together.
LEMMA CountCover ==
  ASSUME NEW S, NEW C, NEW m, NEW total, IsFiniteSet(S), IsFiniteSet(C),
         \A x \in S : \E c \in C : x \in m[c],
         \A c \in C : IsFiniteSet(m[c]) /\ total[c] = Cardinality(m[c])
  PROVE  Cardinality(S) <= Sum(total, C)
<1> DEFINE h == [x \in S |-> CHOOSE c \in C : x \in m[c]]
           least == [c \in C |-> Cardinality(Part(S, h, c))]
<1>1. \A x \in S : h[x] \in C /\ x \in m[h[x]]
  OBVIOUS
<1>2. \A c \in C : least[c] = Cardinality(Part(S, h, c))
  OBVIOUS
<1>3. \A c \in C : least[c] \in Nat /\ total[c] \in Nat /\ least[c] <= total[c]
  <2> HIDE DEF h, least
  <2> SUFFICES ASSUME NEW c \in C PROVE least[c] \in Nat /\ total[c] \in Nat /\ least[c] <= total[c]
    OBVIOUS
  <2>1. Part(S, h, c) \subseteq m[c] /\ IsFiniteSet(m[c]) /\ IsFiniteSet(Part(S, h, c))
    BY <1>1, PartOf
  <2>2. total[c] = Cardinality(m[c]) /\ least[c] = Cardinality(Part(S, h, c))
    BY <1>2
  <2>3. Cardinality(Part(S, h, c)) <= Cardinality(m[c])
    BY <2>1, FS_Subset
  <2>4. Cardinality(Part(S, h, c)) \in Nat /\ Cardinality(m[c]) \in Nat
    BY <2>1, FS_CardinalityType
  <2> QED
    BY <2>2, <2>3, <2>4
<1> HIDE DEF h, least
<1>4. Cardinality(S) = Sum(least, C)
  BY <1>1, <1>2, CountParts
<1>5. Sum(least, C) <= Sum(total, C)
  BY <1>3, SumAtMost
<1> QED
  BY <1>4, <1>5

\* What a function makes of a finite set is finite, and of no more members;
\* of as many where it is one to one.
LEMMA CountImage ==
  ASSUME NEW S, NEW T, NEW h, IsFiniteSet(S), \A y \in T : \E x \in S : h[x] = y
  PROVE  /\ IsFiniteSet(T) /\ Cardinality(T) <= Cardinality(S)
         /\ (\A x \in S : h[x] \in T) /\ (\A x, y \in S : h[x] = h[y] => x = y)
              => Cardinality(T) = Cardinality(S)
<1> DEFINE U == {x \in S : h[x] \in T}
           g == [x \in U |-> h[x]]
<1>1. g \in Surjection(U, T)
  BY DEF Surjection
<1>2. IsFiniteSet(U) /\ Cardinality(U) <= Cardinality(S)
  BY FS_Subset
<1>3. IsFiniteSet(T) /\ Cardinality(T) <= Cardinality(U)
  <2> HIDE DEF g, U
  <2> QED
    BY <1>1, <1>2, FS_Surjection
<1>4. Cardinality(T) \in Nat /\ Cardinality(U) \in Nat /\ Cardinality(S) \in Nat
  BY <1>2, <1>3, FS_CardinalityType
<1>5. ASSUME \A x \in S : h[x] \in T, \A x, y \in S : h[x] = h[y] => x = y
      PROVE  Cardinality(T) = Cardinality(S)
  <2>1. U = S
    BY <1>5
  <2>2. g \in Injection(U, T)
    BY <1>5 DEF Injection, IsInjective
  <2> HIDE DEF g, U
  <2> QED
    BY <1>1, <1>2, <2>1, <2>2, FS_Surjection
<1> HIDE DEF g, U
<1> QED
  BY <1>2, <1>3, <1>4, <1>5

\* A set in two parts.
LEMMA CountTwo ==
  ASSUME NEW S, NEW T, IsFiniteSet(S), IsFiniteSet(T), S \cap T = {}
  PROVE  Cardinality(S \cup T) = Cardinality(S) + Cardinality(T)
<1>1. Cardinality({}) = 0 /\ Cardinality(S) \in Nat /\ Cardinality(T) \in Nat
  BY FS_EmptySet, FS_CardinalityType
<1>2. Cardinality(S \cup T) = Cardinality(S) + Cardinality(T) - Cardinality(S \cap T)
  BY FS_Union
<1>3. Cardinality(S \cap T) = 0
  BY Zenon, <1>1
<1> QED
  BY <1>1, <1>2, <1>3

-----------------------------------------------------------------------------
(* Sums of what answers to each other, one to one *)

OneToOne(h, S, T) ==
  /\ \A x \in S : h[x] \in T
  /\ \A x, y \in S : h[x] = h[y] => x = y
  /\ \A z \in T : \E x \in S : h[x] = z

LEMMA SumOneToOne ==
  ASSUME NEW f, NEW g, NEW S, NEW T, NEW h, IsFiniteSet(S), OneToOne(h, S, T),
         \A x \in S : f[x] \in Nat /\ g[h[x]] = f[x]
  PROVE  Sum(f, S) = Sum(g, T)
<1>1. IsFiniteSet(T)
  BY CountImage DEF OneToOne
<1>2. ASSUME NEW z \in T PROVE g[z] = Sum(f, Part(S, h, z))
  <2>1. PICK x \in S : h[x] = z
    BY DEF OneToOne
  <2>2. Part(S, h, z) = {x}
    BY <2>1 DEF Part, OneToOne
  <2>3. IsFiniteSet({x}) /\ {x} \ {x} = {}
    BY FS_Singleton
  <2>4. Sum(f, {x}) = f[x] + Sum(f, {})
    <3> DEFINE X == {x}
    <3>1. IsFiniteSet(X) /\ x \in X /\ X \ {x} = {} /\ \A y \in X : f[y] \in Nat
      BY <2>3
    <3> HIDE DEF X
    <3>2. Sum(f, X) = f[x] + Sum(f, X \ {x})
      BY <3>1, SumRemove
    <3> QED
      BY <3>1, <3>2 DEF X
  <2>5. Sum(f, {}) = 0 /\ f[x] \in Nat /\ g[z] = f[x]
    BY <2>1, SumEmpty
  <2> QED
    BY <2>2, <2>4, <2>5
<1>3. \A x \in S : f[x] \in Nat /\ h[x] \in T
  BY DEF OneToOne
<1> QED
  BY <1>1, <1>2, <1>3, SumParts

LEMMA OneToOnePart ==
  ASSUME NEW h, NEW P, NEW Q, OneToOne(h, P, Q), NEW S \in SUBSET P, NEW T \in SUBSET Q,
         \A e \in P : e \in S <=> h[e] \in T
  PROVE  OneToOne(h, S, T)
BY DEF OneToOne

\* Of ones, a sum is a count.
AddsOne(g, S) == g = [T \in SUBSET S |-> IF T = {} THEN 0 ELSE 1 + g[T \ {Some(T)}]]

LEMMA OnesAdd ==
  ASSUME NEW rows, NEW S \in SUBSET rows, NEW g
  PROVE  AddsOne(g, S) <=> Adds(g, [e \in rows |-> 1], S)
<1> DEFINE v == [e \in rows |-> 1]
<1>1. \A T \in SUBSET S : T # {} => v[Some(T)] = 1
  <2> SUFFICES ASSUME NEW T \in SUBSET S, T # {} PROVE v[Some(T)] = 1
    OBVIOUS
  <2>1. Some(T) \in T
    BY DEF Some
  <2> QED
    BY <2>1
<1> HIDE DEF v
<1>2. [T \in SUBSET S |-> IF T = {} THEN 0 ELSE 1 + g[T \ {Some(T)}]]
      = [T \in SUBSET S |-> IF T = {} THEN 0 ELSE v[Some(T)] + g[T \ {Some(T)}]]
  BY <1>1
<1> QED
  BY <1>2, Zenon DEF Adds, AddsOne, v

-----------------------------------------------------------------------------
(* A fold over a sequence, step by step *)

Numbers(S) == S \subseteq Nat
Greatest(m, S) == m \in S /\ \A x \in S : m >= x

LEMMA MaxIs ==
  ASSUME NEW S, Numbers(S), NEW m, Greatest(m, S)
  PROVE  Max(S) = m
<1>1. Max(S) = CHOOSE k : Greatest(k, S)
  BY DEF Max, Greatest
<1>2. \A k : Greatest(k, S) => k = m
  <2> SUFFICES ASSUME NEW k, Greatest(k, S) PROVE k = m
    OBVIOUS
  <2>1. k \in Nat /\ m \in Nat /\ k >= m /\ m >= k
    BY DEF Numbers, Greatest
  <2> QED
    BY <2>1
<1> HIDE DEF Greatest
<1> QED
  BY <1>1, <1>2

LEMMA GreaterOne ==
  ASSUME NEW T, Numbers(T), NEW x \in T, NEW m, Greatest(m, T \ {x})
  PROVE  \E k : Greatest(k, T)
<1>1. x \in Nat /\ m \in Nat /\ m \in T
  BY DEF Numbers, Greatest
<1>2. CASE m >= x
  BY <1>1, <1>2 DEF Greatest
<1>3. CASE x >= m
  BY <1>1, <1>3 DEF Greatest, Numbers
<1> QED
  BY <1>1, <1>2, <1>3

LEMMA MaxIn ==
  ASSUME NEW S, Numbers(S), IsFiniteSet(S), S # {}
  PROVE  Max(S) \in S /\ Greatest(Max(S), S)
<1> DEFINE B == {T \in SUBSET S : T # {} /\ ~ \E x : Greatest(x, T)}
<1>1. B = {}
  <2> SUFFICES ASSUME B # {} PROVE FALSE
    OBVIOUS
  <2>1. PICK T \in B : \A U \in B : U \subseteq T => U = T
    <3>1. B \subseteq SUBSET S
      OBVIOUS
    <3> HIDE DEF B
    <3> QED
      BY <3>1, Least
  <2>2. PICK x \in T : TRUE
    OBVIOUS
  <2>3. Numbers(T)
    BY DEF Numbers
  <2>4. T \ {x} \notin B /\ T \ {x} \in SUBSET S
    BY <2>1
  <2>5. CASE T \ {x} = {}
    <3>1. Greatest(x, T)
      BY <2>3, <2>5 DEF Greatest, Numbers
    <3> QED
      BY <3>1
  <2>6. CASE T \ {x} # {}
    <3>1. PICK m : Greatest(m, T \ {x})
      BY <2>4, <2>6
    <3>2. \E k : Greatest(k, T)
      BY <2>3, <3>1, GreaterOne
    <3> QED
      BY <3>2
  <2> QED
    BY <2>5, <2>6
<1>2. PICK m : Greatest(m, S)
  BY <1>1
<1>3. Max(S) = m
  BY <1>2, MaxIs
<1> QED
  BY <1>2, <1>3 DEF Greatest

LEMMA MinIn ==
  ASSUME NEW S \in SUBSET Nat, S # {}
  PROVE  Min(S) \in S /\ \A x \in S : Min(S) <= x
<1>1. \E n \in S : \A x \in S : n <= x
  BY LeastNumber
<1> QED
  BY <1>1 DEF Min

\* The fold of F over the numbers S, the largest last.
FoldOf(g, F, base, S) ==
  g = [T \in SUBSET S |-> IF T = {} THEN base ELSE F[<<g[T \ {Max(T)}], Max(T)>>]]

LEMMA FoldAt ==
  ASSUME NEW g, NEW F, NEW base, NEW S, FoldOf(g, F, base, S), NEW T \in SUBSET S
  PROVE  g[T] = IF T = {} THEN base ELSE F[<<g[T \ {Max(T)}], Max(T)>>]
  BY DEF FoldOf

LEMMA FoldsAgree ==
  ASSUME NEW F, NEW base, NEW U, Numbers(U), IsFiniteSet(U), NEW S \in SUBSET U,
         NEW g, NEW h, FoldOf(g, F, base, S), FoldOf(h, F, base, U)
  PROVE  \A T \in SUBSET S : g[T] = h[T]
<1> DEFINE B == {T \in SUBSET S : g[T] # h[T]}
<1> SUFFICES ASSUME B # {} PROVE FALSE
  OBVIOUS
<1>0. B \subseteq SUBSET U
  OBVIOUS
<1>1. PICK T \in B : \A V \in B : V \subseteq T => V = T
  <2> HIDE DEF B
  <2> QED
    BY <1>0, Least
<1>2. T \in SUBSET S /\ T \in SUBSET U /\ g[T] # h[T]
  OBVIOUS
<1>3. CASE T = {}
  BY <1>2, <1>3, FoldAt
<1>4. CASE T # {}
  <2>0. IsFiniteSet(T) /\ Numbers(T)
    BY <1>2, FS_Subset DEF Numbers
  <2>1. Max(T) \in T
    BY <1>4, <2>0, MaxIn
  <2> DEFINE V == T \ {Max(T)}
  <2>2. V \in SUBSET S /\ V # T /\ V \subseteq T
    BY <1>2, <2>1
  <2>3. g[V] = h[V]
    BY <1>1, <2>2
  <2>4. g[T] = F[<<g[V], Max(T)>>]
    BY <1>2, <1>4, FoldAt
  <2>5. h[T] = F[<<h[V], Max(T)>>]
    BY <1>2, <1>4, FoldAt
  <2> QED
    BY <1>2, <2>3, <2>4, <2>5
<1> QED
  BY <1>3, <1>4

LEMMA FoldExists ==
  ASSUME NEW F, NEW base, NEW S, Numbers(S), IsFiniteSet(S)
  PROVE  \E g : FoldOf(g, F, base, S)
<1> DEFINE B == {T \in SUBSET S : ~ \E g : FoldOf(g, F, base, T)}
<1> SUFFICES ASSUME B # {} PROVE FALSE
  OBVIOUS
<1>0. B \subseteq SUBSET S
  OBVIOUS
<1>1. PICK T \in B : \A V \in B : V \subseteq T => V = T
  <2> HIDE DEF B
  <2> QED
    BY <1>0, Least
<1> DEFINE at(V) == (CHOOSE g : FoldOf(g, F, base, V))[V]
           g == [V \in SUBSET T |-> IF V = {} THEN base ELSE F[<<at(V \ {Max(V)}), Max(V)>>]]
<1>2. ASSUME NEW V \in SUBSET T, V # T PROVE g[V] = at(V)
  <2>1. V \in SUBSET S /\ V \notin B /\ IsFiniteSet(V) /\ Numbers(V)
    BY <1>1, <1>2, FS_Subset DEF Numbers
  <2> DEFINE k == CHOOSE k : FoldOf(k, F, base, V)
  <2>2. FoldOf(k, F, base, V)
    BY <2>1
  <2>3. at(V) = k[V] /\ k[V] = IF V = {} THEN base ELSE F[<<k[V \ {Max(V)}], Max(V)>>]
    <3> HIDE DEF k
    <3>1. k[V] = IF V = {} THEN base ELSE F[<<k[V \ {Max(V)}], Max(V)>>]
      BY <2>2, FoldAt
    <3> QED
      BY <3>1 DEF k
  <2>4. ASSUME V # {} PROVE k[V \ {Max(V)}] = at(V \ {Max(V)})
    <3> DEFINE W == V \ {Max(V)}
    <3>1. Max(V) \in V
      BY <2>1, <2>4, MaxIn
    <3>2. W \in SUBSET T /\ W # T /\ W \in SUBSET S /\ W \in SUBSET V
      BY <2>1, <3>1
    <3>3. W \notin B /\ IsFiniteSet(W)
      BY <1>1, <3>2, FS_Subset
    <3>4. FoldOf(CHOOSE j : FoldOf(j, F, base, W), F, base, W)
      BY <3>2, <3>3
    <3> HIDE DEF W, k
    <3>5. (CHOOSE j : FoldOf(j, F, base, W))[W] = k[W]
      BY <2>1, <2>2, <3>2, <3>4, FoldsAgree
    <3> QED
      BY <3>5 DEF W
  <2> HIDE DEF k, at
  <2> QED
    BY <2>3, <2>4
<1>3. ASSUME NEW V \in SUBSET T, V # {} PROVE g[V \ {Max(V)}] = at(V \ {Max(V)})
  <2>0. IsFiniteSet(V) /\ Numbers(V)
    BY <1>3, FS_Subset DEF Numbers
  <2>1. Max(V) \in V
    BY <1>3, <2>0, MaxIn
  <2>2. V \ {Max(V)} \in SUBSET T /\ V \ {Max(V)} # T
    BY <2>1
  <2> HIDE DEF g, at
  <2> QED
    BY <1>2, <2>2
<1>4. g = [V \in SUBSET T |-> IF V = {} THEN base ELSE F[<<g[V \ {Max(V)}], Max(V)>>]]
  <2>1. ASSUME NEW V \in SUBSET T PROVE g[V] = IF V = {} THEN base ELSE F[<<g[V \ {Max(V)}], Max(V)>>]
    <3> HIDE DEF at
    <3>1. g[V] = IF V = {} THEN base ELSE F[<<at(V \ {Max(V)}), Max(V)>>]
      OBVIOUS
    <3> HIDE DEF g
    <3> QED
      BY <1>3, <3>1
  <2>2. g = [V \in SUBSET T |-> g[V]]
    OBVIOUS
  <2> HIDE DEF g
  <2> QED
    BY <2>1, <2>2
<1>5. FoldOf(g, F, base, T)
  <2> HIDE DEF g
  <2> QED
    BY <1>4 DEF FoldOf
<1> QED
  BY <1>5

FoldIs(g, F, base, S, A) ==
  /\ g \in [SUBSET S -> A]
  /\ g[{}] = base
  /\ \A T \in SUBSET S : T # {} =>
       /\ Max(T) \in S /\ g[T \ {Max(T)}] \in A
       /\ g[T] = F[<<g[T \ {Max(T)}], Max(T)>>]

\* ... which, of a function from A to A, is one to A.
LEMMA FoldIn ==
  ASSUME NEW A, NEW S, Numbers(S), IsFiniteSet(S), NEW F \in [A \X S -> A], NEW base \in A
  PROVE  \E g : FoldIs(g, F, base, S, A)
<1>2. PICK g : FoldOf(g, F, base, S)
  BY FoldExists
<1>3. g = [T \in SUBSET S |-> g[T]]
  BY <1>2 DEF FoldOf
<1> DEFINE B == {T \in SUBSET S : g[T] \notin A}
<1>4. B = {}
  <2> SUFFICES ASSUME B # {} PROVE FALSE
    OBVIOUS
  <2>0. B \subseteq SUBSET S
    OBVIOUS
  <2>1. PICK T \in B : \A V \in B : V \subseteq T => V = T
    <3> HIDE DEF B
    <3> QED
      BY <2>0, Least
  <2>2. T \in SUBSET S /\ g[T] \notin A
    OBVIOUS
  <2>3. g[T] = IF T = {} THEN base ELSE F[<<g[T \ {Max(T)}], Max(T)>>]
    BY <1>2, <2>2, FoldAt
  <2>4. T # {}
    BY <2>2, <2>3
  <2>5. Max(T) \in T
    <3>1. IsFiniteSet(T) /\ Numbers(T)
      BY <2>2, FS_Subset DEF Numbers
    <3> QED
      BY <2>4, <3>1, MaxIn
  <2>6. T \ {Max(T)} \notin B /\ T \ {Max(T)} \in SUBSET S
    BY <2>1, <2>5
  <2>7. g[T \ {Max(T)}] \in A
    BY <2>6
  <2> QED
    BY <2>2, <2>3, <2>4, <2>5, <2>7
<1>5. \A T \in SUBSET S : g[T] \in A
  BY <1>4
<1>6. \A T \in SUBSET S : T # {} => Max(T) \in S
  <2> SUFFICES ASSUME NEW T \in SUBSET S, T # {} PROVE Max(T) \in S
    OBVIOUS
  <2>1. IsFiniteSet(T) /\ Numbers(T)
    BY FS_Subset DEF Numbers
  <2> QED
    BY <2>1, MaxIn
<1>7. g[{}] = base
  BY <1>2, FoldAt
<1>8. \A T \in SUBSET S : T # {} => g[T] = F[<<g[T \ {Max(T)}], Max(T)>>]
  BY <1>2, FoldAt
<1>9. g \in [SUBSET S -> A]
  BY <1>3, <1>5
<1> QED
  BY <1>5, <1>6, <1>7, <1>8, <1>9 DEF FoldIs

\* What the folds below go over.
LEMMA Prefix ==
  ASSUME NEW n \in Nat, NEW k \in 1 .. n
  PROVE  /\ Max(1 .. k) = k /\ 1 .. k # {} /\ (1 .. k) \ {k} = 1 .. (k - 1)
         /\ 1 .. k \in SUBSET (1 .. n) /\ k - 1 \in Nat
<1>1. Numbers(1 .. k) /\ Greatest(k, 1 .. k)
  BY DEF Numbers, Greatest
<1> QED
  BY <1>1, MaxIs

LEMMA Interval == ASSUME NEW n \in Nat PROVE Numbers(1 .. n) /\ IsFiniteSet(1 .. n)
  BY FS_Interval DEF Numbers

\* What a fold over the sets of first indices gives, one index after another.
FoldPrefixes(n, h, g) ==
  /\ g[0] = h[{}] /\ g[n] = h[1 .. n]
  /\ \A k \in 1 .. n : /\ g[k] = h[1 .. k] /\ g[k - 1] = h[(1 .. k) \ {Max(1 .. k)}]
                       /\ Max(1 .. k) = k /\ 1 .. k # {} /\ 1 .. k \in SUBSET (1 .. n)

LEMMA PrefixSteps ==
  ASSUME NEW n \in Nat, NEW h
  PROVE  \E g : FoldPrefixes(n, h, g) /\ g = [k \in 0 .. n |-> h[1 .. k]]
<1>0. PICK g : g = [k \in 0 .. n |-> h[1 .. k]]
  OBVIOUS
<1>1. 1 .. 0 = {} /\ g[0] = h[1 .. 0] /\ g[n] = h[1 .. n]
  BY <1>0
<1>2. ASSUME NEW k \in 1 .. n
      PROVE  /\ g[k] = h[1 .. k] /\ g[k - 1] = h[(1 .. k) \ {Max(1 .. k)}]
             /\ Max(1 .. k) = k /\ 1 .. k # {} /\ 1 .. k \in SUBSET (1 .. n)
  <2>1. Max(1 .. k) = k /\ 1 .. k # {} /\ (1 .. k) \ {k} = 1 .. (k - 1) /\ 1 .. k \in SUBSET (1 .. n)
    BY Prefix
  <2>2. g[k] = h[1 .. k] /\ g[k - 1] = h[1 .. (k - 1)]
    BY <1>0
  <2> QED
    BY <2>1, <2>2, Zenon
<1> QED
  BY <1>0, <1>1, <1>2 DEF FoldPrefixes

-----------------------------------------------------------------------------
(* Sequences put together, and numbers put in order *)

LEMMA LeastField ==
  ASSUME NEW T, T # {}, NEW f, \A s \in T : f[s] \in Nat
  PROVE  \E s \in T : \A t \in T : f[s] <= f[t]
<1> DEFINE N == {f[s] : s \in T}
<1>1. PICK n \in N : \A m \in N : n <= m
  <2>1. N \in SUBSET Nat /\ N # {}
    OBVIOUS
  <2> HIDE DEF N
  <2> QED
    BY <2>1, LeastNumber
<1>2. PICK s \in T : n = f[s]
  OBVIOUS
<1> QED
  BY <1>1, <1>2

LEMMA SeqWithin ==
  ASSUME NEW S, NEW T, S \subseteq T, NEW s \in Seq(S)
  PROVE  s \in Seq(T)
  OBVIOUS

LEMMA BySeq ==
  ASSUME NEW S, NEW n \in Nat, NEW s \in [1 .. n -> S]
  PROVE  s \in Seq(S) /\ Len(s) = n
  OBVIOUS

\* Sequences put together, one after another: the recursion, and what it goes through.
JoinsUp(f, seqs) == f = [i \in 1 .. Len(seqs) |-> IF i = 1 THEN seqs[i] ELSE f[i - 1] \o seqs[i]]
JoinedUp(seqs) == (CHOOSE f : JoinsUp(f, seqs))[Len(seqs)]
Puts(h, seqs, S) ==
  /\ h[0] = <<>>
  /\ \A i \in 1 .. Len(seqs) : h[i - 1] \in Seq(S) /\ h[i] = h[i - 1] \o seqs[i]

LEMMA PutTogether ==
  ASSUME NEW S, NEW seqs \in Seq(Seq(S)), Len(seqs) # 0
  PROVE  \E h : Puts(h, seqs, S) /\ JoinedUp(seqs) = h[Len(seqs)]
<1> DEFINE n == Len(seqs)
           Is(f) == f = [i \in 1 .. n |-> IF i = 1 THEN seqs[i] ELSE f[i - 1] \o seqs[i]]
<1>1. n \in Nat
  OBVIOUS
<1>2. n # 0
  OBVIOUS
<1>3. JoinedUp(seqs) = (CHOOSE f : Is(f))[n]
  BY Zenon DEF JoinedUp, JoinsUp
<1>4. \A i \in 1 .. n : seqs[i] \in Seq(S)
  OBVIOUS
<1> DEFINE F == [x \in Seq(S) \X (1 .. n) |-> x[1] \o seqs[x[2]]]
<1>5. PICK g : FoldIs(g, F, <<>>, 1 .. n, Seq(S))
  <2> DEFINE B == Seq(S)
             N == 1 .. n
  <2>1. F \in [B \X N -> B] /\ <<>> \in B
    BY <1>4
  <2>2. Numbers(N) /\ IsFiniteSet(N)
    BY <1>1, Interval
  <2> HIDE DEF F, B, N
  <2>3. \E g : FoldIs(g, F, <<>>, N, B)
    BY <2>1, <2>2, FoldIn
  <2> QED
    BY <2>3 DEF B, N
<1> HIDE DEF n
<1> DEFINE f == [i \in 1 .. n |-> g[1 .. i]]
<1>6. ASSUME NEW i \in 1 .. n PROVE g[1 .. i] = g[1 .. (i - 1)] \o seqs[i] /\ g[1 .. (i - 1)] \in Seq(S)
  <2>1. Max(1 .. i) = i /\ 1 .. i # {} /\ (1 .. i) \ {i} = 1 .. (i - 1) /\ 1 .. i \in SUBSET (1 .. n)
    BY <1>1, Prefix
  <2>2. g[1 .. (i - 1)] \in Seq(S) /\ g[1 .. i] = F[<<g[1 .. (i - 1)], i>>]
    <3> HIDE DEF F
    <3> QED
      BY <1>5, <2>1 DEF FoldIs
  <2> QED
    BY <2>2
<1>7. g[1 .. 0] = <<>>
  <2>1. 1 .. 0 = {}
    OBVIOUS
  <2> QED
    BY <1>5, <2>1 DEF FoldIs
<1>8. \A i \in 1 .. n : f[i] = IF i = 1 THEN seqs[i] ELSE f[i - 1] \o seqs[i]
  <2> SUFFICES ASSUME NEW i \in 1 .. n PROVE f[i] = IF i = 1 THEN seqs[i] ELSE f[i - 1] \o seqs[i]
    OBVIOUS
  <2>1. f[i] = g[1 .. (i - 1)] \o seqs[i]
    BY <1>6
  <2>2. CASE i = 1
    <3>1. <<>> \o seqs[i] = seqs[i]
      BY <1>4
    <3>2. i - 1 = 0
      BY <2>2
    <3> QED
      BY <1>7, <2>1, <2>2, <3>1, <3>2
  <2>3. CASE i # 1
    <3>1. i - 1 \in 1 .. n
      BY <1>1, <2>3
    <3> QED
      BY <2>1, <2>3, <3>1
  <2> QED
    BY <2>2, <2>3
<1>9. Is(f)
  <2>1. f = [i \in 1 .. n |-> f[i]]
    OBVIOUS
  <2> HIDE DEF f
  <2> QED
    BY <1>8, <2>1, Zenon
<1> DEFINE h == CHOOSE h : Is(h)
<1>10. Is(h)
  BY <1>9, Zenon
<1> HIDE DEF h, f
<1>11. \A i \in 1 .. n : h[i] = IF i = 1 THEN seqs[i] ELSE h[i - 1] \o seqs[i]
  BY <1>10, Zenon
<1> DEFINE k == [i \in 0 .. n |-> IF i = 0 THEN <<>> ELSE h[i]]
<1>12. \A i \in 1 .. n : k[i] = k[i - 1] \o seqs[i]
  <2> SUFFICES ASSUME NEW i \in 1 .. n PROVE k[i] = k[i - 1] \o seqs[i]
    OBVIOUS
  <2>1. k[i] = h[i] /\ i - 1 \in 0 .. n
    BY <1>1
  <2>2. CASE i = 1
    BY <1>4, <1>11, <2>1, <2>2
  <2>3. CASE i # 1
    <3>1. i - 1 \in 0 .. n /\ i - 1 # 0
      BY <1>1, <2>3
    <3>2. k[i - 1] = h[i - 1]
      BY <3>1
    <3>3. h[i] = h[i - 1] \o seqs[i]
      BY <1>11, <2>3
    <3> HIDE DEF k
    <3> QED
      BY <2>1, <3>2, <3>3
  <2> QED
    BY <2>2, <2>3
<1>13. k[0] = <<>> /\ JoinedUp(seqs) = k[n]
  <2>1. n \in 0 .. n /\ 0 \in 0 .. n
    BY <1>1
  <2>2. k[0] = <<>> /\ k[n] = h[n]
    BY <1>2, <2>1
  <2>3. JoinedUp(seqs) = h[n]
    BY <1>3, Zenon DEF h
  <2> QED
    BY <2>2, <2>3
<1> HIDE DEF k
<1> DEFINE Bad == {i \in 0 .. n : k[i] \notin Seq(S)}
<1>14. Bad = {}
  <2> SUFFICES ASSUME Bad # {} PROVE FALSE
    OBVIOUS
  <2>1. PICK i \in Bad : \A m \in Bad : i <= m
    <3>1. Bad \in SUBSET Nat
      BY <1>1
    <3> HIDE DEF Bad
    <3> QED
      BY <3>1, LeastNumber
  <2>2. i # 0
    <3>1. <<>> \in Seq(S)
      OBVIOUS
    <3>2. k[0] \in Seq(S) /\ k[i] \notin Seq(S)
      BY <1>13, <3>1, Zenon
    <3> QED
      BY <3>2
  <2>3. i \in 1 .. n /\ i - 1 \in 0 .. n /\ ~ (i <= i - 1)
    BY <1>1, <2>2
  <2>4. k[i - 1] \in Seq(S) /\ seqs[i] \in Seq(S)
    BY <1>4, <2>1, <2>3
  <2>5. k[i] = k[i - 1] \o seqs[i]
    BY <1>12, <2>3
  <2>6. k[i] \in Seq(S)
    BY <2>4, <2>5
  <2> QED
    BY <2>6
<1>15. \A i \in 1 .. n : i - 1 \in 0 .. n
  BY <1>1
<1>16. Puts(k, seqs, S) /\ JoinedUp(seqs) = k[Len(seqs)]
  BY <1>12, <1>13, <1>14, <1>15 DEF Puts, n
<1> QED
  BY <1>16

\* Numbers can be put in order.
Increasing(s) == \A i, k \in DOMAIN s : i < k => s[i] < s[k]

LEMMA OneMoreInOrder ==
  ASSUME NEW T, IsFiniteSet(T), Numbers(T), T # {}, NEW c, Cardinality(T \ {Max(T)}) = c,
         NEW s \in [1 .. c -> T \ {Max(T)}], Increasing(s)
  PROVE  \E r \in [1 .. Cardinality(T) -> T] : Increasing(r)
<1>1. Max(T) \in T /\ Greatest(Max(T), T)
  BY MaxIn
<1>2. PICK m : m = Max(T)
  OBVIOUS
<1>3. Cardinality(T) = c + 1 /\ c \in Nat
  <2>1. Cardinality(T \ {m}) = Cardinality(T) - 1 /\ IsFiniteSet(T \ {m})
    BY <1>1, <1>2, FS_RemoveElement
  <2>2. Cardinality(T) \in Nat /\ Cardinality(T \ {m}) \in Nat
    BY <2>1, FS_CardinalityType
  <2> QED
    BY <1>2, <2>1, <2>2
<1> DEFINE r == [i \in 1 .. c + 1 |-> IF i = c + 1 THEN m ELSE s[i]]
<1>4. \A i \in 1 .. c : s[i] \in T /\ s[i] \in Nat /\ s[i] < m
  <2> SUFFICES ASSUME NEW i \in 1 .. c PROVE s[i] \in T /\ s[i] \in Nat /\ s[i] < m
    OBVIOUS
  <2>1. s[i] \in T /\ s[i] # m
    BY <1>2
  <2>2. s[i] \in Nat /\ m \in Nat /\ m >= s[i]
    BY <1>1, <1>2, <2>1 DEF Numbers, Greatest
  <2> QED
    BY <2>1, <2>2
<1>5. r \in [1 .. c + 1 -> T]
  BY <1>1, <1>2, <1>3, <1>4
<1>6. Increasing(r)
  <2> SUFFICES ASSUME NEW i \in 1 .. c + 1, NEW k \in 1 .. c + 1, i < k PROVE r[i] < r[k]
    BY DEF Increasing
  <2>1. i \in 1 .. c /\ r[i] = s[i]
    BY <1>3
  <2>2. CASE k = c + 1
    BY <1>4, <2>1, <2>2
  <2>3. CASE k # c + 1
    <3>1. k \in 1 .. c /\ r[k] = s[k]
      BY <1>3, <2>3
    <3> QED
      BY <2>1, <3>1 DEF Increasing
  <2> QED
    BY <2>2, <2>3
<1> QED
  BY <1>3, <1>5, <1>6

\* ... whichever they are.
LEMMA CanBeOrdered ==
  ASSUME NEW S, IsFiniteSet(S), Numbers(S)
  PROVE  \E s \in [1 .. Cardinality(S) -> S] : Increasing(s)
<1> DEFINE Sorts(s, T) == s \in [1 .. Cardinality(T) -> T] /\ Increasing(s)
           B == {T \in SUBSET S : ~ \E s : Sorts(s, T)}
<1>1. B = {}
  <2> SUFFICES ASSUME B # {} PROVE FALSE
    OBVIOUS
  <2>1. PICK T \in B : \A U \in B : U \subseteq T => U = T
    <3>1. B \subseteq SUBSET S
      OBVIOUS
    <3> HIDE DEF B
    <3> QED
      BY <3>1, Least
  <2>2. Numbers(T) /\ IsFiniteSet(T) /\ T \in SUBSET S
    BY FS_Subset DEF Numbers
  <2>3. CASE T = {}
    <3>1. Cardinality(T) = 0
      BY <2>3, FS_EmptySet
    <3>2. [i \in 1 .. 0 |-> 0] \in [1 .. 0 -> {}] /\ Increasing([i \in 1 .. 0 |-> 0])
      BY DEF Increasing
    <3>3. Sorts([i \in 1 .. 0 |-> 0], T)
      BY <2>3, <3>1, <3>2
    <3> QED
      BY <3>3
  <2>4. CASE T # {}
    <3>1. Max(T) \in T
      BY <2>2, <2>4, MaxIn
    <3> DEFINE V == T \ {Max(T)}
    <3>2. V \in SUBSET S /\ V # T /\ V \subseteq T
      BY <2>2, <3>1
    <3>3. V \notin B
      BY <2>1, <3>2
    <3>4. PICK s : s \in [1 .. Cardinality(V) -> V] /\ Increasing(s)
      BY <3>2, <3>3
    <3>5. \E r \in [1 .. Cardinality(T) -> T] : Increasing(r)
      BY <2>2, <2>4, <3>4, OneMoreInOrder
    <3> QED
      BY <3>5
  <2> QED
    BY <2>3, <2>4
<1> QED
  BY <1>1

\* Every number is there, once.
LEMMA OrderedOnce ==
  ASSUME NEW S, IsFiniteSet(S), Numbers(S), NEW s \in [1 .. Cardinality(S) -> S], Increasing(s)
  PROVE  /\ \A i, k \in DOMAIN s : s[i] = s[k] => i = k
         /\ \A x \in S : \E i \in DOMAIN s : s[i] = x
<1>1. PICK n \in Nat : n = Cardinality(S)
  BY FS_CardinalityType
<1>2. \A i \in 1 .. n, k \in 1 .. n : s[i] = s[k] => i = k
  <2> SUFFICES ASSUME NEW i \in 1 .. n, NEW k \in 1 .. n, s[i] = s[k] PROVE i = k
    OBVIOUS
  <2>1. s[i] \in Nat
    BY <1>1 DEF Numbers
  <2>2. (i < k => s[i] < s[k]) /\ (k < i => s[k] < s[i])
    BY <1>1 DEF Increasing
  <2> QED
    BY <2>1, <2>2
<1>3. s \in Injection(1 .. n, S)
  BY <1>1, <1>2 DEF Injection, IsInjective
<1>4. IsFiniteSet(1 .. n) /\ Cardinality(1 .. n) = n
  BY FS_Interval
<1>5. s \in Surjection(1 .. n, S)
  BY <1>1, <1>3, <1>4, FS_Injection
<1> QED
  BY <1>1, <1>2, <1>5 DEF Surjection
=============================================================================
