------------------------------ MODULE AskProofs ------------------------------
(***************************************************************************)
(* The server's slots, whatever its commands do; and what the compiler     *)
(* promises of an answer's blocks: its joins multiply no rows, no block    *)
(* silently drops a filter, a measure is worth the same beside others, and *)
(* memory answers as the warehouse it remembers does.  The compiler's      *)
(* folds and searches are reasoned about by the least number of which      *)
(* something does not hold.                                                *)
(***************************************************************************)
EXTENDS Ask, SumProofs, FiniteSetTheorems, WellFoundedInduction, TLAPS

-----------------------------------------------------------------------------
(* The slots *)

\* What SlotsHeld rests on: a thread holds a slot at some of its places, and a
\* process is alive only at one of those that have started it.
SlotsInv ==
  /\ place \in [Visitors -> Places]
  /\ proc \in [Visitors -> {"none", "alive", "ended"}]
  /\ free \in Nat
  /\ free = Slots - Cardinality(Holding)
  /\ \A v \in Running : place[v] \in {"reading", "closing"}

LEMMA HoldingFinite == IsFiniteSet(Holding) /\ Cardinality(Holding) \in Nat
  BY MethodsAssumption, FS_Subset, FS_CardinalityType DEF Holding

LEMMA SlotsInit == MethodsInit => SlotsInv
<1> SUFFICES ASSUME MethodsInit PROVE SlotsInv
  OBVIOUS
<1>1. Holding = {} /\ Running = {}
  BY DEF MethodsInit, Holding, Running
<1>2. Cardinality(Holding) = 0
  BY <1>1, FS_EmptySet
<1> QED
  BY <1>1, <1>2, MethodsAssumption DEF MethodsInit, SlotsInv, Places

\* A thread that goes on with the slot it has, or without one.
LEMMA HoldsAsBefore ==
  ASSUME SlotsInv, NEW v \in Visitors, NEW p \in Places, GoTo(v, p), free' = free,
         proc' \in [Visitors -> {"none", "alive", "ended"}],
         \A u \in Visitors \ {v} : proc'[u] = proc[u],
         proc'[v] = "alive" => p \in {"reading", "closing"},
         (p \in {"starting", "reading", "closing"}) = (v \in Holding)
  PROVE  SlotsInv'
<1>1. place' \in [Visitors -> Places]
  BY DEF SlotsInv, GoTo
<1>2. Holding' = Holding
  BY DEF SlotsInv, GoTo, Holding
<1>3. \A u \in Running' : place'[u] \in {"reading", "closing"}
  BY DEF SlotsInv, GoTo, Running
<1> QED
  BY <1>1, <1>2, <1>3 DEF SlotsInv

LEMMA TakesOne ==
  ASSUME SlotsInv, NEW v \in Visitors, place[v] \in {"asked", "queued"}, free > 0,
         GoTo(v, "starting"), free' = free - 1, UNCHANGED proc
  PROVE  SlotsInv'
<1>1. place' \in [Visitors -> Places]
  BY DEF SlotsInv, GoTo, Places
<1>2. Holding' = Holding \cup {v} /\ v \notin Holding
  BY DEF SlotsInv, GoTo, Holding
<1>3. Cardinality(Holding') = Cardinality(Holding) + 1
  BY <1>2, HoldingFinite, FS_AddElement
<1>4. \A u \in Running' : place'[u] \in {"reading", "closing"}
  BY DEF SlotsInv, GoTo, Running
<1> QED
  BY <1>1, <1>3, <1>4, HoldingFinite, MethodsAssumption DEF SlotsInv

LEMMA GivesBack ==
  ASSUME SlotsInv, NEW v \in Visitors, place[v] \in {"starting", "closing"},
         GoTo(v, "over"), free' = free + 1,
         proc' \in [Visitors -> {"none", "alive", "ended"}],
         \A u \in Visitors \ {v} : proc'[u] = proc[u],
         proc'[v] # "alive"
  PROVE  SlotsInv'
<1>1. place' \in [Visitors -> Places]
  BY DEF SlotsInv, GoTo, Places
<1>2. Holding' = Holding \ {v} /\ v \in Holding
  BY DEF SlotsInv, GoTo, Holding
<1>3. Cardinality(Holding') = Cardinality(Holding) - 1
  BY <1>2, HoldingFinite, FS_RemoveElement
<1>4. \A u \in Running' : place'[u] \in {"reading", "closing"}
  BY DEF SlotsInv, GoTo, Running
<1> QED
  BY <1>1, <1>3, <1>4, HoldingFinite, MethodsAssumption DEF SlotsInv

LEMMA SlotsStep == SlotsInv /\ [MethodsNext]_methodVars => SlotsInv'
<1> SUFFICES ASSUME SlotsInv, [MethodsNext]_methodVars PROVE SlotsInv'
  OBVIOUS
<1>1. CASE UNCHANGED methodVars
  BY <1>1 DEF methodVars, SlotsInv, Holding, Running
<1>2. ASSUME NEW v \in Visitors, Thread(v) \/ Outside(v) \/ Timer(v) \/ Exit(v)
      PROVE  SlotsInv'
  <2> USE DEF Places
  <2>1. CASE Arrive(v)
    <3>1. proc[v] # "alive" /\ v \notin Holding
      BY <2>1 DEF Arrive, SlotsInv, Holding, Running
    <3> QED
      BY <2>1, <3>1, HoldsAsBefore DEF Arrive, SlotsInv
  <2>2. CASE Leave(v) \/ Timer(v) \/ Exit(v)
    <3>1. place' = place /\ free' = free /\ Holding' = Holding
      BY <2>2 DEF Leave, Timer, Exit, Holding
    <3>2. proc' \in [Visitors -> {"none", "alive", "ended"}] /\ Running' \subseteq Running
      BY <2>2 DEF Leave, Timer, Exit, Running, SlotsInv
    <3> QED
      BY <3>1, <3>2 DEF SlotsInv
  <2>3. CASE Acquire(v) \/ Take(v)
    <3>1. place[v] \in {"asked", "queued"} /\ free > 0 /\ GoTo(v, "starting") /\ free' = free - 1 /\ proc' = proc
      BY <2>3 DEF Acquire, Take
    <3> QED
      BY <3>1, TakesOne
  <2>4. CASE Queue(v) \/ GiveUp(v) \/ EndOfOutput(v)
    <3>1. PICK p \in {"queued", "over", "closing"} :
            GoTo(v, p) /\ (p = "closing") = (place[v] = "reading") /\ place[v] \in {"asked", "queued", "reading"}
      BY <2>4 DEF Queue, GiveUp, EndOfOutput
    <3>2. proc' = proc /\ free' = free
      BY <2>4 DEF Queue, GiveUp, EndOfOutput
    <3>3. proc'[v] = "alive" => p = "closing"
      BY <3>1, <3>2 DEF SlotsInv, Running
    <3>4. (p \in {"starting", "reading", "closing"}) = (v \in Holding)
      BY <3>1 DEF Holding
    <3> QED
      BY <3>1, <3>2, <3>3, <3>4, HoldsAsBefore DEF SlotsInv
  <2>5. CASE Popen(v)
    <3>1. CASE proc' = [proc EXCEPT ![v] = "alive"] /\ GoTo(v, "reading") /\ free' = free
      <4>1. proc' \in [Visitors -> {"none", "alive", "ended"}] /\ \A u \in Visitors \ {v} : proc'[u] = proc[u]
        BY <3>1 DEF SlotsInv
      <4> QED
        BY <2>5, <3>1, <4>1, HoldsAsBefore DEF Popen, Holding
    <3>2. CASE proc' = proc /\ GoTo(v, "over") /\ free' = free + 1
      BY <2>5, <3>2, GivesBack DEF Popen, SlotsInv, Running
    <3> QED
      BY <2>5, <3>1, <3>2 DEF Popen
  <2>6. CASE Close(v)
    <3>1. proc' \in [Visitors -> {"none", "alive", "ended"}] /\ proc'[v] = "ended"
             /\ \A u \in Visitors \ {v} : proc'[u] = proc[u]
      BY <2>6 DEF Close, SlotsInv
    <3> QED
      BY <2>6, <3>1, GivesBack DEF Close
  <2> QED
    BY <1>2, <2>1, <2>2, <2>3, <2>4, <2>5, <2>6 DEF Thread, Outside
<1> QED
  BY <1>1, <1>2 DEF MethodsNext

LEMMA SlotsMean == SlotsInv => SlotsHeld
<1> SUFFICES ASSUME SlotsInv PROVE SlotsHeld
  OBVIOUS
<1>1. Running \subseteq Holding
  BY DEF SlotsInv, Running, Holding
<1>2. Cardinality(Running) \in Nat /\ Cardinality(Running) <= Cardinality(Holding)
  BY <1>1, HoldingFinite, FS_Subset, FS_CardinalityType
<1> QED
  BY <1>1, <1>2, HoldingFinite, MethodsAssumption DEF SlotsInv, SlotsHeld

\* The server's threads and timers keep the slots whatever a command does, as
\* long as a process does nothing to them but end: `_busy` counts right, and
\* never more processes run than METHODS_AT_ONCE.
THEOREM MethodsHoldSlots == MethodsSpec => []SlotsHeld
<1>1. MethodsSpec => []SlotsInv
  BY SlotsInit, SlotsStep, PTL DEF MethodsSpec
<1> QED
  BY <1>1, SlotsMean, PTL

-----------------------------------------------------------------------------
(* ... and what the processes do, with the disk they share, is that *)

LEMMA AskStep == [Next]_vars => [MethodsNext]_methodVars
<1> SUFFICES ASSUME [Next]_vars PROVE [MethodsNext]_methodVars
  OBVIOUS
<1>1. CASE UNCHANGED vars
  BY <1>1 DEF vars, methodVars
<1>2. CASE Load
  BY <1>2 DEF Load, methodVars
<1>3. ASSUME NEW v \in Visitors, Server(v) PROVE MethodsNext
  BY <1>3 DEF Server, MethodsNext, Outside
<1>4. ASSUME NEW v \in Visitors, Process(v) PROVE Exit(v) \/ UNCHANGED methodVars
  BY <1>4 DEF Process, Look, Call, Save, LoadUniques, CheckUniques, Record, Answer, Give, Finish, Ends
<1> QED
  BY <1>1, <1>2, <1>3, <1>4 DEF Next, MethodsNext

\* A command of `qlsc ask`, its caches and the warehouse implement what Methods
\* takes a command to be: something that, at any moment, may end.
THEOREM AskIsAMethod == Spec => MethodsSpec
<1>1. Init => MethodsInit
  BY DEF Init
<1> QED
  BY <1>1, AskStep, PTL DEF Spec, MethodsSpec

\* The slots are held right while commands ask, save, fail, and are killed.
THEOREM AskHoldsSlots == Spec => []SlotsHeld
  BY AskIsAMethod, MethodsHoldSlots, PTL

-----------------------------------------------------------------------------
(* The joins of a block, and the rows they make, one after another *)

JoinOnce(fact, js, s) == IF s.to \in {fact} \cup {js[i].to : i \in DOMAIN js} THEN js ELSE Append(js, s)
JoinedOnce(fact, steps) == FoldLeft(LAMBDA js, s : JoinOnce(fact, js, s), <<>>, steps)

LEMMA JoinsFold ==
  ASSUME NEW S, NEW steps \in Seq(S), NEW fact
  PROVE  \E g : /\ g[0] = <<>>
                /\ \A k \in 1 .. Len(steps) : g[k] = JoinOnce(fact, g[k - 1], steps[k])
                /\ JoinedOnce(fact, steps) = g[Len(steps)]
<1> DEFINE n == Len(steps)
           Is(h) == h = [T \in SUBSET (1 .. n) |->
                      IF T = {} THEN <<>> ELSE JoinOnce(fact, h[T \ {Max(T)}], steps[Max(T)])]
<1>1. n \in Nat /\ DOMAIN steps = 1 .. n
  OBVIOUS
<1>2. JoinedOnce(fact, steps) = (CHOOSE h : Is(h))[1 .. n]
  <2> HIDE DEF n
  <2>1. JoinedOnce(fact, steps) = (CHOOSE h : h = [T \in SUBSET (DOMAIN steps) |->
                      IF T = {} THEN <<>> ELSE JoinOnce(fact, h[T \ {Max(T)}], steps[Max(T)])])[DOMAIN steps]
    BY Zenon DEF JoinedOnce, FoldLeft, MapThenFoldSet
  <2> QED
    BY <1>1, <2>1, Zenon
<1>3. \E h : Is(h)
  <2> DEFINE F == [x \in Seq(S) \X (1 .. n) |-> JoinOnce(fact, x[1], steps[x[2]])]
  <2>1. F \in [Seq(S) \X (1 .. n) -> Seq(S)]
    BY <1>1 DEF JoinOnce
  <2>2. Numbers(1 .. n) /\ IsFiniteSet(1 .. n)
    BY <1>1, Interval
  <2>3. PICK g : FoldIs(g, F, <<>>, 1 .. n, Seq(S))
    <3>1. <<>> \in Seq(S)
      OBVIOUS
    <3> DEFINE A == Seq(S)
               N == 1 .. n
    <3>2. F \in [A \X N -> A] /\ Numbers(N) /\ IsFiniteSet(N) /\ <<>> \in A
      BY <2>1, <2>2, <3>1
    <3> HIDE DEF F, A, N
    <3>3. \E g : FoldIs(g, F, <<>>, N, A)
      BY <3>2, FoldIn
    <3> QED
      BY <3>3 DEF A, N
  <2>4. ASSUME NEW T \in SUBSET (1 .. n), T # {} PROVE g[T] = JoinOnce(fact, g[T \ {Max(T)}], steps[Max(T)])
    BY <2>3, <2>4 DEF FoldIs
  <2>5. g[{}] = <<>>
    BY <2>3 DEF FoldIs
  <2>6. Is(g)
    <3>1. \A T \in SUBSET (1 .. n) : g[T] = IF T = {} THEN <<>> ELSE JoinOnce(fact, g[T \ {Max(T)}], steps[Max(T)])
      BY <2>4, <2>5
    <3>2. g = [T \in SUBSET (1 .. n) |-> g[T]]
      BY <2>3 DEF FoldIs
    <3> QED
      BY <3>1, <3>2, Zenon
  <2> QED
    BY <2>6
<1> DEFINE h == CHOOSE h : Is(h)
<1>4. Is(h)
  BY <1>3, Zenon
<1> HIDE DEF h
<1> DEFINE g == [k \in 0 .. n |-> h[1 .. k]]
<1>5. g[0] = <<>>
  BY <1>1, <1>4
<1>6. ASSUME NEW k \in 1 .. n PROVE g[k] = JoinOnce(fact, g[k - 1], steps[k])
  <2>1. Max(1 .. k) = k /\ 1 .. k # {} /\ (1 .. k) \ {k} = 1 .. (k - 1) /\ 1 .. k \in SUBSET (1 .. n)
    BY <1>1, Prefix
  <2>2. h[1 .. k] = JoinOnce(fact, h[(1 .. k) \ {Max(1 .. k)}], steps[Max(1 .. k)])
    BY <1>4, <2>1, Zenon
  <2>3. g[k] = h[1 .. k] /\ g[k - 1] = h[1 .. (k - 1)]
    BY <1>1
  <2> QED
    BY <2>1, <2>2, <2>3, Zenon
<1>7. JoinedOnce(fact, steps) = g[n]
  <2>1. g[n] = h[1 .. n]
    BY <1>1
  <2> QED
    BY <1>2, <2>1, Zenon DEF h
<1> HIDE DEF g
<1> QED
  BY <1>5, <1>6, <1>7

Rows == SUBSET [Tables -> Nat]
\* A step of a join, inner or outer as the log writes it.
JoinStep(bank, rows, s) == Extended(bank, rows, s, Outer(s))

LEMMA ExtendedRows ==
  ASSUME NEW bank \in Warehouses, NEW rows \in Rows, NEW s \in Steps
  PROVE  JoinStep(bank, rows, s) \in Rows
<1> SUFFICES ASSUME NEW f \in JoinStep(bank, rows, s) PROVE f \in [Tables -> Nat]
  BY DEF Rows
<1> DEFINE found(e) == Matches(bank, s, Value(bank, e, <<s.from, s.mine>>))
           Made(e) == IF found(e) = {} /\ Outer(s) THEN {e} ELSE {[e EXCEPT ![s.to] = i] : i \in found(e)}
<1>1. JoinStep(bank, rows, s) = UNION {Made(e) : e \in rows}
  BY DEF JoinStep, Extended
<1>2. PICK e \in rows : f \in Made(e)
  BY <1>1
<1>3. s.to \in Tables
  BY CatalogueAssumption DEF Steps
<1>4. DOMAIN bank[s.to] \subseteq Nat
  BY <1>3 DEF Warehouses
<1>5. found(e) \subseteq Nat
  BY <1>4 DEF Matches
<1>6. e \in [Tables -> Nat]
  BY DEF Rows
<1>7. CASE f = e
  BY <1>6, <1>7
<1>8. CASE f # e
  <2>1. PICK i \in found(e) : f = [e EXCEPT ![s.to] = i]
    BY <1>2, <1>8
  <2> HIDE DEF found
  <2> QED
    BY <1>5, <1>6, <2>1
<1> QED
  BY <1>7, <1>8

LEMMA FactRowsIn ==
  ASSUME NEW bank \in Warehouses, NEW b, b.fact \in Tables
  PROVE  FactRows(bank, b) \in Rows
<1>1. DOMAIN bank[b.fact] \subseteq Nat
  BY DEF Warehouses
<1> QED
  BY <1>1 DEF FactRows, Rows

LEMMA RowsFold ==
  ASSUME NEW bank \in Warehouses, NEW b, b.fact \in Tables, b.joins \in Seq(Steps)
  PROVE  \E g : /\ g[0] = FactRows(bank, b)
                /\ \A k \in 1 .. Len(b.joins) : g[k] = JoinStep(bank, g[k - 1], b.joins[k])
                /\ JoinedRows(bank, b) = g[Len(b.joins)]
<1> DEFINE n == Len(b.joins)
           Is(h) == h = [T \in SUBSET (1 .. n) |->
                      IF T = {} THEN FactRows(bank, b) ELSE JoinStep(bank, h[T \ {Max(T)}], b.joins[Max(T)])]
<1>1. n \in Nat /\ DOMAIN b.joins = 1 .. n
  OBVIOUS
<1>2. JoinedRows(bank, b) = (CHOOSE h : Is(h))[1 .. n]
  <2> HIDE DEF n
  <2>1. JoinedRows(bank, b) = (CHOOSE h : h = [T \in SUBSET (DOMAIN b.joins) |->
                      IF T = {} THEN FactRows(bank, b)
                       ELSE JoinStep(bank, h[T \ {Max(T)}], b.joins[Max(T)])])[DOMAIN b.joins]
    BY Zenon DEF JoinedRows, JoinStep, FoldLeft, MapThenFoldSet
  <2> QED
    BY <1>1, <2>1, Zenon
<1>3. \E h : Is(h)
  <2> DEFINE F == [x \in Rows \X (1 .. n) |-> JoinStep(bank, x[1], b.joins[x[2]])]
  <2>1. F \in [Rows \X (1 .. n) -> Rows]
    <3>1. \A x \in Rows \X (1 .. n) : b.joins[x[2]] \in Steps
      BY <1>1
    <3>2. \A x \in Rows \X (1 .. n) : JoinStep(bank, x[1], b.joins[x[2]]) \in Rows
      BY <3>1, ExtendedRows
    <3> QED
      BY <3>2
  <2>2. Numbers(1 .. n) /\ IsFiniteSet(1 .. n)
    BY <1>1, Interval
  <2>3. PICK g : FoldIs(g, F, FactRows(bank, b), 1 .. n, Rows)
    <3>1. FactRows(bank, b) \in Rows
      BY FactRowsIn
    <3> DEFINE B == Rows
               N == 1 .. n
    <3>2. F \in [B \X N -> B] /\ Numbers(N) /\ IsFiniteSet(N) /\ FactRows(bank, b) \in B
      BY <2>1, <2>2, <3>1
    <3> HIDE DEF F, B, N
    <3>3. \E g : FoldIs(g, F, FactRows(bank, b), N, B)
      BY <3>2, FoldIn
    <3> QED
      BY <3>3 DEF B, N
  <2>4. ASSUME NEW T \in SUBSET (1 .. n), T # {} PROVE g[T] = JoinStep(bank, g[T \ {Max(T)}], b.joins[Max(T)])
    BY <2>3, <2>4 DEF FoldIs
  <2>5. g[{}] = FactRows(bank, b)
    BY <2>3 DEF FoldIs
  <2>6. Is(g)
    <3>1. \A T \in SUBSET (1 .. n) :
            g[T] = IF T = {} THEN FactRows(bank, b) ELSE JoinStep(bank, g[T \ {Max(T)}], b.joins[Max(T)])
      BY <2>4, <2>5
    <3>2. g = [T \in SUBSET (1 .. n) |-> g[T]]
      BY <2>3 DEF FoldIs
    <3> QED
      BY <3>1, <3>2, Zenon
  <2> QED
    BY <2>6
<1> DEFINE h == CHOOSE h : Is(h)
<1>4. Is(h)
  BY <1>3, Zenon
<1> HIDE DEF h
<1> DEFINE g == [k \in 0 .. n |-> h[1 .. k]]
<1>5. g[0] = FactRows(bank, b)
  <2>1. 1 .. 0 = {} /\ 0 \in 0 .. n
    BY <1>1
  <2>2. h[{}] = FactRows(bank, b)
    BY <1>4, Zenon
  <2> QED
    BY <2>1, <2>2
<1>6. ASSUME NEW k \in 1 .. n PROVE g[k] = JoinStep(bank, g[k - 1], b.joins[k])
  <2>1. Max(1 .. k) = k /\ 1 .. k # {} /\ (1 .. k) \ {k} = 1 .. (k - 1) /\ 1 .. k \in SUBSET (1 .. n)
    BY <1>1, Prefix
  <2>2. h[1 .. k] = JoinStep(bank, h[(1 .. k) \ {Max(1 .. k)}], b.joins[Max(1 .. k)])
    BY <1>4, <2>1, Zenon
  <2>3. g[k] = h[1 .. k] /\ g[k - 1] = h[1 .. (k - 1)]
    BY <1>1
  <2> QED
    BY <2>1, <2>2, <2>3, Zenon
<1>7. JoinedRows(bank, b) = g[n]
  <2>1. g[n] = h[1 .. n]
    BY <1>1
  <2> QED
    BY <1>2, <2>1, Zenon DEF h
<1> HIDE DEF g
<1> QED
  BY <1>5, <1>6, <1>7

-----------------------------------------------------------------------------
(* A step of a route *)

LEMMA AtMostOneMatch ==
  ASSUME NEW bank, NEW s \in Steps, NEW x, IsUnique(bank, <<s.to, s.theirs>>)
  PROVE  \A i, k \in Matches(bank, s, x) : i = k
  BY DEF IsUnique, Matches

\* A join to a table unique on its join column, inner or outer, leaves each row
\* of any table t joined before it at most once among the rows if it was there
\* at most once, and an outer one leaves it there: what Routes' condition on
\* each step is for (compile.py:14-16), for every data, size and model.
THEOREM UniqueJoinMultipliesNothing ==
  ASSUME NEW bank, NEW s \in Steps, NEW outer \in BOOLEAN, NEW t \in Tables, t # s.to,
         NEW rows \in SUBSET [Tables -> Nat], Once(rows, t),
         \A e \in rows : e[t] # 0,
         IsUnique(bank, <<s.to, s.theirs>>)
  PROVE  LET joined == Extended(bank, rows, s, outer) IN
         /\ Once(joined, t)
         /\ outer => \A e \in rows : \E f \in joined : f[t] = e[t]
<1> DEFINE found(e) == Matches(bank, s, Value(bank, e, <<s.from, s.mine>>))
           Made(e) == IF found(e) = {} /\ outer THEN {e} ELSE {[e EXCEPT ![s.to] = i] : i \in found(e)}
           joined == UNION {Made(e) : e \in rows}
<1>1. joined = Extended(bank, rows, s, outer)
  BY DEF Extended
<1>2. ASSUME NEW e \in rows, NEW f \in Made(e) PROVE f[t] = e[t]
  BY <1>2
<1>3. ASSUME NEW e \in rows, NEW f \in Made(e), NEW g \in Made(e) PROVE f = g
  <2>1. \A i, k \in found(e) : i = k
    BY AtMostOneMatch
  <2> QED
    BY <1>3, <2>1
<1>4. Once(joined, t)
  <2> SUFFICES ASSUME NEW f \in joined, NEW g \in joined, f[t] = g[t], f[t] # 0 PROVE f = g
    BY DEF Once
  <2>1. PICK d \in rows : f \in Made(d)
    OBVIOUS
  <2>2. PICK e \in rows : g \in Made(e)
    OBVIOUS
  <2> HIDE DEF Made, joined
  <2>3. d[t] = e[t] /\ d[t] # 0
    BY <1>2, <2>1, <2>2
  <2>4. d = e
    BY <2>3 DEF Once
  <2> QED
    BY <1>3, <2>1, <2>2, <2>4
<1>5. ASSUME outer, NEW e \in rows PROVE \E f \in joined : f[t] = e[t]
  <2>1. Made(e) # {}
    BY <1>5
  <2>2. PICK f \in Made(e) : TRUE
    BY <2>1
  <2>3. f \in joined
    BY <2>2
  <2> HIDE DEF Made, joined
  <2> QED
    BY <1>2, <2>2, <2>3
<1> HIDE DEF joined
<1> QED
  BY <1>1, <1>4, <1>5

LEMMA ExtendedKeeps ==
  ASSUME NEW bank, NEW s, NEW t \in Tables, t # s.to, NEW rows \in Rows, NEW outer \in BOOLEAN,
         NEW f \in Extended(bank, rows, s, outer)
  PROVE  \E e \in rows : f[t] = e[t]
<1> DEFINE found(e) == Matches(bank, s, Value(bank, e, <<s.from, s.mine>>))
           Made(e) == IF found(e) = {} /\ outer THEN {e} ELSE {[e EXCEPT ![s.to] = i] : i \in found(e)}
<1>1. Extended(bank, rows, s, outer) = UNION {Made(e) : e \in rows}
  BY DEF Extended
<1>2. PICK e \in rows : f \in Made(e)
  BY <1>1
<1>3. e \in [Tables -> Nat]
  BY DEF Rows
<1>4. f[t] = e[t]
  BY <1>2, <1>3
<1> QED
  BY <1>4

\* What holds of the rows as they are joined: each of the fact's is in them
\* once, or at most once.
FactKept(bank, b, rows) ==
  /\ rows \in Rows /\ Once(rows, b.fact)
  /\ \A e \in rows : e[b.fact] \in DOMAIN bank[b.fact]
FactWhole(bank, b, rows) == \A i \in DOMAIN bank[b.fact] : \E e \in rows : e[b.fact] = i
SingleJoins(bank, b) ==
  \A s \in ToSet(b.joins) : s.to # b.fact /\ IsUnique(bank, <<s.to, s.theirs>>)

LEMMA FactRowsKept ==
  ASSUME NEW bank \in Warehouses, NEW b, b.fact \in Tables
  PROVE  FactKept(bank, b, FactRows(bank, b)) /\ FactWhole(bank, b, FactRows(bank, b))
<1>1. FactRows(bank, b) \in Rows
  BY FactRowsIn
<1>2. \A e \in FactRows(bank, b) : \E i \in DOMAIN bank[b.fact] : e = [t \in Tables |-> IF t = b.fact THEN i ELSE 0]
  BY DEF FactRows
<1>3. \A i \in DOMAIN bank[b.fact] : [t \in Tables |-> IF t = b.fact THEN i ELSE 0] \in FactRows(bank, b)
  BY DEF FactRows
<1>4. Once(FactRows(bank, b), b.fact)
  BY <1>2 DEF Once
<1>5. \A e \in FactRows(bank, b) : e[b.fact] \in DOMAIN bank[b.fact]
  BY <1>2
<1> QED
  BY <1>1, <1>3, <1>4, <1>5 DEF FactKept, FactWhole

LEMMA JoinKeepsFact ==
  ASSUME NEW bank \in Warehouses, NEW b, b.fact \in Tables, NEW s \in Steps, s.to # b.fact,
         IsUnique(bank, <<s.to, s.theirs>>), NEW rows, FactKept(bank, b, rows)
  PROVE  /\ FactKept(bank, b, JoinStep(bank, rows, s))
         /\ Outer(s) /\ FactWhole(bank, b, rows) => FactWhole(bank, b, JoinStep(bank, rows, s))
<1> DEFINE t == b.fact
           joined == Extended(bank, rows, s, Outer(s))
<1>1. t \in Tables /\ t # s.to /\ rows \in SUBSET [Tables -> Nat] /\ Once(rows, t) /\ Outer(s) \in BOOLEAN
  BY DEF FactKept, Rows, Outer
<1>2. \A e \in rows : e[t] \in DOMAIN bank[t]
  BY DEF FactKept
<1>3. \A e \in rows : e[t] # 0
  <2>1. \A i \in DOMAIN bank[t] : i # 0
    BY DEF Warehouses
  <2> QED
    BY <1>2, <2>1
<1>4. JoinStep(bank, rows, s) = joined
  BY DEF JoinStep
<1>5. JoinStep(bank, rows, s) \in Rows
  BY ExtendedRows DEF FactKept
<1> HIDE DEF t
<1>6. Once(joined, t) /\ (Outer(s) => \A e \in rows : \E f \in joined : f[t] = e[t])
  BY <1>1, <1>3, UniqueJoinMultipliesNothing
<1>7. \A f \in joined : \E e \in rows : f[t] = e[t]
  <2>1. rows \in Rows
    BY DEF FactKept
  <2> SUFFICES ASSUME NEW f \in joined PROVE \E e \in rows : f[t] = e[t]
    OBVIOUS
  <2> QED
    BY <1>1, <2>1, ExtendedKeeps
<1> HIDE DEF joined
<1>8. FactKept(bank, b, joined)
  BY <1>2, <1>4, <1>5, <1>6, <1>7 DEF FactKept, t
<1>9. Outer(s) /\ FactWhole(bank, b, rows) => FactWhole(bank, b, joined)
  BY <1>6 DEF FactWhole, t
<1> QED
  BY <1>4, <1>8, <1>9

LEMMA CountedOnce ==
  ASSUME NEW bank \in Warehouses, NEW b, b.fact \in Tables, NEW rows,
         FactKept(bank, b, rows), FactWhole(bank, b, rows)
  PROVE  Cardinality(rows) = Len(bank[b.fact])
<1> DEFINE n == Len(bank[b.fact])
           g == [i \in 1 .. n |-> CHOOSE e \in rows : e[b.fact] = i]
<1>1. n \in Nat /\ DOMAIN bank[b.fact] = 1 .. n
  BY DEF Warehouses
<1> HIDE DEF n
<1>2. \A i \in 1 .. n : g[i] \in rows /\ g[i][b.fact] = i
  BY <1>1 DEF FactWhole
<1>3. \A e \in rows : e[b.fact] \in 1 .. n /\ g[e[b.fact]] = e
  <2> SUFFICES ASSUME NEW e \in rows PROVE e[b.fact] \in 1 .. n /\ g[e[b.fact]] = e
    OBVIOUS
  <2>1. e[b.fact] \in 1 .. n
    BY <1>1 DEF FactKept
  <2>2. g[e[b.fact]] \in rows /\ g[e[b.fact]][b.fact] = e[b.fact] /\ e[b.fact] # 0
    BY <1>1, <1>2, <2>1
  <2> HIDE DEF g
  <2> QED
    BY <2>1, <2>2 DEF FactKept, Once
<1> DEFINE N == 1 .. n
<1>4. g \in [N -> rows] /\ \A e \in rows : e[b.fact] \in N /\ g[e[b.fact]] = e
  BY <1>2, <1>3
<1>5. \A i \in N, k \in N : g[i] = g[k] => i = k
  <2> HIDE DEF g
  <2> QED
    BY <1>2
<1>6. IsFiniteSet(N) /\ Cardinality(N) = n
  BY <1>1, FS_Interval
<1> HIDE DEF N, g
<1>7. g \in Bijection(N, rows)
  BY <1>4, <1>5 DEF Bijection, Injection, Surjection, IsInjective
<1>8. ExistsBijection(N, rows)
  BY <1>7 DEF ExistsBijection
<1> QED
  BY <1>6, <1>8, FS_Bijection DEF n

LEMMA JoinsKeepFact ==
  ASSUME NEW bank \in Warehouses, NEW b, b.fact \in Tables, b.joins \in Seq(Steps), SingleJoins(bank, b)
  PROVE  /\ FactKept(bank, b, JoinedRows(bank, b))
         /\ (\A s \in ToSet(b.joins) : Outer(s)) => FactWhole(bank, b, JoinedRows(bank, b))
<1> DEFINE n == Len(b.joins)
           Outers == \A s \in ToSet(b.joins) : Outer(s)
           Good(rows) == FactKept(bank, b, rows) /\ (Outers => FactWhole(bank, b, rows))
<1>1. PICK g : /\ g[0] = FactRows(bank, b)
               /\ \A k \in 1 .. n : g[k] = JoinStep(bank, g[k - 1], b.joins[k])
               /\ JoinedRows(bank, b) = g[n]
  BY RowsFold
<1> DEFINE B == {k \in 0 .. n : ~ Good(g[k])}
<1>2. B = {}
  <2> SUFFICES ASSUME B # {} PROVE FALSE
    OBVIOUS
  <2>1. PICK k \in B : \A m \in B : k <= m
    <3>1. B \in SUBSET Nat
      OBVIOUS
    <3> HIDE DEF B
    <3> QED
      BY <3>1, LeastNumber
  <2>2. k # 0
    <3>1. Good(g[0])
      BY <1>1, FactRowsKept
    <3> HIDE DEF Good
    <3> QED
      BY <3>1
  <2>3. k \in 1 .. n /\ k - 1 \in 0 .. n /\ k - 1 \notin B
    BY <2>1, <2>2
  <2>4. Good(g[k - 1])
    BY <2>3
  <2>5. PICK s : s = b.joins[k]
    OBVIOUS
  <2>6. s \in ToSet(b.joins) /\ s \in Steps
    BY <2>3, <2>5 DEF ToSet
  <2>7. s.to # b.fact /\ IsUnique(bank, <<s.to, s.theirs>>)
    BY <2>6 DEF SingleJoins
  <2>8. PICK rows : rows = g[k - 1]
    OBVIOUS
  <2>9. Good(JoinStep(bank, rows, s))
    BY <2>4, <2>6, <2>7, <2>8, JoinKeepsFact
  <2>10. g[k] = JoinStep(bank, rows, s)
    BY <1>1, <2>3, <2>5, <2>8
  <2> HIDE DEF Good
  <2> QED
    BY <2>9, <2>10
<1>3. n \in 0 .. n
  OBVIOUS
<1>4. Good(g[n])
  <2> HIDE DEF Good
  <2> QED
    BY <1>2, <1>3
<1> QED
  BY <1>1, <1>4

\* No join multiplies the fact's rows (Ask.FactOnce), where each goes to
\* another table, unique on the column joined.
LEMMA FactIsOnce ==
  ASSUME NEW bank \in Warehouses, NEW b, b.fact \in Tables, b.joins \in Seq(Steps), SingleJoins(bank, b)
  PROVE  /\ Once(JoinedRows(bank, b), b.fact)
         /\ (\A s \in ToSet(b.joins) : Outer(s)) => Cardinality(JoinedRows(bank, b)) = Len(bank[b.fact])
<1>1. /\ FactKept(bank, b, JoinedRows(bank, b))
      /\ (\A s \in ToSet(b.joins) : Outer(s)) => FactWhole(bank, b, JoinedRows(bank, b))
  BY JoinsKeepFact
<1>2. Once(JoinedRows(bank, b), b.fact)
  BY <1>1 DEF FactKept
<1> QED
  BY <1>1, <1>2, CountedOnce

-----------------------------------------------------------------------------
(* The edges out of a table are in an order *)

LEMMA StepIs ==
  ASSUME NEW s \in Steps
  PROVE  /\ s = [from |-> s.from, mine |-> s.mine, to |-> s.to, theirs |-> s.theirs]
         /\ s.from \in Tables /\ s.to \in Tables /\ s.mine \in Columns /\ s.theirs \in Columns
         /\ s.from \in Nat /\ s.to \in Nat /\ s.mine \in Nat /\ s.theirs \in Nat
<1>1. \A j \in Joins : j.a \in Tables /\ j.b \in Tables /\ j.ac \in Columns /\ j.bc \in Columns
  BY CatalogueAssumption
<1>2. Tables \subseteq Nat /\ Columns \subseteq Nat
  BY CatalogueAssumption
<1> QED
  BY <1>1, <1>2 DEF Steps

\* Of the edges out of one table one is taken first.
LEMMA FirstStep ==
  ASSUME NEW T \in SUBSET Steps, T # {}, NEW table, \A s \in T : s.from = table
  PROVE  \E s \in T : \A t \in T : s = t \/ StepBefore(s, t)
<1>1. \A s \in T : s.to \in Nat /\ s.mine \in Nat /\ s.theirs \in Nat
  BY StepIs
<1>2. PICK s2 \in T : \A t \in T : s2.to <= t.to
  <2> DEFINE f == [s \in T |-> s.to]
  <2>1. \A s \in T : f[s] = s.to /\ f[s] \in Nat
    BY <1>1
  <2> HIDE DEF f
  <2>2. \E s \in T : \A t \in T : f[s] <= f[t]
    BY <2>1, LeastField
  <2> QED
    BY <2>1, <2>2
<1> DEFINE T2 == {t \in T : t.to = s2.to}
<1>3. PICK s3 \in T2 : \A t \in T2 : s3.mine <= t.mine
  <2> DEFINE f == [s \in T2 |-> s.mine]
  <2>1. T2 # {} /\ \A s \in T2 : f[s] = s.mine /\ f[s] \in Nat
    BY <1>1, <1>2
  <2> HIDE DEF f, T2
  <2>2. \E s \in T2 : \A t \in T2 : f[s] <= f[t]
    BY <2>1, LeastField
  <2> QED
    BY <2>1, <2>2
<1> DEFINE T3 == {t \in T2 : t.mine = s3.mine}
<1>4. PICK s \in T3 : \A t \in T3 : s.theirs <= t.theirs
  <2> DEFINE f == [s \in T3 |-> s.theirs]
  <2>1. T3 # {} /\ \A s \in T3 : f[s] = s.theirs /\ f[s] \in Nat
    BY <1>1, <1>3
  <2> HIDE DEF f, T3
  <2>2. \E s \in T3 : \A t \in T3 : f[s] <= f[t]
    BY <2>1, LeastField
  <2> QED
    BY <2>1, <2>2
<1>5. s \in T /\ s.to = s2.to /\ s.mine = s3.mine
  OBVIOUS
<1>6. ASSUME NEW t \in T PROVE s = t \/ StepBefore(s, t)
  <2>1. s.to \in Nat /\ t.to \in Nat /\ s.mine \in Nat /\ t.mine \in Nat /\ s.theirs \in Nat /\ t.theirs \in Nat
    BY <1>1, <1>5
  <2>2. s.to <= t.to
    BY <1>2, <1>5
  <2>3. CASE s.to # t.to
    BY <2>1, <2>2, <2>3 DEF StepBefore
  <2>4. CASE s.to = t.to
    <3>1. s.mine <= t.mine
      BY <1>3, <1>5, <2>4
    <3>2. CASE s.mine # t.mine
      BY <2>1, <2>4, <3>1, <3>2 DEF StepBefore
    <3>3. CASE s.mine = t.mine
      <4>1. s.theirs <= t.theirs
        BY <1>4, <1>5, <2>4, <3>3
      <4>2. CASE s.theirs # t.theirs
        BY <2>1, <2>4, <3>3, <4>1, <4>2 DEF StepBefore
      <4>3. CASE s.theirs = t.theirs
        <5>1. s.from = t.from
          BY <1>5
        <5>2. s \in Steps /\ t \in Steps
          BY <1>5
        <5>3. s = [from |-> s.from, mine |-> s.mine, to |-> s.to, theirs |-> s.theirs]
          BY <5>2, StepIs
        <5>4. t = [from |-> t.from, mine |-> t.mine, to |-> t.to, theirs |-> t.theirs]
          BY <5>2, StepIs
        <5> QED
          BY <2>4, <3>3, <4>3, <5>1, <5>3, <5>4
      <4> QED
        BY <4>2, <4>3
    <3> QED
      BY <3>2, <3>3
  <2> QED
    BY <2>3, <2>4
<1> QED
  BY <1>5, <1>6

-----------------------------------------------------------------------------
(* The search for a route finds the one it should, if there is any *)

Agree(p, q, k) == \A i \in 1 .. k : p[i] = q[i]
Earlier(p, q, k) == \E i \in 1 .. k : StepBefore(p[i], q[i]) /\ Agree(p, q, i - 1)
Ahead(A, p, k) == p \in A /\ \A q \in A : Agree(p, q, k) \/ Earlier(p, q, k)

LEMMA OneStepAhead ==
  ASSUME NEW A, NEW l \in Nat, NEW k \in 1 .. l, NEW start,
         \A p \in A : p \in [1 .. l -> Steps],
         \A p \in A : p[1].from = start /\ \A i \in 1 .. l - 1 : p[i].to = p[i + 1].from,
         NEW p, Ahead(A, p, k - 1)
  PROVE  \E r : Ahead(A, r, k)
<1> DEFINE R == {q \in A : Agree(p, q, k - 1)}
           T == {q[k] : q \in R}
           table == IF k = 1 THEN start ELSE p[k - 1].to
<1>0. k \in Nat /\ k - 1 \in Nat /\ 1 <= k /\ k <= l
  OBVIOUS
<1>1. p \in R
  BY DEF Ahead, Agree
<1>2. T \in SUBSET Steps /\ T # {}
  BY <1>1
<1>3. \A s \in T : s.from = table
  <2> SUFFICES ASSUME NEW q \in R PROVE q[k].from = table
    OBVIOUS
  <2>1. CASE k = 1
    BY <2>1
  <2>2. CASE k # 1
    <3>1. k - 1 \in 1 .. l - 1 /\ k - 1 \in 1 .. k - 1 /\ (k - 1) + 1 = k
      BY <1>0, <2>2
    <3>2. q[k - 1].to = q[(k - 1) + 1].from
      BY <3>1
    <3>3. p[k - 1] = q[k - 1]
      BY <3>1 DEF Agree
    <3> QED
      BY <2>2, <3>1, <3>2, <3>3
  <2> QED
    BY <2>1, <2>2
<1>4. PICK s \in T : \A t \in T : s = t \/ StepBefore(s, t)
  <2> HIDE DEF T, table
  <2> QED
    BY <1>2, <1>3, FirstStep
<1>5. PICK r \in R : r[k] = s
  OBVIOUS
<1>6. ASSUME NEW q \in A PROVE Agree(r, q, k) \/ Earlier(r, q, k)
  <2>1. \A i \in 1 .. k - 1 : p[i] = r[i]
    BY <1>5 DEF Agree
  <2>2. CASE Agree(p, q, k - 1)
    <3>1. q[k] \in T
      BY <2>2
    <3>2. s = q[k] \/ StepBefore(s, q[k])
      BY <1>4, <3>1
    <3>3. Agree(r, q, k - 1)
      BY <2>1, <2>2 DEF Agree
    <3>4. CASE s = q[k]
      <4>1. \A i \in 1 .. k : i \in 1 .. k - 1 \/ i = k
        BY <1>0
      <4>2. Agree(r, q, k)
        BY <1>5, <3>3, <3>4, <4>1 DEF Agree
      <4> QED
        BY <4>2
    <3>5. CASE StepBefore(s, q[k])
      <4>1. k \in 1 .. k
        BY <1>0
      <4>2. Earlier(r, q, k)
        BY <1>5, <3>3, <3>5, <4>1 DEF Earlier
      <4> QED
        BY <4>2
    <3> QED
      BY <3>2, <3>4, <3>5
  <2>3. CASE Earlier(p, q, k - 1)
    <3>1. PICK i \in 1 .. k - 1 : StepBefore(p[i], q[i]) /\ Agree(p, q, i - 1)
      BY <2>3 DEF Earlier
    <3>2. i \in 1 .. k /\ \A j \in 1 .. i - 1 : j \in 1 .. k - 1
      BY <1>0
    <3>3. Agree(r, q, i - 1)
      BY <2>1, <3>1, <3>2 DEF Agree
    <3>4. StepBefore(r[i], q[i])
      BY <2>1, <3>1
    <3>5. Earlier(r, q, k)
      BY <3>2, <3>3, <3>4 DEF Earlier
    <3> QED
      BY <3>5
  <2> QED
    BY <2>2, <2>3 DEF Ahead
<1>7. r \in A
  OBVIOUS
<1> HIDE DEF R
<1> QED
  BY <1>6, <1>7 DEF Ahead

LEMMA AllAhead ==
  ASSUME NEW A, A # {}, NEW l \in Nat, NEW start,
         \A p \in A : p \in [1 .. l -> Steps],
         \A p \in A : p[1].from = start /\ \A i \in 1 .. l - 1 : p[i].to = p[i + 1].from
  PROVE  \E p : Ahead(A, p, l)
<1> DEFINE B == {k \in 0 .. l : ~ \E p : Ahead(A, p, k)}
<1>0. l \in 0 .. l
  OBVIOUS
<1> SUFFICES ASSUME B # {} PROVE FALSE
  BY <1>0
<1>1. PICK k \in B : \A m \in B : k <= m
  <2>1. B \in SUBSET Nat
    OBVIOUS
  <2> HIDE DEF B
  <2> QED
    BY <2>1, LeastNumber
<1>2. k # 0
  <2>1. PICK p : p \in A
    BY Zenon
  <2>2. Ahead(A, p, 0)
    BY <2>1 DEF Ahead, Agree
  <2> QED
    BY <2>2
<1>3. k \in 1 .. l /\ k - 1 \in 0 .. l /\ ~ (k <= k - 1)
  BY <1>2
<1>4. k - 1 \notin B
  BY <1>1, <1>3
<1>5. PICK p : Ahead(A, p, k - 1)
  BY <1>3, <1>4
<1>6. \E r : Ahead(A, r, k)
  <2> HIDE DEF B
  <2>1. k \in 1 .. l
    BY <1>3
  <2> QED
    BY <1>5, <2>1, OneStepAhead
<1> QED
  BY <1>6

LEMMA RouteFirst ==
  ASSUME NEW start, NEW goal, NEW unique, Reaches(start, goal, unique)
  PROVE  /\ Route(start, goal, unique) \in Routes(start, goal, unique)
         /\ \A q \in Routes(start, goal, unique) :
              Route(start, goal, unique) = q \/ RouteBefore(Route(start, goal, unique), q)
<1> DEFINE all == Routes(start, goal, unique)
<1>1. Route(start, goal, unique) = CHOOSE p \in all : \A q \in all : p = q \/ RouteBefore(p, q)
  BY DEF Route, Reaches
<1>2. \E p \in all : \A q \in all : p = q \/ RouteBefore(p, q)
  <2>1. CASE start = goal
    BY <2>1 DEF Routes
  <2>2. CASE start # goal
    <3>1. \A p \in all : /\ Len(p) \in Nat /\ p \in [1 .. Len(p) -> Steps] /\ p[1].from = start
                         /\ \A i \in 1 .. Len(p) - 1 : p[i].to = p[i + 1].from
      <4> SUFFICES ASSUME NEW p \in all
                   PROVE  /\ Len(p) \in Nat /\ p \in [1 .. Len(p) -> Steps] /\ p[1].from = start
                          /\ \A i \in 1 .. Len(p) - 1 : p[i].to = p[i + 1].from
        OBVIOUS
      <4>1. p \in UNION {[1 .. n -> Steps] : n \in 1 .. Hops} /\ IsRoute(p, start, goal, unique)
        BY <2>2 DEF Routes
      <4>2. PICK n \in 1 .. Hops : p \in [1 .. n -> Steps]
        BY <4>1
      <4>3. n \in Nat
        BY CatalogueAssumption
      <4>4. Len(p) = n
        BY <4>2, <4>3
      <4> QED
        BY <4>1, <4>2, <4>3, <4>4 DEF IsRoute
    <3>2. PICK first \in all : \A q \in all : Len(first) <= Len(q)
      <4> DEFINE f == [p \in all |-> Len(p)]
      <4>1. all # {} /\ \A p \in all : f[p] = Len(p) /\ f[p] \in Nat
        BY <3>1 DEF Reaches
      <4> HIDE DEF f, all
      <4>2. \E s \in all : \A t \in all : f[s] <= f[t]
        BY <4>1, LeastField
      <4> QED
        BY <4>1, <4>2
    <3> DEFINE l == Len(first)
               A == {p \in all : Len(p) = l}
    <3>3. /\ A # {} /\ l \in Nat /\ \A p \in A : p \in [1 .. l -> Steps]
          /\ \A p \in A : p[1].from = start /\ \A i \in 1 .. l - 1 : p[i].to = p[i + 1].from
      <4> HIDE DEF all
      <4> QED
        BY <3>1, <3>2
    <3>4. PICK p : Ahead(A, p, l)
      <4> HIDE DEF A, l
      <4> QED
        BY <3>3, AllAhead
    <3>5. p \in all /\ Len(p) = l
      BY <3>4 DEF Ahead
    <3>6. ASSUME NEW q \in all PROVE p = q \/ RouteBefore(p, q)
      <4>1. Len(q) \in Nat /\ Len(p) <= Len(q)
        BY <3>1, <3>2, <3>5
      <4>2. CASE Len(q) # l
        <5>1. Len(p) < Len(q)
          BY <3>3, <3>5, <4>1, <4>2
        <5> QED
          BY <5>1 DEF RouteBefore
      <4>3. CASE Len(q) = l
        <5>1. q \in A
          BY <4>3
        <5>2. p \in [1 .. l -> Steps] /\ q \in [1 .. l -> Steps]
          BY <3>1, <3>5, <4>3
        <5>3. CASE Agree(p, q, l)
          <6>1. \A i \in 1 .. l : p[i] = q[i]
            BY <5>3 DEF Agree
          <6> HIDE DEF l
          <6>2. p = [i \in 1 .. l |-> p[i]] /\ q = [i \in 1 .. l |-> q[i]]
            BY <5>2
          <6>3. [i \in 1 .. l |-> p[i]] = [i \in 1 .. l |-> q[i]]
            BY <6>1
          <6> QED
            BY <6>2, <6>3
        <5>4. CASE Earlier(p, q, l)
          <6>1. \E i \in 1 .. Len(p) : StepBefore(p[i], q[i]) /\ \A k \in 1 .. i - 1 : p[k] = q[k]
            BY <3>5, <5>4 DEF Earlier, Agree
          <6> QED
            BY <3>5, <4>3, <6>1 DEF RouteBefore
        <5> QED
          BY <3>4, <5>1, <5>3, <5>4 DEF Ahead
      <4> QED
        BY <4>2, <4>3
    <3> HIDE DEF all
    <3> QED
      BY <3>5, <3>6
  <2> QED
    BY <2>1, <2>2
<1> DEFINE Best(p) == \A q \in all : p = q \/ RouteBefore(p, q)
<1> HIDE DEF all
<1>3. \E p \in all : Best(p)
  BY <1>2
<1>4. Route(start, goal, unique) = CHOOSE p \in all : Best(p)
  BY <1>1
<1> HIDE DEF Best
<1>5. (CHOOSE p \in all : Best(p)) \in all /\ Best(CHOOSE p \in all : Best(p))
  BY <1>3, Zenon
<1>6. Route(start, goal, unique) \in all /\ Best(Route(start, goal, unique))
  BY <1>4, <1>5, Zenon
<1> QED
  BY <1>6 DEF all, Best

LEMMA RouteFound ==
  ASSUME NEW start, NEW goal, NEW unique, Reaches(start, goal, unique)
  PROVE  Route(start, goal, unique) \in Routes(start, goal, unique)
  BY RouteFirst

-----------------------------------------------------------------------------
(* Sequences put together; sets put in order; a block's joins *)

\* What sequences are put together from, one after another.
Flattens(h, seqs, S) ==
  /\ h[0] = <<>>
  /\ \A i \in 1 .. Len(seqs) : h[i - 1] \in Seq(S) /\ h[i] = h[i - 1] \o seqs[i]
  /\ FlattenSeq(seqs) = h[Len(seqs)]

LEMMA FlattenFold ==
  ASSUME NEW S, NEW seqs \in Seq(Seq(S))
  PROVE  \E h : Flattens(h, seqs, S)
<1>1. CASE Len(seqs) = 0
  <2>1. seqs = <<>> /\ FlattenSeq(seqs) = <<>>
    <3>1. seqs = <<>>
      BY <1>1
    <3> QED
      BY <1>1, <3>1 DEF FlattenSeq
  <2>2. Flattens([i \in {0} |-> <<>>], seqs, S)
    BY <1>1, <2>1 DEF Flattens
  <2> QED
    BY <2>2
<1>2. CASE Len(seqs) # 0
  <2>1. FlattenSeq(seqs) = JoinedUp(seqs)
    BY <1>2, Zenon DEF FlattenSeq, JoinedUp, JoinsUp
  <2>2. PICK h : Puts(h, seqs, S) /\ JoinedUp(seqs) = h[Len(seqs)]
    BY <1>2, PutTogether
  <2>3. Flattens(h, seqs, S)
    BY <2>1, <2>2, Zenon DEF Flattens, Puts
  <2> QED
    BY <2>3
<1> QED
  BY <1>1, <1>2

LEMMA FlattenIn ==
  ASSUME NEW S, NEW seqs \in Seq(Seq(S))
  PROVE  FlattenSeq(seqs) \in Seq(S)
<1>1. PICK h : Flattens(h, seqs, S)
  BY FlattenFold
<1>2. CASE Len(seqs) = 0
  <2>1. h[0] = <<>> /\ FlattenSeq(seqs) = h[0]
    BY <1>1, <1>2, Zenon DEF Flattens
  <2> QED
    BY <2>1
<1>3. CASE Len(seqs) # 0
  <2>1. PICK n \in Nat : n = Len(seqs)
    OBVIOUS
  <2>2. n \in 1 .. n /\ \A i \in 1 .. n : seqs[i] \in Seq(S)
    BY <1>3, <2>1
  <2>3. h[n - 1] \in Seq(S) /\ h[n] = h[n - 1] \o seqs[n] /\ FlattenSeq(seqs) = h[n]
    BY <1>1, <2>1, <2>2 DEF Flattens
  <2>4. seqs[n] \in Seq(S)
    BY <2>2
  <2>5. \A p, q \in Seq(S) : p \o q \in Seq(S)
    OBVIOUS
  <2> QED
    BY <2>3, <2>4, <2>5, Zenon
<1> QED
  BY <1>2, <1>3

LEMMA InOrderIs ==
  ASSUME NEW S, IsFiniteSet(S), Numbers(S)
  PROVE  InOrder(S, <) \in [1 .. Cardinality(S) -> S] /\ Increasing(InOrder(S, <)) /\ Cardinality(S) \in Nat
<1>1. \E s \in [1 .. Cardinality(S) -> S] : Increasing(s)
  BY CanBeOrdered
<1>2. InOrder(S, <) = CHOOSE s \in [1 .. Cardinality(S) -> S] : Increasing(s)
  BY DEF InOrder, Increasing
<1>3. Cardinality(S) \in Nat
  BY FS_CardinalityType
<1> QED
  BY <1>1, <1>2, <1>3

LEMMA JoinsOfAre ==
  ASSUME NEW fact \in Tables, NEW used \in SUBSET Tables, NEW unique,
         \A t \in used : Reaches(fact, t, unique)
  PROVE  /\ JoinsOf(fact, used, unique) \in Seq(Steps)
         /\ \A s \in ToSet(JoinsOf(fact, used, unique)) : s.to # fact /\ <<s.to, s.theirs>> \in unique
<1> DEFINE S == {s \in Steps : <<s.to, s.theirs>> \in unique}
           others == InOrder(used \ {fact}, <)
           routes == [i \in DOMAIN others |-> Route(fact, others[i], unique)]
           steps == FlattenSeq(routes)
<1>1. others \in [1 .. Cardinality(used \ {fact}) -> used \ {fact}] /\ Cardinality(used \ {fact}) \in Nat
  <2>1. IsFiniteSet(used \ {fact}) /\ Numbers(used \ {fact})
    BY CatalogueAssumption, FS_Subset DEF Numbers
  <2> QED
    BY <2>1, InOrderIs
<1> HIDE DEF others
<1>2. ASSUME NEW i \in DOMAIN others PROVE Route(fact, others[i], unique) \in Seq(S)
  <2>1. PICK t : t = others[i]
    OBVIOUS
  <2>2. t \in used /\ t # fact
    BY <1>1, <2>1
  <2>3. Route(fact, t, unique) \in Routes(fact, t, unique)
    BY <2>2, RouteFound
  <2>4. PICK p : p = Route(fact, t, unique)
    OBVIOUS
  <2>5. /\ p \in UNION {[1 .. n -> Steps] : n \in 1 .. Hops}
        /\ \A k \in 1 .. Len(p) : <<p[k].to, p[k].theirs>> \in unique
    BY <2>2, <2>3, <2>4 DEF Routes, IsRoute
  <2>6. PICK n \in 1 .. Hops : p \in [1 .. n -> Steps]
    BY <2>5
  <2>7. n \in Nat
    <3>1. Hops \in Nat
      BY CatalogueAssumption
    <3> QED
      BY <3>1
  <2>8. Len(p) = n
    BY <2>6, <2>7, BySeq
  <2>9. p \in [1 .. n -> S]
    BY <2>5, <2>6, <2>8
  <2>10. p \in Seq(S)
    <3> HIDE DEF S
    <3> QED
      BY <2>7, <2>9, BySeq
  <2> QED
    BY <2>1, <2>4, <2>10
<1>3. routes \in Seq(Seq(S))
  <2>1. PICK c \in Nat : DOMAIN others = 1 .. c
    BY <1>1
  <2> HIDE DEF S
  <2>2. routes \in [1 .. c -> Seq(S)]
    BY <1>2, <2>1
  <2> HIDE DEF routes
  <2> DEFINE A == Seq(S)
  <2>3. routes \in [1 .. c -> A]
    BY <2>2
  <2> HIDE DEF A
  <2>4. routes \in Seq(A)
    BY <2>3, BySeq
  <2> QED
    BY <2>4 DEF A
<1>4. steps \in Seq(S)
  <2> HIDE DEF routes
  <2> QED
    BY <1>3, FlattenIn
<1>5. JoinsOf(fact, used, unique) = JoinedOnce(fact, steps)
  BY DEF others, JoinsOf, JoinedOnce, JoinOnce
<1> HIDE DEF steps, S
<1> DEFINE n == Len(steps)
           Fits(js) == js \in Seq(S) /\ \A i \in DOMAIN js : js[i].to # fact
<1>6. PICK g : /\ g[0] = <<>>
               /\ \A k \in 1 .. n : g[k] = JoinOnce(fact, g[k - 1], steps[k])
               /\ JoinedOnce(fact, steps) = g[n]
  BY <1>4, JoinsFold
<1>7. n \in Nat
  BY <1>4
<1> DEFINE B == {k \in 0 .. n : ~ Fits(g[k])}
<1>8. B = {}
  <2> SUFFICES ASSUME B # {} PROVE FALSE
    OBVIOUS
  <2>1. PICK k \in B : \A m \in B : k <= m
    <3>1. B \in SUBSET Nat
      BY <1>7
    <3> HIDE DEF B
    <3> QED
      BY <3>1, LeastNumber
  <2>2. k # 0
    <3>1. Fits(g[0])
      BY <1>6
    <3> HIDE DEF Fits
    <3> QED
      BY <3>1
  <2>3. k \in 1 .. n /\ k - 1 \in 0 .. n /\ k - 1 \notin B
    BY <1>7, <2>1, <2>2
  <2>4. PICK js : js = g[k - 1]
    OBVIOUS
  <2>5. PICK s \in S : s = steps[k]
    BY <1>4, <2>3
  <2>6. Fits(js)
    BY <2>3, <2>4
  <2>7. g[k] = JoinOnce(fact, js, s)
    BY <1>6, <2>3, <2>4, <2>5
  <2>8. Fits(JoinOnce(fact, js, s))
    <3>1. CASE s.to \in {fact} \cup {js[i].to : i \in DOMAIN js}
      BY <2>6, <3>1 DEF JoinOnce
    <3>2. CASE s.to \notin {fact} \cup {js[i].to : i \in DOMAIN js}
      <4>1. JoinOnce(fact, js, s) = Append(js, s) /\ s.to # fact
        BY <3>2 DEF JoinOnce
      <4>2. js \in Seq(S) /\ \A i \in DOMAIN js : js[i].to # fact
        BY <2>6
      <4>3. Append(js, s) \in Seq(S)
        BY <4>2
      <4>4. \A i \in DOMAIN Append(js, s) : Append(js, s)[i].to # fact
        BY <4>1, <4>2
      <4> QED
        BY <4>1, <4>3, <4>4
    <3> QED
      BY <3>1, <3>2
  <2> HIDE DEF Fits
  <2> QED
    BY <2>7, <2>8
<1>9. Fits(g[n])
  <2>1. n \in 0 .. n
    BY <1>7
  <2> HIDE DEF Fits, n
  <2> QED
    BY <1>8, <2>1
<1>10. JoinsOf(fact, used, unique) \in Seq(S)
  BY <1>5, <1>6, <1>9
<1>11. \A s \in ToSet(JoinsOf(fact, used, unique)) : s \in S /\ s.to # fact
  BY <1>5, <1>6, <1>9 DEF ToSet
<1>12. JoinsOf(fact, used, unique) \in Seq(Steps)
  <2>1. S \subseteq Steps
    BY DEF S
  <2> QED
    BY <1>10, <2>1, SeqWithin
<1> QED
  BY <1>11, <1>12 DEF S

-----------------------------------------------------------------------------
(* A group resolved into a block, at a table *)

LEMMA ReachesTable ==
  ASSUME NEW t \in Tables, NEW u, NEW unique, Reaches(t, u, unique)
  PROVE  u \in Tables
<1>1. CASE t = u
  BY <1>1
<1>2. CASE t # u
  <2>1. PICK p \in UNION {[1 .. n -> Steps] : n \in 1 .. Hops} : p[Len(p)].to = u
    BY <1>2 DEF Reaches, Routes, IsRoute
  <2>2. PICK n \in 1 .. Hops : p \in [1 .. n -> Steps]
    BY <2>1
  <2>3. n \in Nat /\ 1 <= n
    BY CatalogueAssumption
  <2>4. Len(p) = n
    BY <2>2, <2>3, BySeq
  <2>5. p[n] \in Steps
    BY <2>2, <2>3
  <2> QED
    BY <2>1, <2>4, <2>5, StepIs
<1> QED
  BY <1>1, <1>2

\* A block joins from its fact to tables unique on the columns joined.
Sound(b, t, unique) ==
  /\ b.fact = t /\ b.joins \in Seq(Steps)
  /\ \A s \in ToSet(b.joins) : s.to # t /\ <<s.to, s.theirs>> \in unique

LEMMA BlockIs ==
  ASSUME NEW t \in Tables, NEW g, NEW dims, NEW filters, NEW period, NEW from, NEW unique,
         \A r \in ToSet(dims) \cup period : r # Nil => Reaches(t, r[1], unique),
         NEW b, b = Block(t, g, dims, filters, period, from, unique), b # Nil
  PROVE  Sound(b, t, unique) /\ b.measures = g.measures /\ b.per = g.per /\ filters \subseteq b.where
<1> DEFINE needed == (UNION {MeasureTables(m) : m \in ToSet(g.measures)}) \cup TablesOf(filters)
           named == {r[1] : r \in ToSet(dims) \cup period}
           since == {[table |-> r[1], col |-> r[2], op |-> ">=", value |-> from, other |-> Nil] : r \in period}
<1>1. /\ Nil \notin ToSet(dims) \cup period /\ \A u \in needed : Reaches(t, u, unique)
      /\ b = [fact |-> t, joins |-> JoinsOf(t, needed \cup named, unique),
              where |-> Shared(g.measures) \cup filters \cup since,
              dims |-> dims, measures |-> g.measures, per |-> g.per]
  BY Zenon DEF Block
<1>2. \A u \in named : Reaches(t, u, unique)
  BY <1>1
<1> HIDE DEF needed, named, since
<1>3. needed \cup named \in SUBSET Tables
  BY <1>1, <1>2, ReachesTable
<1>4. /\ JoinsOf(t, needed \cup named, unique) \in Seq(Steps)
      /\ \A s \in ToSet(JoinsOf(t, needed \cup named, unique)) : s.to # t /\ <<s.to, s.theirs>> \in unique
  <2> DEFINE used == needed \cup named
  <2>1. \A u \in used : Reaches(t, u, unique)
    BY <1>1, <1>2
  <2>2. used \in SUBSET Tables
    BY <1>3
  <2> HIDE DEF used
  <2>3. /\ JoinsOf(t, used, unique) \in Seq(Steps)
        /\ \A s \in ToSet(JoinsOf(t, used, unique)) : s.to # t /\ <<s.to, s.theirs>> \in unique
    BY <2>1, <2>2, JoinsOfAre
  <2> QED
    BY <2>3 DEF used
<1>5. b.joins = JoinsOf(t, needed \cup named, unique) /\ b.fact = t
  BY <1>1
<1>6. Sound(b, t, unique)
  BY <1>4, <1>5 DEF Sound
<1>7. b.measures = g.measures /\ b.per = g.per /\ filters \subseteq b.where
  BY <1>1
<1> QED
  BY <1>6, <1>7

\* Of options, what is taken is one of them.
LEMMA FirstOfIs ==
  ASSUME NEW seq, NEW S, FirstOf(seq, S) # Nil
  PROVE  FirstOf(seq, S) \in S
<1> DEFINE I == {i \in 1 .. Len(seq) : seq[i] \in S}
<1>1. SelectInSeq(seq, LAMBDA x : x \in S) = IF I # {} THEN Min(I) ELSE 0
  BY Zenon DEF SelectInSeq
<1>2. FirstOf(seq, S) = IF (IF I # {} THEN Min(I) ELSE 0) = 0 THEN Nil ELSE seq[IF I # {} THEN Min(I) ELSE 0]
  BY <1>1, Zenon DEF FirstOf
<1>3. I # {} /\ FirstOf(seq, S) = seq[Min(I)]
  <2> HIDE DEF I
  <2> QED
    BY <1>2
<1>4. Min(I) \in I
  <2>1. I \in SUBSET Nat
    OBVIOUS
  <2> HIDE DEF I
  <2> QED
    BY <1>3, <2>1, MinIn
<1> QED
  BY <1>3, <1>4

LEMMA ResolvedAt ==
  ASSUME NEW t \in Tables, NEW g, NEW request, NEW others, NEW several, NEW unique,
         NEW b, b = ResolveAt(t, g, request, others, several, unique), b # Nil
  PROVE  /\ Sound(b, t, unique) /\ b.measures = g.measures /\ b.per = g.per
         /\ \A f \in ToSet(request.filters) :
              Applies(f, others, several, \A u \in TablesOf({f}) : Reaches(t, u, unique)) => f \in b.where
<1> DEFINE Reached(refs) == {r \in ToSet(refs) : Reaches(t, r[1], unique)}
           found(refs) == FirstOf(refs, Reached(refs))
           filters == {f \in ToSet(request.filters) :
                         Applies(f, others, several, \A u \in TablesOf({f}) : Reaches(t, u, unique))}
           dims == [i \in DOMAIN request.dims |-> found(Alternatives(request.dims[i]))]
           period == IF request.period = Nil THEN {} ELSE {found(request.period.options)}
           from == IF request.period = Nil THEN Nil ELSE request.period.from
<1>1. b = Block(t, g, dims, filters, period, from, unique)
  BY Zenon DEF ResolveAt
<1>2. \A refs : found(refs) # Nil => Reaches(t, found(refs)[1], unique)
  <2> SUFFICES ASSUME NEW refs, found(refs) # Nil PROVE Reaches(t, found(refs)[1], unique)
    OBVIOUS
  <2> DEFINE S == Reached(refs)
  <2> HIDE DEF S
  <2>1. FirstOf(refs, S) # Nil
    BY DEF S
  <2>2. FirstOf(refs, S) \in S
    BY <2>1, FirstOfIs
  <2>3. found(refs) \in Reached(refs)
    BY <2>2 DEF S
  <2> QED
    BY <2>3
<1> HIDE DEF found
<1>3. \A r \in ToSet(dims) \cup period : r # Nil => Reaches(t, r[1], unique)
  <2>1. \A r \in ToSet(dims) : \E refs : r = found(refs)
    BY DEF ToSet
  <2>2. \A r \in period : \E refs : r = found(refs)
    OBVIOUS
  <2> HIDE DEF dims, period
  <2> QED
    BY <1>2, <2>1, <2>2
<1> HIDE DEF filters, dims, period, from
<1>4. Sound(b, t, unique) /\ b.measures = g.measures /\ b.per = g.per /\ filters \subseteq b.where
  BY <1>1, <1>3, BlockIs
<1> QED
  BY <1>4 DEF filters

-----------------------------------------------------------------------------
(* The groups the measures are put into *)

Group == {g \in [fact : Tables \cup {Nil}, measures : Seq(Measure), per : Seq(Refs)] :
            \A m \in ToSet(g.measures) : m.per = g.per}

LEMMA PlacedIs ==
  ASSUME NEW groups \in Seq(Group), NEW m \in Measure, NEW unique
  PROVE  Placed(groups, m, unique) \in Seq(Group)
<1> DEFINE fits == {i \in DOMAIN groups : /\ groups[i].per = m.per
                                          /\ Stays(groups[i], m, unique) \/ Moves(groups[i], m, unique)}
<1>1. m.table \in Tables \cup {Nil} /\ m.per \in Seq(Refs)
  BY DEF Measure
<1>2. CASE fits = {}
  <2>1. Placed(groups, m, unique) = Append(groups, [fact |-> m.table, measures |-> <<m>>, per |-> m.per])
    BY <1>2 DEF Placed
  <2>2. [fact |-> m.table, measures |-> <<m>>, per |-> m.per] \in Group
    <3>1. ToSet(<<m>>) = {m}
      BY DEF ToSet
    <3> QED
      BY <1>1, <3>1 DEF Group
  <2> QED
    BY <2>1, <2>2
<1>3. CASE fits # {}
  <2>1. Min(fits) \in fits
    <3>1. fits \in SUBSET Nat
      OBVIOUS
    <3> HIDE DEF fits
    <3> QED
      BY <1>3, <3>1, MinIn
  <2>2. PICK i \in DOMAIN groups : i = Min(fits)
    BY <2>1
  <2>3. PICK g \in Group : g = groups[i]
    OBVIOUS
  <2> DEFINE fact == IF Stays(g, m, unique) /\ g.fact # Nil THEN g.fact ELSE m.table
             now == [g EXCEPT !.fact = fact, !.measures = Append(g.measures, m)]
  <2>4. Placed(groups, m, unique) = [groups EXCEPT ![i] = now]
    BY <1>3, <2>2, <2>3, Zenon DEF Placed
  <2>5. now \in Group
    <3> DEFINE ms == Append(g.measures, m)
    <3>1. fact \in Tables \cup {Nil} /\ g.measures \in Seq(Measure) /\ ms \in Seq(Measure)
      BY <1>1 DEF Group
    <3>2. g.per = m.per /\ \A x \in ToSet(g.measures) : x.per = g.per
      BY <2>1, <2>2, <2>3 DEF Group
    <3>3. \A x \in ToSet(ms) : x = m \/ x \in ToSet(g.measures)
      BY <3>1 DEF ToSet
    <3> HIDE DEF fact, ms
    <3>4. \A x \in ToSet(ms) : x.per = g.per
      BY <3>2, <3>3
    <3>5. [g EXCEPT !.fact = fact, !.measures = ms] \in Group
      BY <3>1, <3>4 DEF Group
    <3> QED
      BY <3>5 DEF ms
  <2> HIDE DEF now
  <2> QED
    BY <2>4, <2>5
<1> QED
  BY <1>2, <1>3

PlacedAll(ms, unique) == FoldLeft(LAMBDA groups, m : Placed(groups, m, unique), <<>>, ms)

LEMMA GroupsFold ==
  ASSUME NEW ms \in Seq(Measure), NEW unique
  PROVE  \E g : /\ g[0] = <<>>
                /\ \A k \in 1 .. Len(ms) : g[k] = Placed(g[k - 1], ms[k], unique)
                /\ PlacedAll(ms, unique) = g[Len(ms)]
<1> DEFINE n == Len(ms)
           Is(h) == h = [T \in SUBSET (1 .. n) |->
                      IF T = {} THEN <<>> ELSE Placed(h[T \ {Max(T)}], ms[Max(T)], unique)]
<1>1. n \in Nat /\ DOMAIN ms = 1 .. n
  OBVIOUS
<1>2. PlacedAll(ms, unique) = (CHOOSE h : Is(h))[1 .. n]
  <2> HIDE DEF n
  <2>1. PlacedAll(ms, unique) = (CHOOSE h : h = [T \in SUBSET (DOMAIN ms) |->
                      IF T = {} THEN <<>> ELSE Placed(h[T \ {Max(T)}], ms[Max(T)], unique)])[DOMAIN ms]
    BY Zenon DEF PlacedAll, FoldLeft, MapThenFoldSet
  <2> QED
    BY <1>1, <2>1, Zenon
<1>3. \E h : Is(h)
  <2> DEFINE F == [x \in Seq(Group) \X (1 .. n) |-> Placed(x[1], ms[x[2]], unique)]
  <2>1. F \in [Seq(Group) \X (1 .. n) -> Seq(Group)]
    <3>1. \A x \in Seq(Group) \X (1 .. n) : ms[x[2]] \in Measure
      BY <1>1
    <3>2. \A x \in Seq(Group) \X (1 .. n) : Placed(x[1], ms[x[2]], unique) \in Seq(Group)
      BY <3>1, PlacedIs
    <3> QED
      BY <3>2
  <2>2. Numbers(1 .. n) /\ IsFiniteSet(1 .. n)
    BY <1>1, Interval
  <2>3. PICK g : FoldIs(g, F, <<>>, 1 .. n, Seq(Group))
    <3>1. <<>> \in Seq(Group)
      OBVIOUS
    <3> DEFINE B == Seq(Group)
               N == 1 .. n
    <3>2. F \in [B \X N -> B] /\ Numbers(N) /\ IsFiniteSet(N) /\ <<>> \in B
      BY <2>1, <2>2, <3>1
    <3> HIDE DEF F, B, N
    <3>3. \E g : FoldIs(g, F, <<>>, N, B)
      BY <3>2, FoldIn
    <3> QED
      BY <3>3 DEF B, N
  <2>4. ASSUME NEW T \in SUBSET (1 .. n), T # {} PROVE g[T] = Placed(g[T \ {Max(T)}], ms[Max(T)], unique)
    BY <2>3, <2>4 DEF FoldIs
  <2>5. g[{}] = <<>>
    BY <2>3 DEF FoldIs
  <2>6. Is(g)
    <3>1. \A T \in SUBSET (1 .. n) : g[T] = IF T = {} THEN <<>> ELSE Placed(g[T \ {Max(T)}], ms[Max(T)], unique)
      BY <2>4, <2>5
    <3>2. g = [T \in SUBSET (1 .. n) |-> g[T]]
      BY <2>3 DEF FoldIs
    <3> QED
      BY <3>1, <3>2, Zenon
  <2> QED
    BY <2>6
<1> DEFINE h == CHOOSE h : Is(h)
<1>4. Is(h)
  BY <1>3, Zenon
<1> HIDE DEF h
<1> DEFINE g == [k \in 0 .. n |-> h[1 .. k]]
<1>5. g[0] = <<>>
  <2>1. 1 .. 0 = {} /\ 0 \in 0 .. n
    BY <1>1
  <2>2. h[{}] = <<>>
    BY <1>4, Zenon
  <2> QED
    BY <2>1, <2>2
<1>6. ASSUME NEW k \in 1 .. n PROVE g[k] = Placed(g[k - 1], ms[k], unique)
  <2>1. Max(1 .. k) = k /\ 1 .. k # {} /\ (1 .. k) \ {k} = 1 .. (k - 1) /\ 1 .. k \in SUBSET (1 .. n)
    BY <1>1, Prefix
  <2>2. h[1 .. k] = Placed(h[(1 .. k) \ {Max(1 .. k)}], ms[Max(1 .. k)], unique)
    BY <1>4, <2>1, Zenon
  <2>3. g[k] = h[1 .. k] /\ g[k - 1] = h[1 .. (k - 1)]
    BY <1>1
  <2> QED
    BY <2>1, <2>2, <2>3, Zenon
<1>7. PlacedAll(ms, unique) = g[n]
  <2>1. g[n] = h[1 .. n]
    BY <1>1
  <2> QED
    BY <1>2, <2>1, Zenon DEF h
<1> HIDE DEF g
<1> QED
  BY <1>5, <1>6, <1>7

LEMMA GroupsAre ==
  ASSUME NEW request \in Request, NEW unique
  PROVE  /\ Groups(request, unique) \in Seq(Group)
         /\ Len(request.measures) = 1 =>
              Groups(request, unique) = <<[fact |-> request.measures[1].table, measures |-> <<request.measures[1]>>,
                                           per |-> request.measures[1].per]>>
<1>1. request.measures \in Seq(Measure)
  BY DEF Request
<1>2. PICK ms \in Seq(Measure) : ms = request.measures
  BY <1>1
<1>3. CASE ms = <<>>
  <2>1. Groups(request, unique) = <<[fact |-> Nil, measures |-> <<>>, per |-> <<>>]>>
    BY <1>2, <1>3 DEF Groups
  <2>2. [fact |-> Nil, measures |-> <<>>, per |-> <<>>] \in Group
    <3>1. ToSet(<<>>) = {}
      BY DEF ToSet
    <3> QED
      BY <3>1 DEF Group
  <2> QED
    BY <1>2, <1>3, <2>1, <2>2
<1>4. CASE ms # <<>>
  <2>1. Groups(request, unique) = PlacedAll(ms, unique)
    BY <1>2, <1>4, Zenon DEF Groups, PlacedAll
  <2> DEFINE n == Len(ms)
  <2>2. PICK g : /\ g[0] = <<>>
                 /\ \A k \in 1 .. n : g[k] = Placed(g[k - 1], ms[k], unique)
                 /\ PlacedAll(ms, unique) = g[n]
    BY GroupsFold
  <2>3. n \in Nat /\ \A k \in 1 .. n : ms[k] \in Measure
    OBVIOUS
  <2> HIDE DEF n
  <2> DEFINE B == {k \in 0 .. n : g[k] \notin Seq(Group)}
  <2>4. B = {}
    <3> SUFFICES ASSUME B # {} PROVE FALSE
      OBVIOUS
    <3>1. PICK k \in B : \A m \in B : k <= m
      <4>1. B \in SUBSET Nat
        OBVIOUS
      <4> HIDE DEF B
      <4> QED
        BY <4>1, LeastNumber
    <3>2. k # 0
      <4>1. <<>> \in Seq(Group)
        OBVIOUS
      <4>2. g[0] \in Seq(Group)
        BY <2>2, <4>1, Zenon
      <4> QED
        BY <4>2
    <3>3. k \in 1 .. n /\ k - 1 \in 0 .. n /\ k - 1 \notin B
      BY <2>3, <3>1, <3>2
    <3>4. PICK groups : groups = g[k - 1]
      OBVIOUS
    <3>5. groups \in Seq(Group) /\ ms[k] \in Measure
      BY <2>3, <3>3, <3>4
    <3>6. PICK m \in Measure : m = ms[k]
      BY <3>5
    <3>7. Placed(groups, m, unique) \in Seq(Group)
      BY <3>5, PlacedIs
    <3>8. g[k] = Placed(groups, m, unique)
      BY <2>2, <3>3, <3>4, <3>6
    <3> QED
      BY <3>7, <3>8
  <2>5. g[n] \in Seq(Group)
    <3>1. n \in 0 .. n
      BY <2>3
    <3> QED
      BY <2>4, <3>1
  <2>6. ASSUME n = 1
        PROVE  g[n] = <<[fact |-> ms[1].table, measures |-> <<ms[1]>>, per |-> ms[1].per]>>
    <3>1. 1 \in 1 .. n /\ 1 - 1 = 0
      BY <2>6
    <3>2. g[1] = Placed(<<>>, ms[1], unique)
      BY <2>2, <3>1
    <3>3. Placed(<<>>, ms[1], unique)
            = Append(<<>>, [fact |-> ms[1].table, measures |-> <<ms[1]>>, per |-> ms[1].per])
      BY DEF Placed
    <3> QED
      BY <2>6, <3>2, <3>3
  <2> QED
    BY <1>2, <2>1, <2>2, <2>5, <2>6 DEF n
<1> QED
  BY <1>3, <1>4

-----------------------------------------------------------------------------
(* The tables a group's fact may be *)

LEMMA ConditionTables ==
  ASSUME NEW C, C \subseteq Condition
  PROVE  TablesOf(C) \subseteq Tables
<1>1. \A c \in C : c.table \in Tables /\ c.col \in Columns /\ c.other \in Refs \cup {Nil}
  BY DEF Condition
<1>2. \A c \in C : \A r \in ReadsOf(c) : r[1] \in Tables
  BY <1>1 DEF ReadsOf, RefOf, Refs
<1> QED
  BY <1>2 DEF TablesOf

LEMMA MeasuresTables ==
  ASSUME NEW m \in Measure
  PROVE  MeasureTables(m) \subseteq Tables
<1>1. /\ m.only \subseteq Condition /\ m.filters \subseteq Condition
      /\ m.table \in Tables \cup {Nil} /\ m.per \in Seq(Refs)
  BY DEF Measure
<1>2. TablesOf(m.only \cup m.filters) \subseteq Tables
  BY <1>1, ConditionTables
<1>3. \A r \in ToSet(m.per) : r \in Refs
  BY <1>1 DEF ToSet
<1>4. \A r \in ToSet(m.per) : r[1] \in Tables
  BY <1>3 DEF Refs
<1> QED
  BY <1>1, <1>2, <1>4 DEF MeasureTables

LEMMA OptionsTable ==
  ASSUME NEW options \in Options
  PROVE  options[1][1] \in Tables /\ \A r \in ToSet(options) : r[1] \in Tables
<1>1. options \in Seq(Refs) /\ options # <<>>
  BY DEF Options
<1>2. options[1] \in Refs /\ \A r \in ToSet(options) : r \in Refs
  BY <1>1 DEF ToSet
<1> QED
  BY <1>2 DEF Refs

LEMMA NamedTables ==
  ASSUME NEW request \in Request
  PROVE  NamedInOrder(request) \in Seq(Tables) /\ Named(request) \subseteq Tables
<1>1. /\ request.dims \in Seq(Options) /\ request.filters \in Seq(Condition)
      /\ request.period # Nil => request.period.options \in Options
  BY DEF Request
<1>2. (IF request.period = Nil THEN <<>> ELSE <<request.period.options[1][1]>>) \in Seq(Tables)
  <2>1. CASE request.period = Nil
    BY <2>1
  <2>2. CASE request.period # Nil
    <3>1. request.period.options[1][1] \in Tables
      BY <1>1, <2>2, OptionsTable
    <3> QED
      BY <2>2, <3>1
  <2> QED
    BY <2>1, <2>2
<1>3. [i \in DOMAIN request.dims |-> request.dims[i][1][1]] \in Seq(Tables)
  <2>1. \A i \in DOMAIN request.dims : request.dims[i][1][1] \in Tables
    <3> SUFFICES ASSUME NEW i \in DOMAIN request.dims PROVE request.dims[i][1][1] \in Tables
      OBVIOUS
    <3>1. PICK options \in Options : options = request.dims[i]
      BY <1>1
    <3> QED
      BY <3>1, OptionsTable
  <2>2. DOMAIN request.dims = 1 .. Len(request.dims) /\ Len(request.dims) \in Nat
    BY <1>1
  <2>3. [i \in DOMAIN request.dims |-> request.dims[i][1][1]] \in [1 .. Len(request.dims) -> Tables]
    BY <2>1, <2>2
  <2> QED
    BY <2>2, <2>3, BySeq
<1>4. [i \in DOMAIN request.filters |-> request.filters[i].table] \in Seq(Tables)
  <2>1. \A i \in DOMAIN request.filters : request.filters[i] \in Condition
    BY <1>1
  <2>2. \A i \in DOMAIN request.filters : request.filters[i].table \in Tables
    BY <2>1 DEF Condition
  <2>3. DOMAIN request.filters = 1 .. Len(request.filters) /\ Len(request.filters) \in Nat
    BY <1>1
  <2>4. [i \in DOMAIN request.filters |-> request.filters[i].table] \in [1 .. Len(request.filters) -> Tables]
    BY <2>2, <2>3
  <2> QED
    BY <2>3, <2>4, BySeq
<1>5. NamedInOrder(request) \in Seq(Tables)
  <2> DEFINE a == IF request.period = Nil THEN <<>> ELSE <<request.period.options[1][1]>>
             b == [i \in DOMAIN request.dims |-> request.dims[i][1][1]]
             c == [i \in DOMAIN request.filters |-> request.filters[i].table]
  <2>1. NamedInOrder(request) = a \o b \o c
    BY DEF NamedInOrder
  <2>2. a \in Seq(Tables) /\ b \in Seq(Tables) /\ c \in Seq(Tables)
    BY <1>2, <1>3, <1>4
  <2> HIDE DEF a, b, c
  <2> QED
    BY <2>1, <2>2
<1>6. \A options \in ToSet(request.dims) : options \in Options
  BY <1>1 DEF ToSet
<1>7. \A f \in ToSet(request.filters) : f.table \in Tables
  <2>1. \A f \in ToSet(request.filters) : f \in Condition
    BY <1>1 DEF ToSet
  <2> QED
    BY <2>1 DEF Condition
<1>8. \A r \in UNION {ToSet(options) : options \in ToSet(request.dims)} : r[1] \in Tables
  <2> SUFFICES ASSUME NEW options \in ToSet(request.dims), NEW r \in ToSet(options) PROVE r[1] \in Tables
    OBVIOUS
  <2>1. options \in Options
    BY <1>6
  <2> QED
    BY <2>1, OptionsTable
<1>9. Named(request) \subseteq Tables
  BY <1>7, <1>8 DEF Named
<1> QED
  BY <1>5, <1>9

LEMMA CandidatesAre ==
  ASSUME NEW g \in Group, NEW request \in Request
  PROVE  /\ Candidates(g, request) \in Seq(Tables)
         /\ g.fact # Nil => \A t \in ToSet(Candidates(g, request)) : t = g.fact \/ MayBe(g, t)
<1>0. g.fact \in Tables \cup {Nil} /\ g.measures \in Seq(Measure)
  BY DEF Group
<1>1. CASE g.fact = Nil
  BY <1>1, NamedTables DEF Candidates
<1>2. CASE g.fact # Nil
  <2> DEFINE tables == Named(request) \cup UNION {MeasureTables(m) : m \in ToSet(g.measures)}
             others == {t \in tables \ {g.fact} : MayBe(g, t)}
             sorted == InOrder(others, <)
  <2>1. Candidates(g, request) = <<g.fact>> \o sorted
    BY <1>2, Zenon DEF Candidates
  <2>2. tables \subseteq Tables
    <3>1. \A m \in ToSet(g.measures) : m \in Measure
      BY <1>0 DEF ToSet
    <3>2. \A m \in ToSet(g.measures) : MeasureTables(m) \subseteq Tables
      BY <3>1, MeasuresTables
    <3>3. Named(request) \subseteq Tables
      BY NamedTables
    <3> QED
      BY <3>2, <3>3
  <2>3. IsFiniteSet(others) /\ Numbers(others) /\ others \subseteq Tables
    <3>1. others \in SUBSET Tables
      BY <2>2
    <3> HIDE DEF others
    <3> QED
      BY <3>1, CatalogueAssumption, FS_Subset DEF Numbers
  <2>4. sorted \in [1 .. Cardinality(others) -> others] /\ Cardinality(others) \in Nat
    <3> HIDE DEF others
    <3> QED
      BY <2>3, InOrderIs
  <2>5. \A t \in others : MayBe(g, t)
    OBVIOUS
  <2> HIDE DEF sorted, others
  <2>6. sorted \in Seq(others)
    BY <2>4, BySeq
  <2>7. sorted \in Seq(Tables)
    BY <2>3, <2>6, SeqWithin
  <2>8. Candidates(g, request) \in Seq(Tables)
    BY <1>0, <1>2, <2>1, <2>7
  <2>9. ASSUME NEW t \in ToSet(Candidates(g, request)) PROVE t = g.fact \/ MayBe(g, t)
    <3>1. PICK i \in DOMAIN (<<g.fact>> \o sorted) : t = (<<g.fact>> \o sorted)[i]
      BY <2>1 DEF ToSet
    <3>2. CASE i = 1
      BY <2>6, <3>1, <3>2
    <3>3. CASE i # 1
      <4>1. i - 1 \in DOMAIN sorted /\ t = sorted[i - 1]
        BY <2>6, <3>1, <3>3
      <4> QED
        BY <2>5, <2>6, <4>1
    <3> QED
      BY <3>2, <3>3
  <2> QED
    BY <2>8, <2>9
<1> QED
  BY <1>1, <1>2

LEMMA FirstFoundIs ==
  ASSUME NEW S, NEW tables \in Seq(S), NEW at, FirstFound(tables, at) # Nil
  PROVE  \E t \in ToSet(tables) : FirstFound(tables, at) = at[t]
<1> DEFINE I == {i \in 1 .. Len(tables) : at[tables[i]] # Nil}
<1>1. SelectInSeq(tables, LAMBDA t : at[t] # Nil) = IF I # {} THEN Min(I) ELSE 0
  BY Zenon DEF SelectInSeq
<1>2. FirstFound(tables, at)
        = IF (IF I # {} THEN Min(I) ELSE 0) = 0 THEN Nil ELSE at[tables[IF I # {} THEN Min(I) ELSE 0]]
  BY <1>1, Zenon DEF FirstFound
<1>3. I # {} /\ FirstFound(tables, at) = at[tables[Min(I)]]
  <2> HIDE DEF I
  <2> QED
    BY <1>2
<1>4. Min(I) \in I
  <2>1. I \in SUBSET Nat
    OBVIOUS
  <2> HIDE DEF I
  <2> QED
    BY <1>3, <2>1, MinIn
<1>5. Min(I) \in DOMAIN tables
  BY <1>4
<1>6. tables[Min(I)] \in ToSet(tables)
  <2> HIDE DEF I
  <2> QED
    BY <1>5 DEF ToSet
<1> QED
  BY <1>3, <1>6

-----------------------------------------------------------------------------
(* The blocks of a plan *)

FactsOf(groups) == {groups[i].fact : i \in DOMAIN groups} \ {Nil}
\* A block resolved from group g at table t, beside other facts' blocks.
From(b, g, t, request, facts, several, unique) ==
  /\ t \in Tables /\ (g.fact # Nil => t = g.fact \/ MayBe(g, t))
  /\ b # Nil /\ b = ResolveAt(t, g, request, facts \ {g.fact, t}, several, unique)
  /\ Sound(b, t, unique) /\ b.measures = g.measures /\ b.per = g.per
  /\ \A f \in ToSet(request.filters) :
       Applies(f, facts \ {g.fact, t}, several, \A u \in TablesOf({f}) : Reaches(t, u, unique)) => f \in b.where

LEMMA ResolvedFrom ==
  ASSUME NEW g \in Group, NEW request \in Request, NEW facts, NEW several, NEW unique,
         NEW b, b = Resolve(g, request, facts, several, unique), b # Nil
  PROVE  \E t : From(b, g, t, request, facts, several, unique)
<1> DEFINE tables == Candidates(g, request)
           at == [t \in ToSet(tables) |-> ResolveAt(t, g, request, facts \ {g.fact, t}, several, unique)]
<1>1. b = FirstFound(tables, at)
  BY Zenon DEF Resolve
<1>2. tables \in Seq(Tables)
  BY CandidatesAre
<1>3. PICK t \in ToSet(tables) : b = at[t]
  <2> HIDE DEF at, tables
  <2> QED
    BY <1>1, <1>2, FirstFoundIs
<1>4. b = ResolveAt(t, g, request, facts \ {g.fact, t}, several, unique)
  BY <1>3
<1>5. t \in Tables
  <2> HIDE DEF tables
  <2> QED
    BY <1>2, <1>3 DEF ToSet
<1>6. g.fact # Nil => t = g.fact \/ MayBe(g, t)
  BY <1>3, CandidatesAre
<1> HIDE DEF at, tables
<1> DEFINE others == facts \ {g.fact, t}
<1> HIDE DEF others
<1>7. b = ResolveAt(t, g, request, others, several, unique)
  BY <1>4 DEF others
<1>8. /\ Sound(b, t, unique) /\ b.measures = g.measures /\ b.per = g.per
      /\ \A f \in ToSet(request.filters) :
              Applies(f, others, several, \A u \in TablesOf({f}) : Reaches(t, u, unique)) => f \in b.where
  BY <1>5, <1>7, ResolvedAt
<1>9. From(b, g, t, request, facts, several, unique)
  BY <1>4, <1>5, <1>6, <1>8 DEF From, others
<1> QED
  BY <1>9

LEMMA PlanIs ==
  ASSUME NEW request \in Request, NEW unique, Plan(request, unique) # Nil
  PROVE  LET groups == Groups(request, unique) IN
         /\ DOMAIN Plan(request, unique) = DOMAIN groups
         /\ \A i \in DOMAIN groups : \E t :
              From(Plan(request, unique)[i], groups[i], t, request, FactsOf(groups), Len(groups) > 1, unique)
<1> DEFINE groups == Groups(request, unique)
           facts == FactsOf(groups)
           blocks == [i \in DOMAIN groups |-> Resolve(groups[i], request, facts, Len(groups) > 1, unique)]
<1>1. Plan(request, unique) = AllOrNil(blocks)
  BY Zenon DEF Plan, FactsOf
<1>2. Plan(request, unique) = blocks /\ Nil \notin ToSet(blocks)
  <2> HIDE DEF blocks
  <2> QED
    BY <1>1 DEF AllOrNil
<1>3. groups \in Seq(Group)
  BY GroupsAre
<1>4. ASSUME NEW i \in DOMAIN groups
      PROVE  \E t : From(blocks[i], groups[i], t, request, facts, Len(groups) > 1, unique)
  <2>1. blocks[i] \in ToSet(blocks)
    BY DEF ToSet
  <2>2. blocks[i] # Nil
    BY <1>2, <2>1
  <2>3. PICK b : b = blocks[i]
    OBVIOUS
  <2>4. PICK g \in Group : g = groups[i]
    <3> HIDE DEF groups
    <3> QED
      BY <1>3
  <2>5. PICK several \in BOOLEAN : several = (Len(groups) > 1)
    <3> HIDE DEF groups
    <3>1. CASE Len(groups) > 1
      BY <3>1, Zenon
    <3>2. CASE ~ (Len(groups) > 1)
      <4>1. FALSE = (Len(groups) > 1)
        BY <3>2
      <4> WITNESS FALSE \in BOOLEAN
      <4> QED
        BY <4>1
    <3> QED
      BY <3>1, <3>2
  <2>6. b = Resolve(g, request, facts, several, unique)
    BY <2>3, <2>4, <2>5
  <2> HIDE DEF facts, groups, blocks
  <2>7. \E t : From(b, g, t, request, facts, several, unique)
    BY <2>2, <2>3, <2>6, ResolvedFrom
  <2> QED
    BY <2>3, <2>4, <2>5, <2>7
<1>5. DOMAIN blocks = DOMAIN groups
  OBVIOUS
<1> HIDE DEF blocks, facts
<1> QED
  BY <1>2, <1>4, <1>5 DEF facts

-----------------------------------------------------------------------------
(* What is recalled is rows of the warehouse *)

Fetchable(bank) == {rows \in [Tables -> SUBSET Nat] : \A t \in Tables : rows[t] \subseteq DOMAIN bank[t]}

LEMMA GotIs ==
  ASSUME NEW bank, NEW x, NEW keyed
  PROVE  Got(bank, x, keyed) \subseteq DOMAIN bank[Of(x)]
<1>1. Got(bank, x, keyed) \subseteq Sought(bank, x, keyed)
  BY DEF Got
<1>2. Sought(bank, x, keyed) \subseteq DOMAIN bank[Of(x)]
  BY DEF Sought, Of
<1> QED
  BY <1>1, <1>2

LEMMA HopIs ==
  ASSUME NEW bank \in Warehouses, NEW reads, NEW rows \in Fetchable(bank), NEW hop
  PROVE  Hop(bank, reads, rows, hop) \in Fetchable(bank)
<1> DEFINE more(t) == UNION {Got(bank, x, rows[Via(x)]) : x \in {y \in reads : y.hop = hop /\ Of(y) = t}}
<1>1. Hop(bank, reads, rows, hop) = [t \in Tables |-> rows[t] \cup more(t)]
  BY DEF Hop
<1>2. \A t \in Tables : more(t) \subseteq DOMAIN bank[t]
  BY GotIs
<1>3. \A t \in Tables : DOMAIN bank[t] \subseteq Nat
  BY DEF Warehouses
<1> HIDE DEF more
<1> QED
  BY <1>1, <1>2, <1>3 DEF Fetchable

RowsAfter(bank, reads, start, hops) == FoldLeft(LAMBDA rows, hop : Hop(bank, reads, rows, hop), start, hops)

Hopped(g, bank, reads, start, hops) ==
  /\ g[0] = start
  /\ \A k \in 1 .. Len(hops) : g[k] = Hop(bank, reads, g[k - 1], hops[k])
  /\ RowsAfter(bank, reads, start, hops) = g[Len(hops)]

LEMMA HopsFold ==
  ASSUME NEW bank \in Warehouses, NEW reads, NEW start \in Fetchable(bank), NEW hops \in Seq(Nat)
  PROVE  \E g : Hopped(g, bank, reads, start, hops)
<1> DEFINE n == Len(hops)
           Is(h) == h = [T \in SUBSET (1 .. n) |->
                      IF T = {} THEN start ELSE Hop(bank, reads, h[T \ {Max(T)}], hops[Max(T)])]
<1>1. n \in Nat /\ DOMAIN hops = 1 .. n
  OBVIOUS
<1>2. RowsAfter(bank, reads, start, hops) = (CHOOSE h : Is(h))[1 .. n]
  <2> HIDE DEF n
  <2>1. RowsAfter(bank, reads, start, hops) = (CHOOSE h : h = [T \in SUBSET (DOMAIN hops) |->
                      IF T = {} THEN start ELSE Hop(bank, reads, h[T \ {Max(T)}], hops[Max(T)])])[DOMAIN hops]
    BY Zenon DEF RowsAfter, FoldLeft, MapThenFoldSet
  <2> QED
    BY <1>1, <2>1, Zenon
<1>3. \E h : Is(h)
  <2> DEFINE F == [x \in Fetchable(bank) \X (1 .. n) |-> Hop(bank, reads, x[1], hops[x[2]])]
  <2>1. F \in [Fetchable(bank) \X (1 .. n) -> Fetchable(bank)]
    <3>1. \A x \in Fetchable(bank) \X (1 .. n) : Hop(bank, reads, x[1], hops[x[2]]) \in Fetchable(bank)
      BY HopIs
    <3> QED
      BY <3>1
  <2>2. Numbers(1 .. n) /\ IsFiniteSet(1 .. n)
    BY <1>1, Interval
  <2>3. PICK g : FoldIs(g, F, start, 1 .. n, Fetchable(bank))
    <3>1. start \in Fetchable(bank)
      OBVIOUS
    <3> DEFINE B == Fetchable(bank)
               N == 1 .. n
    <3>2. F \in [B \X N -> B] /\ Numbers(N) /\ IsFiniteSet(N) /\ start \in B
      BY <2>1, <2>2, <3>1
    <3> HIDE DEF F, B, N
    <3>3. \E g : FoldIs(g, F, start, N, B)
      BY <3>2, FoldIn
    <3> QED
      BY <3>3 DEF B, N
  <2>4. ASSUME NEW T \in SUBSET (1 .. n), T # {} PROVE g[T] = Hop(bank, reads, g[T \ {Max(T)}], hops[Max(T)])
    BY <2>3, <2>4 DEF FoldIs
  <2>5. g[{}] = start
    BY <2>3 DEF FoldIs
  <2>6. Is(g)
    <3>1. \A T \in SUBSET (1 .. n) : g[T] = IF T = {} THEN start ELSE Hop(bank, reads, g[T \ {Max(T)}], hops[Max(T)])
      BY <2>4, <2>5
    <3>2. g = [T \in SUBSET (1 .. n) |-> g[T]]
      BY <2>3 DEF FoldIs
    <3> QED
      BY <3>1, <3>2, Zenon
  <2> QED
    BY <2>6
<1> DEFINE h == CHOOSE h : Is(h)
<1>4. Is(h)
  BY <1>3, Zenon
<1> HIDE DEF h
<1> DEFINE g == [k \in 0 .. n |-> h[1 .. k]]
<1>5. g[0] = start
  <2>1. 1 .. 0 = {} /\ 0 \in 0 .. n
    BY <1>1
  <2>2. h[{}] = start
    BY <1>4, Zenon
  <2> QED
    BY <2>1, <2>2
<1>6. ASSUME NEW k \in 1 .. n PROVE g[k] = Hop(bank, reads, g[k - 1], hops[k])
  <2>1. Max(1 .. k) = k /\ 1 .. k # {} /\ (1 .. k) \ {k} = 1 .. (k - 1) /\ 1 .. k \in SUBSET (1 .. n)
    BY <1>1, Prefix
  <2>2. h[1 .. k] = Hop(bank, reads, h[(1 .. k) \ {Max(1 .. k)}], hops[Max(1 .. k)])
    BY <1>4, <2>1, Zenon
  <2>3. g[k] = h[1 .. k] /\ g[k - 1] = h[1 .. (k - 1)]
    BY <1>1
  <2> QED
    BY <2>1, <2>2, <2>3, Zenon
<1>7. RowsAfter(bank, reads, start, hops) = g[n]
  <2>1. g[n] = h[1 .. n]
    BY <1>1
  <2> QED
    BY <1>2, <2>1, Zenon DEF h
<1> HIDE DEF g
<1> QED
  BY <1>5, <1>6, <1>7 DEF Hopped

LEMMA RowsFetched ==
  ASSUME NEW bank \in Warehouses, NEW reads, NEW start \in Fetchable(bank), NEW hops \in Seq(Nat)
  PROVE  RowsAfter(bank, reads, start, hops) \in Fetchable(bank)
<1>4. PICK g : Hopped(g, bank, reads, start, hops)
  BY HopsFold
<1> DEFINE n == Len(hops)
<1>5. n \in Nat
  OBVIOUS
<1>8. \A k \in 1 .. n : g[k] = Hop(bank, reads, g[k - 1], hops[k])
  BY <1>4 DEF Hopped
<1>9. RowsAfter(bank, reads, start, hops) = g[n]
  BY <1>4 DEF Hopped
<1> HIDE DEF n
<1> DEFINE B == {k \in 0 .. n : g[k] \notin Fetchable(bank)}
<1>6. B = {}
  <2> SUFFICES ASSUME B # {} PROVE FALSE
    OBVIOUS
  <2>1. PICK k \in B : \A m \in B : k <= m
    <3>1. B \in SUBSET Nat
      OBVIOUS
    <3> HIDE DEF B
    <3> QED
      BY <3>1, LeastNumber
  <2>2. k # 0
    <3>1. g[0] \in Fetchable(bank)
      BY <1>4, Zenon DEF Hopped
    <3> QED
      BY <3>1
  <2>3. k \in 1 .. n /\ k - 1 \in 0 .. n /\ k - 1 \notin B
    BY <1>5, <2>1, <2>2
  <2>4. PICK rows \in Fetchable(bank) : rows = g[k - 1]
    BY <2>3
  <2>5. Hop(bank, reads, rows, hops[k]) \in Fetchable(bank)
    BY HopIs
  <2>6. g[k] = Hop(bank, reads, rows, hops[k])
    BY <1>8, <2>3, <2>4
  <2> QED
    BY <2>5, <2>6
<1>7. g[n] \in Fetchable(bank)
  <2>1. n \in 0 .. n
    BY <1>5
  <2> QED
    BY <1>6, <2>1
<1> QED
  BY <1>7, <1>9

LEMMA ContextRows ==
  ASSUME NEW bank \in Warehouses, NEW anchor, NEW key
  PROVE  \A t \in Tables : Context(bank, anchor, key).rows[t] \subseteq DOMAIN bank[t]
<1> DEFINE reads == Template(anchor)
           itself == {i \in DOMAIN bank[anchor] : bank[anchor][i][Key[anchor]] = key}
           start == [t \in Tables |-> IF t = anchor THEN itself ELSE {}]
           hops == [h \in 1 .. MemoryHops |-> h]
<1>1. Context(bank, anchor, key).rows = RowsAfter(bank, reads, start, hops)
  <2>1. \A a, b, c, d : [table |-> a, key |-> b, rows |-> c, capped |-> d].rows = c
    OBVIOUS
  <2> QED
    BY <2>1, Zenon DEF Context, RowsAfter
<1>2. start \in Fetchable(bank)
  <2>1. \A t \in Tables : DOMAIN bank[t] \subseteq Nat
    BY DEF Warehouses
  <2>2. \A t \in Tables : start[t] \subseteq DOMAIN bank[t]
    OBVIOUS
  <2>3. start = [t \in Tables |-> start[t]]
    OBVIOUS
  <2> HIDE DEF start
  <2> QED
    BY <2>1, <2>2, <2>3 DEF Fetchable
<1>3. hops \in Seq(Nat)
  <2>1. MemoryHops \in Nat /\ hops \in [1 .. MemoryHops -> Nat]
    BY RecallAssumption
  <2> HIDE DEF hops
  <2> QED
    BY <2>1, BySeq
<1> HIDE DEF reads, start, hops
<1>4. RowsAfter(bank, reads, start, hops) \in Fetchable(bank)
  BY <1>2, <1>3, RowsFetched
<1> QED
  BY <1>1, <1>4 DEF Fetchable

LEMMA RememberedRows ==
  ASSUME NEW bank \in Warehouses, NEW anchors
  PROVE  Remembered(bank, anchors).rows \in Warehouses
<1> DEFINE contexts == {Context(bank, a[1], a[2]) : a \in anchors}
           of(t) == UNION {c.rows[t] : c \in contexts}
           held(t) == InOrder(of(t), <)
           Row == [Columns -> Nat \cup {Nil}]
<1>1. Remembered(bank, anchors).rows = [t \in Tables |-> [n \in DOMAIN held(t) |-> bank[t][held(t)[n]]]]
  <2>1. \A a, b : [rows |-> a, contexts |-> b].rows = a
    OBVIOUS
  <2> QED
    BY <2>1, Zenon DEF Remembered
<1>2. ASSUME NEW t \in Tables PROVE of(t) \subseteq DOMAIN bank[t]
  <2>1. \A c \in contexts : c.rows[t] \subseteq DOMAIN bank[t]
    BY ContextRows
  <2> HIDE DEF contexts
  <2> QED
    BY <2>1
<1> HIDE DEF of
<1>3. ASSUME NEW t \in Tables PROVE [n \in DOMAIN held(t) |-> bank[t][held(t)[n]]] \in Seq(Row)
  <2>1. bank[t] \in Seq(Row)
    BY DEF Warehouses
  <2> HIDE DEF Row
  <2> DEFINE S == of(t)
             h == held(t)
  <2>2. DOMAIN bank[t] = 1 .. Len(bank[t]) /\ Len(bank[t]) \in Nat /\ \A i \in DOMAIN bank[t] : bank[t][i] \in Row
    BY <2>1
  <2>3. S \in SUBSET (1 .. Len(bank[t]))
    BY <1>2, <2>2
  <2> HIDE DEF S
  <2>4. IsFiniteSet(1 .. Len(bank[t])) /\ Numbers(S)
    BY <2>2, <2>3, FS_Interval DEF Numbers
  <2>5. IsFiniteSet(S)
    <3> DEFINE U == 1 .. Len(bank[t])
    <3>1. S \in SUBSET U /\ IsFiniteSet(U)
      BY <2>3, <2>4
    <3> HIDE DEF U
    <3> QED
      BY <3>1, FS_Subset
  <2>6. h \in [1 .. Cardinality(S) -> S] /\ Cardinality(S) \in Nat
    BY <2>4, <2>5, InOrderIs DEF S
  <2> HIDE DEF h
  <2>7. DOMAIN h = 1 .. Cardinality(S) /\ \A n \in DOMAIN h : h[n] \in DOMAIN bank[t]
    BY <2>2, <2>3, <2>6
  <2>8. [n \in DOMAIN h |-> bank[t][h[n]]] \in [1 .. Cardinality(S) -> Row]
    BY <2>2, <2>7
  <2>9. [n \in DOMAIN h |-> bank[t][h[n]]] \in Seq(Row)
    BY <2>6, <2>8, BySeq
  <2> QED
    BY <2>9 DEF h
<1> HIDE DEF Row
<1> DEFINE part(t) == [n \in DOMAIN held(t) |-> bank[t][held(t)[n]]]
<1>4. \A t \in Tables : part(t) \in Seq(Row)
  BY <1>3
<1> HIDE DEF part
<1>5. [t \in Tables |-> part(t)] \in [Tables -> Seq(Row)]
  BY <1>4
<1>6. Remembered(bank, anchors).rows = [t \in Tables |-> part(t)]
  BY <1>1, Zenon DEF part
<1> QED
  BY <1>5, <1>6 DEF Warehouses, Row

-----------------------------------------------------------------------------
(* What a command's process has got to, and the files it leaves *)

\* What it knows at each step: a request the LLM gave, or may have; of the
\* join columns, whether some, then all, were unique; and its blocks are that
\* request's, by what it knew.
Working(w, q) ==
  \/ w \in [step : {"none", "call", "done"}]
  \/ /\ q \in Questions
     /\ \/ w \in [step : {"save", "uniques"}, request : Replies[q]]
        \/ /\ w = [step |-> "check", request |-> w.request, known |-> w.known]
           /\ w.request \in Replies[q] /\ DOMAIN w.known \subseteq Targets
           /\ w.known \in [DOMAIN w.known -> BOOLEAN]
        \/ w \in [step : {"record", "compile"}, request : Replies[q], known : [Targets -> BOOLEAN]]
        \/ /\ w.step = "answered" /\ w.request \in Replies[q] /\ w.known \in [Targets -> BOOLEAN]
           /\ w.blocks = Plan(w.request, True(w.known))

FilesInv ==
  /\ data \in Warehouses /\ memory.rows \in Warehouses
  /\ DOMAIN answers = Questions
  /\ \A q \in Questions : answers[q] \in Replies[q] \cup {Absent} \cup Unread
  /\ uniques \in [Targets -> BOOLEAN] \cup {Absent} \cup Unread

AskedInv ==
  /\ asks \in [Visitors -> Questions \cup {Nil}]
  /\ \A v \in Visitors : place[v] # "away" => asks[v] # Nil

AskInv ==
  /\ SlotsInv /\ here \in [Visitors -> BOOLEAN]
  /\ FilesInv /\ AskedInv
  /\ DOMAIN work = Visitors /\ \A v \in Visitors : Working(work[v], asks[v])

LEMMA AskInit == Init => AskInv
<1> SUFFICES ASSUME Init PROVE AskInv
  OBVIOUS
<1>1. PICK s \in Starts :
        /\ data = s.data /\ memory = Remembered(s.data, s.held) /\ answers = s.answers
        /\ asks = s.asks /\ leave = s.leave /\ loads = s.loads
  BY DEF Init
<1>2. SlotsInv /\ here \in [Visitors -> BOOLEAN] /\ \A v \in Visitors : place[v] = "away"
  BY SlotsInit DEF Init, MethodsInit
<1>3. s.data \in Warehouses /\ s.asks \in [Visitors -> Questions \cup {Nil}] /\ DOMAIN s.answers = Questions
      /\ \A q \in Questions : s.answers[q] \in Replies[q] \cup {Absent} \cup Unread
  BY AskAssumption
<1>4. memory.rows \in Warehouses
  BY <1>1, <1>3, RememberedRows
<1>5. FilesInv
  BY <1>1, <1>3, <1>4 DEF FilesInv, Init
<1>6. AskedInv
  BY <1>1, <1>2, <1>3 DEF AskedInv
<1>7. DOMAIN work = Visitors /\ \A v \in Visitors : work[v] \in [step : {"none", "call", "done"}]
  BY DEF Init, Idle
<1> QED
  BY <1>2, <1>5, <1>6, <1>7 DEF AskInv, Working

\* A command's question is one it may have.
LEMMA AliveAsks ==
  ASSUME AskInv, NEW v \in Visitors, proc[v] = "alive"
  PROVE  asks[v] \in Questions
<1>1. place[v] \in {"reading", "closing"}
  BY DEF AskInv, SlotsInv, Running
<1> QED
  BY <1>1 DEF AskInv, AskedInv

\* A step that leaves the files, and takes one command somewhere.
LEMMA GoesOn ==
  ASSUME AskInv, NEW v \in Visitors, NEW to, work' = [work EXCEPT ![v] = to], asks' = asks, Working(to, asks[v])
  PROVE  DOMAIN work' = Visitors /\ \A u \in Visitors : Working(work'[u], asks'[u])
<1>1. DOMAIN work = Visitors /\ \A u \in Visitors : Working(work[u], asks[u])
  BY DEF AskInv
<1>2. \A u \in Visitors : work'[u] = IF u = v THEN to ELSE work[u]
  BY <1>1
<1> QED
  BY <1>1, <1>2

LEMMA EndedWorks ==
  ASSUME NEW q
  PROVE  Working([step |-> "done"], q) /\ Working([step |-> "call"], q)
  BY DEF Working

\* What a command is doing when it is at a step.
LEMMA WorkingIs ==
  ASSUME NEW w, NEW q, Working(w, q)
  PROVE  /\ w.step = "save" => w \in [step : {"save", "uniques"}, request : Replies[q]]
         /\ w.step = "uniques" => w \in [step : {"save", "uniques"}, request : Replies[q]]
         /\ w.step = "check" => /\ w.request \in Replies[q]
                                /\ DOMAIN w.known \subseteq Targets /\ w.known \in [DOMAIN w.known -> BOOLEAN]
                                /\ w = [step |-> "check", request |-> w.request, known |-> w.known]
         /\ w.step \in {"record", "compile"} =>
              w \in [step : {"record", "compile"}, request : Replies[q], known : [Targets -> BOOLEAN]]
         /\ w.step = "answered" => /\ q \in Questions /\ w.request \in Replies[q] /\ w.known \in [Targets -> BOOLEAN]
                                   /\ w.blocks = Plan(w.request, True(w.known))
         /\ w.step \in {"none", "call", "save", "uniques", "check", "record", "compile", "answered", "done"}
  BY DEF Working

-----------------------------------------------------------------------------
(* ... which every step keeps *)

LEMMA AskSlots ==
  ASSUME AskInv, [Next]_vars
  PROVE  SlotsInv' /\ here' \in [Visitors -> BOOLEAN] /\ AskedInv'
<1>1. SlotsInv'
  BY AskStep, SlotsStep DEF AskInv
<1>2. here' \in [Visitors -> BOOLEAN]
  <2>1. here' = here \/ \E v \in Visitors : here' = [here EXCEPT ![v] = FALSE]
    BY AskStep DEF MethodsNext, methodVars, Thread, Outside, Acquire, Queue, Take, GiveUp, Popen, EndOfOutput, Close,
                   Arrive, Leave, Timer, Exit
  <2> QED
    BY <2>1 DEF AskInv
<1>3. AskedInv'
  <2>1. asks' = asks
    BY DEF Next, Load, Server, askVars, Process, Look, Call, Save, LoadUniques, CheckUniques, Record, Answer, Give,
           Finish, vars
  <2>2. \A v \in Visitors : place'[v] = place[v] \/ place[v] # "away" \/ asks[v] # Nil
    <3>1. CASE UNCHANGED vars \/ Load
      BY <3>1 DEF vars, methodVars, Load
    <3>2. ASSUME NEW v \in Visitors, Process(v) PROVE place' = place
      BY <3>2 DEF Process, Look, Call, Save, LoadUniques, CheckUniques, Record, Answer, Give, Finish, Ends, Exit,
                       methodVars
    <3>3. ASSUME NEW v \in Visitors, Server(v), NEW u \in Visitors
          PROVE  place'[u] = place[u] \/ place[u] # "away" \/ asks[u] # Nil
      <4>1. CASE u = v
        BY <3>3, <4>1 DEF Server, Thread, Acquire, Queue, Take, GiveUp, Popen, EndOfOutput, Close, Timer, Leave
      <4>2. CASE u # v
        <5>1. \A p : GoTo(v, p) => place'[u] = place[u]
          BY <4>2 DEF GoTo, AskInv, SlotsInv
        <5> QED
          BY <3>3, <5>1 DEF Server, Thread, Acquire, Queue, Take, GiveUp, Popen, EndOfOutput, Close, Timer, Leave,
                           Arrive
      <4> QED
        BY <4>1, <4>2
    <3> QED
      BY <3>1, <3>2, <3>3 DEF Next
  <2> QED
    BY <2>1, <2>2 DEF AskInv, AskedInv
<1> QED
  BY <1>1, <1>2, <1>3

\* The files, and the processes.
WorkInv == DOMAIN work = Visitors /\ \A v \in Visitors : Working(work[v], asks[v])

LEMMA EndsWell ==
  ASSUME AskInv, NEW v \in Visitors, Ends(v), asks' = asks
  PROVE  WorkInv'
  BY EndedWorks, GoesOn DEF Ends, WorkInv

LEMMA StepsWell ==
  ASSUME AskInv, NEW v \in Visitors, NEW from, NEW to, Step(v, from, to), asks' = asks, Working(to, asks[v])
  PROVE  WorkInv'
  BY GoesOn DEF Step, WorkInv

\* What a write leaves in a question's file.
LEMMA FilesKept ==
  ASSUME FilesInv, NEW q \in Questions, NEW file \in Replies[q] \cup {Absent} \cup Unread,
         answers' = [answers EXCEPT ![q] = file], data' = data, memory' = memory, uniques' = uniques
  PROVE  FilesInv'
<1>1. \A p \in Questions : answers'[p] = IF p = q THEN file ELSE answers[p]
  BY DEF FilesInv
<1>2. DOMAIN answers' = Questions
  BY DEF FilesInv
<1> QED
  BY <1>1, <1>2 DEF FilesInv

LEMMA LookKeeps ==
  ASSUME AskInv, NEW v \in Visitors, Look(v)
  PROVE  FilesInv' /\ WorkInv'
<1> DEFINE file == answers[asks[v]]
           to == [step |-> "uniques", request |-> file]
<1>1. FilesInv' /\ asks' = asks
  BY DEF Look, AskInv, FilesInv
<1>2. proc[v] = "alive"
  BY DEF Look
<1>3. asks[v] \in Questions
  BY <1>2, AliveAsks
<1>4. \/ Step(v, "none", [step |-> "call"])
      \/ Ends(v)
      \/ file \notin {Absent} \cup Unread /\ Step(v, "none", to)
  BY DEF Look
<1>5. file \notin {Absent} \cup Unread => Working(to, asks[v])
  <2>1. file \in Replies[asks[v]] \cup {Absent} \cup Unread
    BY <1>3 DEF AskInv, FilesInv
  <2> QED
    BY <1>3, <2>1 DEF Working
<1>6. WorkInv'
  BY <1>1, <1>4, <1>5, EndedWorks, EndsWell, StepsWell
<1> QED
  BY <1>1, <1>6

LEMMA CallKeeps ==
  ASSUME AskInv, NEW v \in Visitors, Call(v)
  PROVE  FilesInv' /\ WorkInv'
<1>1. asks' = asks /\ data' = data /\ memory' = memory /\ uniques' = uniques
  BY DEF Call
<1>2. asks[v] \in Questions
  BY AliveAsks DEF Call
<1>3. CASE Ends(v) /\ UNCHANGED answers
  BY <1>1, <1>3, EndsWell DEF AskInv, FilesInv
<1>4. CASE /\ \E r \in Replies[asks[v]] : Step(v, "call", [step |-> "save", request |-> r])
           /\ answers' = [answers EXCEPT ![asks[v]] = Empty]
  <2>1. PICK r \in Replies[asks[v]] : Step(v, "call", [step |-> "save", request |-> r])
    BY <1>4
  <2>2. Working([step |-> "save", request |-> r], asks[v])
    BY <1>2 DEF Working
  <2>3. WorkInv'
    BY <1>1, <2>1, <2>2, StepsWell
  <2>4. FilesInv'
    BY <1>1, <1>2, <1>4, FilesKept DEF AskInv, Unread
  <2> QED
    BY <2>3, <2>4
<1> QED
  BY <1>3, <1>4 DEF Call

LEMMA SaveKeeps ==
  ASSUME AskInv, NEW v \in Visitors, Save(v)
  PROVE  FilesInv' /\ WorkInv'
<1> DEFINE q == asks[v]
           w == work[v]
           to == [w EXCEPT !.step = "uniques"]
<1>1. asks' = asks /\ data' = data /\ memory' = memory /\ uniques' = uniques
  BY DEF Save
<1>2. q \in Questions /\ Working(w, q) /\ w.step = "save" /\ Step(v, "save", to)
  BY AliveAsks DEF Save, Step, AskInv
<1>3. w \in [step : {"save", "uniques"}, request : Replies[q]]
  BY <1>2, WorkingIs
<1>4. Working(to, q)
  <2>1. to \in [step : {"save", "uniques"}, request : Replies[q]]
    BY <1>3
  <2> QED
    BY <1>2, <2>1 DEF Working
<1>5. WorkInv'
  BY <1>1, <1>2, <1>4, StepsWell
<1>6. PICK f \in Written(answers[q], w.request) : answers' = [answers EXCEPT ![q] = f]
  BY DEF Save
<1>7. f \in Replies[q] \cup {Absent} \cup Unread
  BY <1>3, <1>6 DEF Written, Unread
<1>8. FilesInv'
  BY <1>1, <1>2, <1>6, <1>7, FilesKept DEF AskInv
<1> QED
  BY <1>5, <1>8

LEMMA LoadUniquesKeeps ==
  ASSUME AskInv, NEW v \in Visitors, LoadUniques(v)
  PROVE  FilesInv' /\ WorkInv'
<1> DEFINE q == asks[v]
           w == work[v]
           known == IF uniques = Absent THEN [k \in {} |-> FALSE] ELSE uniques
           to == [step |-> "check", request |-> w.request, known |-> known]
<1>1. asks' = asks /\ FilesInv'
  BY DEF LoadUniques, AskInv, FilesInv
<1>2. q \in Questions /\ Working(w, q) /\ w.step = "uniques"
  BY AliveAsks DEF LoadUniques, AskInv
<1>3. Ends(v) \/ (uniques \notin Unread /\ Step(v, "uniques", to))
  <2>1. CASE uniques \in Unread
    BY <2>1 DEF LoadUniques
  <2>2. CASE uniques \notin Unread
    <3>1. LET k == IF uniques = Absent THEN [k \in {} |-> FALSE] ELSE uniques
          IN  Step(v, "uniques", [step |-> "check", request |-> w.request, known |-> k])
      BY <2>2, Zenon DEF LoadUniques
    <3> QED
      BY <2>2, <3>1, Zenon
  <2> QED
    BY <2>1, <2>2
<1>4. w.request \in Replies[q]
  BY <1>2, WorkingIs
<1>5. uniques \notin Unread => DOMAIN known \subseteq Targets /\ known \in [DOMAIN known -> BOOLEAN]
  BY DEF AskInv, FilesInv
<1>6. uniques \notin Unread => Working(to, q)
  <2> HIDE DEF known
  <2>1. /\ to = [step |-> "check", request |-> to.request, known |-> to.known]
        /\ to.known = known /\ to.request = w.request
    OBVIOUS
  <2> HIDE DEF to
  <2> QED
    BY <1>2, <1>4, <1>5, <2>1 DEF Working
<1> HIDE DEF to
<1>7. WorkInv'
  BY <1>1, <1>3, <1>6, EndsWell, StepsWell
<1> QED
  BY <1>1, <1>7

LEMMA CheckUniquesKeeps ==
  ASSUME AskInv, NEW v \in Visitors, CheckUniques(v)
  PROVE  FilesInv' /\ WorkInv'
<1> DEFINE q == asks[v]
           w == work[v]
           more == [k \in Targets |-> IF k \in DOMAIN w.known THEN w.known[k] ELSE IsUnique(data, k)]
           new == Targets \ DOMAIN w.known # {}
           to == [step |-> IF new THEN "record" ELSE "compile", request |-> w.request, known |-> more]
<1>1. asks' = asks /\ data' = data /\ memory' = memory /\ answers' = answers
      /\ uniques' = (IF new THEN Empty ELSE uniques) /\ Step(v, "check", to)
  BY DEF CheckUniques
<1>2. q \in Questions /\ Working(w, q) /\ w.step = "check"
  BY <1>1, AliveAsks DEF Step, AskInv
<1>3. /\ w = [step |-> "check", request |-> w.request, known |-> w.known] /\ w.request \in Replies[q]
      /\ DOMAIN w.known \subseteq Targets /\ w.known \in [DOMAIN w.known -> BOOLEAN]
  BY <1>2, WorkingIs
<1>4. more \in [Targets -> BOOLEAN]
  <2>1. \A k \in Targets : IsUnique(data, k) \in BOOLEAN
    BY DEF IsUnique
  <2> QED
    BY <1>3, <2>1
<1> HIDE DEF more
<1>5. to \in [step : {"record", "compile"}, request : Replies[q], known : [Targets -> BOOLEAN]]
  BY <1>3, <1>4
<1>6. Working(to, q)
  BY <1>2, <1>5 DEF Working
<1> HIDE DEF to
<1>7. WorkInv'
  BY <1>1, <1>6, StepsWell
<1>8. FilesInv'
  BY <1>1 DEF AskInv, FilesInv, Unread
<1> QED
  BY <1>7, <1>8

LEMMA RecordKeeps ==
  ASSUME AskInv, NEW v \in Visitors, Record(v)
  PROVE  FilesInv' /\ WorkInv'
<1> DEFINE q == asks[v]
           w == work[v]
           to == [w EXCEPT !.step = "compile"]
           All == [step : {"record", "compile"}, request : Replies[q], known : [Targets -> BOOLEAN]]
<1>1. asks' = asks /\ data' = data /\ memory' = memory /\ answers' = answers
      /\ uniques' \in Written(uniques, w.known) /\ Step(v, "record", to)
  BY DEF Record
<1>2. q \in Questions /\ Working(w, q) /\ w.step = "record"
  BY <1>1, AliveAsks DEF Step, AskInv
<1>3. w \in All
  BY <1>2, WorkingIs
<1>4. to \in All
  BY <1>3
<1>5. Working(to, q)
  BY <1>2, <1>4 DEF Working
<1>6. WorkInv'
  BY <1>1, <1>5, StepsWell
<1>7. uniques' \in [Targets -> BOOLEAN] \cup {Absent} \cup Unread
  <2>1. w.known \in [Targets -> BOOLEAN]
    BY <1>3
  <2> QED
    BY <1>1, <2>1 DEF Written, Unread
<1>8. FilesInv'
  BY <1>1, <1>7 DEF AskInv, FilesInv
<1> QED
  BY <1>6, <1>8

LEMMA AnswerKeeps ==
  ASSUME AskInv, NEW v \in Visitors, Answer(v)
  PROVE  FilesInv' /\ WorkInv'
<1> DEFINE q == asks[v]
           w == work[v]
           blocks == Plan(w.request, True(w.known))
<1>1. asks' = asks /\ FilesInv'
  BY DEF Answer, Give, AskInv, FilesInv
<1>2. proc[v] = "alive" /\ w.step = "compile" /\ Give(v, blocks, Routed(blocks))
  BY DEF Answer
<1>3. q \in Questions /\ Working(w, q)
  BY <1>2, AliveAsks DEF AskInv
<1>4. w.request \in Replies[q] /\ w.known \in [Targets -> BOOLEAN]
  <2>1. w \in [step : {"record", "compile"}, request : Replies[q], known : [Targets -> BOOLEAN]]
    BY <1>2, <1>3, WorkingIs
  <2> QED
    BY <2>1
<1> HIDE DEF blocks
<1> DEFINE to == [step |-> "answered", request |-> w.request, known |-> w.known, blocks |-> blocks,
                  route |-> Routed(blocks)]
<1>5. Ends(v) \/ Step(v, "compile", to)
  BY <1>2 DEF Give
<1>6. Working(to, q)
  <2>1. to.step = "answered" /\ to.request = w.request /\ to.known = w.known /\ to.blocks = blocks
    OBVIOUS
  <2> HIDE DEF to
  <2> QED
    BY <1>3, <1>4, <2>1 DEF Working, blocks
<1> HIDE DEF to
<1>7. WorkInv'
  BY <1>1, <1>5, <1>6, EndsWell, StepsWell
<1> QED
  BY <1>1, <1>7

LEMMA AskKeeps == AskInv /\ [Next]_vars => AskInv'
<1> SUFFICES ASSUME AskInv, [Next]_vars PROVE AskInv'
  OBVIOUS
<1>1. SlotsInv' /\ here' \in [Visitors -> BOOLEAN] /\ AskedInv'
  BY AskSlots
<1>2. FilesInv' /\ WorkInv'
  <2>1. CASE UNCHANGED vars
    BY <2>1 DEF vars, askVars, AskInv, FilesInv, WorkInv
  <2>2. CASE Load
    <3>1. data' \in Warehouses
      BY <2>2, AskAssumption DEF Load
    <3> QED
      BY <2>2, <3>1 DEF Load, AskInv, FilesInv, WorkInv
  <2>3. ASSUME NEW v \in Visitors, Server(v) PROVE FilesInv' /\ WorkInv'
    BY <2>3 DEF Server, askVars, AskInv, FilesInv, WorkInv
  <2>4. ASSUME NEW v \in Visitors, Process(v) PROVE FilesInv' /\ WorkInv'
    <3>1. CASE Finish(v)
      BY <3>1, EndsWell DEF Finish, AskInv, FilesInv
    <3> QED
      BY <2>4, <3>1, LookKeeps, CallKeeps, SaveKeeps, LoadUniquesKeeps, CheckUniquesKeeps, RecordKeeps, AnswerKeeps
         DEF Process
  <2> QED
    BY <2>1, <2>2, <2>3, <2>4 DEF Next
<1> QED
  BY <1>1, <1>2 DEF AskInv, WorkInv

LEMMA AskInvariant == Spec => []AskInv
  BY AskInit, AskKeeps, PTL DEF Spec

THEOREM AskTypes == Spec => []TypeOK
<1>1. AskInv => TypeOK
  <2> SUFFICES ASSUME AskInv PROVE TypeOK
    OBVIOUS
  <2>1. free \in 0 .. Slots
    BY HoldingFinite, MethodsAssumption DEF AskInv, SlotsInv
  <2>2. \A v \in Visitors : work[v].step \in
       {"none", "call", "save", "uniques", "check", "record", "compile", "answered", "done"}
    BY WorkingIs DEF AskInv
  <2> QED
    BY <2>1, <2>2 DEF AskInv, SlotsInv, FilesInv, TypeOK
<1> QED
  BY <1>1, AskInvariant, PTL

-----------------------------------------------------------------------------
(* The answers *)

\* What an answer being given is made of.
LEMMA AnsweringIs ==
  ASSUME AskInv, NEW v \in Visitors, Answering(v)
  PROVE  /\ work[v].request \in Request /\ work[v].known \in [Targets -> BOOLEAN]
         /\ work[v].blocks = Plan(work[v].request, True(work[v].known))
<1>1. Working(work[v], asks[v]) /\ work[v].step = "answered"
  BY DEF AskInv, Answering
<1>2. /\ asks[v] \in Questions /\ work[v].request \in Replies[asks[v]] /\ work[v].known \in [Targets -> BOOLEAN]
      /\ work[v].blocks = Plan(work[v].request, True(work[v].known))
  BY <1>1, WorkingIs
<1> QED
  BY <1>2, AskAssumption

\* A block of it comes of one of its groups, as every group has one.
LEMMA CompiledFrom ==
  ASSUME AskInv, NEW v \in Visitors, NEW b \in Compiled(v)
  PROVE  LET request == work[v].request
             unique == True(work[v].known)
             groups == Groups(request, unique)
             facts == FactsOf(groups)
         IN  /\ request \in Request /\ work[v].known \in [Targets -> BOOLEAN]
             /\ groups \in Seq(Group)
             /\ \E i \in DOMAIN groups : \E t : From(b, groups[i], t, request, facts, Len(groups) > 1, unique)
             /\ \A i \in DOMAIN groups : \E c \in Compiled(v) : \E t :
                  From(c, groups[i], t, request, facts, Len(groups) > 1, unique)
<1> DEFINE request == work[v].request
           unique == True(work[v].known)
           groups == Groups(request, unique)
           blocks == Plan(request, unique)
<1>1. Answering(v) /\ work[v].blocks # Nil /\ Compiled(v) = ToSet(work[v].blocks)
  BY DEF Compiled
<1>2. request \in Request /\ work[v].known \in [Targets -> BOOLEAN] /\ work[v].blocks = blocks
  BY <1>1, AnsweringIs
<1> HIDE DEF request, unique, blocks
<1>3. blocks # Nil /\ Compiled(v) = {blocks[i] : i \in DOMAIN blocks}
  BY <1>1, <1>2 DEF ToSet
<1>4. /\ DOMAIN blocks = DOMAIN groups
      /\ \A i \in DOMAIN groups : \E t :
           From(blocks[i], groups[i], t, request, FactsOf(groups), Len(groups) > 1, unique)
  BY <1>2, <1>3, PlanIs DEF blocks
<1>5. groups \in Seq(Group)
  BY <1>2, GroupsAre
<1> HIDE DEF groups
<1>6. PICK i \in DOMAIN groups : b = blocks[i]
  BY <1>3, <1>4
<1>7. \A j \in DOMAIN groups : \E c \in Compiled(v) : \E t :
        From(c, groups[j], t, request, FactsOf(groups), Len(groups) > 1, unique)
  BY <1>3, <1>4
<1>8. \E j \in DOMAIN groups : \E t : From(b, groups[j], t, request, FactsOf(groups), Len(groups) > 1, unique)
  BY <1>4, <1>6
<1> QED
  BY <1>2, <1>5, <1>7, <1>8 DEF request, unique, groups

\* A filter on one table is in a block of the answer: if it is kept from one,
\* it is about the fact of another, which it isn't kept from.
LEMMA FilterApplied ==
  ASSUME AskInv, NEW v \in Visitors, Compiled(v) # {}, NEW f \in ToSet(work[v].request.filters),
         NEW T, TablesOf({f}) = {T}
  PROVE  \E b \in Compiled(v) : f \in b.where
<1> DEFINE request == work[v].request
           unique == True(work[v].known)
           groups == Groups(request, unique)
           facts == FactsOf(groups)
           several == Len(groups) > 1
           reached(t) == \A u \in TablesOf({f}) : Reaches(t, u, unique)
<1>1. PICK b \in Compiled(v) : TRUE
  OBVIOUS
<1>2. /\ \E i \in DOMAIN groups : \E t : From(b, groups[i], t, request, facts, several, unique)
      /\ \A i \in DOMAIN groups : \E c \in Compiled(v) : \E t : From(c, groups[i], t, request, facts, several, unique)
  BY CompiledFrom
<1> HIDE DEF request, unique, groups, facts, several, reached
<1>3. PICK i \in DOMAIN groups : \E t : From(b, groups[i], t, request, facts, several, unique)
  BY <1>2
<1>4. PICK t : From(b, groups[i], t, request, facts, several, unique)
  BY <1>3
<1>5. CASE Applies(f, facts \ {groups[i].fact, t}, several, reached(t))
  <2>1. f \in b.where
    BY <1>4, <1>5 DEF From, request, reached
  <2> QED
    BY <2>1
<1>6. CASE ~ Applies(f, facts \ {groups[i].fact, t}, several, reached(t))
  <2>1. T \in facts
    BY <1>6 DEF Applies
  <2>2. PICK j \in DOMAIN groups : groups[j].fact = T
    BY <2>1 DEF facts, FactsOf
  <2>3. PICK c \in Compiled(v) : \E u : From(c, groups[j], u, request, facts, several, unique)
    BY <1>2
  <2>4. PICK u : From(c, groups[j], u, request, facts, several, unique)
    BY <2>3
  <2>5. Applies(f, facts \ {groups[j].fact, u}, several, reached(u))
    BY <2>2 DEF Applies
  <2>6. f \in c.where
    BY <2>4, <2>5 DEF From, request, reached
  <2> QED
    BY <2>6
<1> QED
  BY <1>5, <1>6

\* "No block silently drops a filter": one on one table is in some block's
\* WHERE (Ask.NoPlainFilterLost), whatever the request, its groups and their
\* facts, and whatever was found unique.
THEOREM NoPlainFilterIsLost == Spec => []NoPlainFilterLost
<1>1. AskInv => NoPlainFilterLost
  <2> SUFFICES ASSUME AskInv, NEW v \in Visitors, Compiled(v) # {}, NEW f \in ToSet(work[v].request.filters),
                      Cardinality(TablesOf({f})) = 1
               PROVE  \E b \in Compiled(v) : f \in b.where
    BY DEF NoPlainFilterLost
  <2>1. PICK b \in Compiled(v) : TRUE
    OBVIOUS
  <2>2. work[v].request \in Request
    BY CompiledFrom
  <2>3. f \in Condition
    <3>1. work[v].request.filters \in Seq(Condition)
      BY <2>2 DEF Request
    <3> QED
      BY <3>1 DEF ToSet
  <2>4. IsFiniteSet(TablesOf({f}))
    <3>1. TablesOf({f}) \subseteq Tables /\ IsFiniteSet(Tables)
      BY <2>3, ConditionTables, CatalogueAssumption
    <3> QED
      BY <3>1, FS_Subset
  <2>5. PICK T : TablesOf({f}) = {T}
    BY <2>4, FS_Singleton
  <2> QED
    BY <2>5, FilterApplied
<1> QED
  BY <1>1, AskInvariant, PTL

\* Where what was found unique still is, a block's joins are as FactIsOnce
\* takes them.
LEMMA StillSingle ==
  ASSUME NEW v \in Visitors, NEW b, NEW t, Sound(b, t, True(work[v].known)), StillUnique(v, b)
  PROVE  SingleJoins(data, b)
<1>1. \A s \in ToSet(b.joins) : s.to # b.fact /\ work[v].known[<<s.to, s.theirs>>]
  BY DEF Sound, True
<1> QED
  BY <1>1 DEF SingleJoins, StillUnique

LEMMA LoneIsOnce ==
  ASSUME AskInv, NEW v \in Visitors, Len(work[v].request.measures) = 1,
         NEW i, NEW t, NEW b, NEW facts, NEW several,
         i \in DOMAIN Groups(work[v].request, True(work[v].known)), work[v].request \in Request,
         From(b, Groups(work[v].request, True(work[v].known))[i], t, work[v].request, facts, several,
              True(work[v].known)),
         NEW m \in ToSet(b.measures), ~ Safe(m), m.table # Nil
  PROVE  m.table = t
<1> DEFINE request == work[v].request
           unique == True(work[v].known)
           x == request.measures[1]
           g == [fact |-> x.table, measures |-> <<x>>, per |-> x.per]
<1>1. Groups(request, unique) = <<g>>
  BY GroupsAre
<1>2. From(b, g, t, request, facts, several, unique)
  <2>1. i = 1
    BY <1>1
  <2> QED
    BY <1>1, <2>1
<1>3. b.measures = <<x>> /\ (x.table # Nil => t = x.table \/ MayBe(g, t))
  BY <1>2 DEF From
<1>4. m = x
  BY <1>3 DEF ToSet
<1>5. MayBe(g, t) => Safe(x) \/ x.table = t
  <2>1. x \in ToSet(g.measures)
    BY DEF ToSet
  <2> QED
    BY <2>1 DEF MayBe
<1> QED
  BY <1>3, <1>4, <1>5

\* The joins of a block multiply nothing, while what was found unique is
\* (Ask.OncePerRow): the fact's rows are there once each, all of them past
\* outer joins; and the rows of a lone measure that repeated rows would change,
\* for it is on the fact.
THEOREM JoinsMultiplyNoRows == Spec => []OncePerRow
<1>1. AskInv => OncePerRow
  <2> SUFFICES ASSUME AskInv, NEW v \in Visitors, NEW b \in Compiled(v), StillUnique(v, b)
               PROVE  /\ FactOnce(b, JoinedRows(data, b))
                      /\ Len(work[v].request.measures) = 1 => LoneOnce(b, JoinedRows(data, b))
    BY DEF OncePerRow
  <2> DEFINE request == work[v].request
             unique == True(work[v].known)
             groups == Groups(request, unique)
             facts == FactsOf(groups)
             several == Len(groups) > 1
  <2>1. request \in Request /\ \E i \in DOMAIN groups : \E t : From(b, groups[i], t, request, facts, several, unique)
    BY CompiledFrom
  <2> HIDE DEF facts, several
  <2>0. PICK i \in DOMAIN groups : \E t : From(b, groups[i], t, request, facts, several, unique)
    BY <2>1
  <2>2. PICK t : From(b, groups[i], t, request, facts, several, unique)
    BY <2>0
  <2>3. t \in Tables /\ Sound(b, t, unique)
    BY <2>2 DEF From
  <2>4. b.fact = t /\ b.joins \in Seq(Steps) /\ SingleJoins(data, b)
    BY <2>3, StillSingle DEF Sound
  <2>5. data \in Warehouses
    BY DEF AskInv, FilesInv
  <2>6. /\ Once(JoinedRows(data, b), b.fact)
        /\ (\A s \in ToSet(b.joins) : Outer(s)) => Cardinality(JoinedRows(data, b)) = Len(data[b.fact])
    BY <2>3, <2>4, <2>5, FactIsOnce
  <2>7. FactOnce(b, JoinedRows(data, b))
    BY <2>6 DEF FactOnce
  <2>8. ASSUME Len(request.measures) = 1, NEW m \in ToSet(b.measures), ~ Safe(m), m.table # Nil
        PROVE  Once(JoinedRows(data, b), m.table)
    <3>1. m.table = t
      BY <2>1, <2>2, <2>8, LoneIsOnce
    <3> QED
      BY <2>4, <2>6, <3>1
  <2> QED
    BY <2>7, <2>8 DEF LoneOnce
<1> QED
  BY <1>1, AskInvariant, PTL

LEMMA InOrderOnto ==
  ASSUME NEW S, IsFiniteSet(S), Numbers(S)
  PROVE  \A x \in S : \E i \in DOMAIN InOrder(S, <) : InOrder(S, <)[i] = x
  BY InOrderIs, OrderedOnce

-----------------------------------------------------------------------------
(* The routes of a fact agree on the tables they share *)

Within(p, start, unique) == \* a way out of a table, along steps that multiply nothing
  /\ p[1].from = start
  /\ \A i \in 1 .. Len(p) : <<p[i].to, p[i].theirs>> \in unique
  /\ \A i \in 1 .. Len(p) - 1 : p[i].to = p[i + 1].from

LEMMA RouteIs ==
  ASSUME NEW start, NEW goal, NEW unique, start # goal, NEW p
  PROVE  p \in Routes(start, goal, unique) <=>
           \E n \in 1 .. Hops : p \in [1 .. n -> Steps] /\ Len(p) = n /\ n \in Nat
                                 /\ Within(p, start, unique) /\ p[n].to = goal
<1>1. Hops \in Nat
  BY CatalogueAssumption
<1>2. \A n \in 1 .. Hops : n \in Nat /\ (p \in [1 .. n -> Steps] => Len(p) = n)
  <2> SUFFICES ASSUME NEW n \in 1 .. Hops PROVE n \in Nat /\ (p \in [1 .. n -> Steps] => Len(p) = n)
    OBVIOUS
  <2>1. n \in Nat
    BY <1>1
  <2> QED
    BY <2>1, BySeq
<1>3. p \in Routes(start, goal, unique) <=> (\E n \in 1 .. Hops : p \in [1 .. n -> Steps]) /\ IsRoute(p, start, goal, unique)
  BY DEF Routes
<1> QED
  BY <1>2, <1>3 DEF IsRoute, Within

LEMMA StepsDiffer ==
  ASSUME NEW s \in Steps, NEW t \in Steps, StepBefore(s, t)
  PROVE  ~ StepBefore(t, s) /\ s # t
  BY StepIs DEF StepBefore

\* No other route comes before the one found.
LEMMA RouteLeast ==
  ASSUME NEW start, NEW goal, NEW unique, start # goal, Reaches(start, goal, unique),
         NEW q \in Routes(start, goal, unique)
  PROVE  Route(start, goal, unique) = q \/ RouteBefore(Route(start, goal, unique), q)
<1> QED
  BY RouteFirst

LEMMA Shorter ==
  ASSUME NEW start, NEW goal, NEW unique, start # goal, Reaches(start, goal, unique),
         NEW q \in Routes(start, goal, unique)
  PROVE  Len(Route(start, goal, unique)) <= Len(q)
<1>1. PICK p : p = Route(start, goal, unique)
  OBVIOUS
<1>2. p = q \/ RouteBefore(p, q)
  BY <1>1, RouteLeast
<1>3. Len(p) \in Nat /\ Len(q) \in Nat
  BY <1>1, RouteFound, RouteIs
<1>4. p = q \/ Len(p) < Len(q) \/ Len(p) = Len(q)
  BY <1>2 DEF RouteBefore
<1> QED
  BY <1>1, <1>3, <1>4

\* The suffix of a way that comes back to its start is a way as well, and shorter.
LEMMA NeverBack ==
  ASSUME NEW start, NEW goal, NEW unique, start # goal, Reaches(start, goal, unique),
         NEW k \in 1 .. Len(Route(start, goal, unique))
  PROVE  Route(start, goal, unique)[k].to # start
<1> SUFFICES ASSUME Route(start, goal, unique)[k].to = start PROVE FALSE
  OBVIOUS
<1>1. PICK p : p = Route(start, goal, unique)
  OBVIOUS
<1>2. PICK n \in 1 .. Hops : p \in [1 .. n -> Steps] /\ Len(p) = n /\ n \in Nat /\ Within(p, start, unique) /\ p[n].to = goal
  BY <1>1, RouteFound, RouteIs
<1>3. k \in 1 .. n /\ p[k].to = start /\ k # n /\ n - k \in 1 .. Hops
  BY <1>1, <1>2, CatalogueAssumption
<1> DEFINE q == [i \in 1 .. n - k |-> p[i + k]]
<1>4. q \in [1 .. n - k -> Steps] /\ Len(q) = n - k /\ n - k \in Nat
  BY <1>2, <1>3
<1>5. Within(q, start, unique)
  <2>1. q[1].from = start
    <3>1. q[1] = p[1 + k] /\ p[k].to = p[k + 1].from /\ 1 + k = k + 1
      BY <1>2, <1>3 DEF Within
    <3> QED
      BY <1>3, <3>1
  <2>2. \A i \in 1 .. Len(q) : <<q[i].to, q[i].theirs>> \in unique
    <3> SUFFICES ASSUME NEW i \in 1 .. Len(q) PROVE <<q[i].to, q[i].theirs>> \in unique
      OBVIOUS
    <3>1. i + k \in 1 .. Len(p) /\ q[i] = p[i + k]
      BY <1>2, <1>3, <1>4
    <3> HIDE DEF q
    <3> QED
      BY <1>2, <3>1 DEF Within
  <2>3. \A i \in 1 .. Len(q) - 1 : q[i].to = q[i + 1].from
    <3> SUFFICES ASSUME NEW i \in 1 .. Len(q) - 1 PROVE q[i].to = q[i + 1].from
      OBVIOUS
    <3>1. i + k \in 1 .. Len(p) - 1 /\ q[i] = p[i + k] /\ q[i + 1] = p[(i + k) + 1]
      <4>1. i \in 1 .. n - k /\ i + 1 \in 1 .. n - k /\ (i + 1) + k = (i + k) + 1
        BY <1>3, <1>4
      <4>2. i + k \in 1 .. Len(p) - 1
        BY <1>2, <1>3, <1>4
      <4> QED
        BY <4>1, <4>2
    <3> HIDE DEF q
    <3> QED
      BY <1>2, <3>1 DEF Within
  <2> QED
    BY <2>1, <2>2, <2>3 DEF Within
<1>6. q[n - k].to = goal
  <2>1. n - k \in 1 .. n - k /\ (n - k) + k = n
    BY <1>2, <1>3
  <2>2. q[n - k] = p[n]
    BY <2>1
  <2> QED
    BY <1>2, <2>2
<1> HIDE DEF q
<1>7. q \in Routes(start, goal, unique)
  BY <1>3, <1>4, <1>5, <1>6, RouteIs
<1>8. n <= n - k
  BY <1>1, <1>2, <1>4, <1>7, Shorter
<1> QED
  BY <1>2, <1>3, <1>8

Prefixed(p, k) == [i \in 1 .. k |-> p[i]]
LEMMA PrefixWay ==
  ASSUME NEW p, NEW n \in Nat, p \in [1 .. n -> Steps], NEW k \in 1 .. n, NEW start, NEW unique, Within(p, start, unique)
  PROVE  /\ Prefixed(p, k) \in [1 .. k -> Steps] /\ Len(Prefixed(p, k)) = k
         /\ Within(Prefixed(p, k), start, unique) /\ Prefixed(p, k)[k] = p[k]
<1> DEFINE q == Prefixed(p, k)
<1>0. Len(p) = n /\ k \in Nat
  OBVIOUS
<1>1. q \in [1 .. k -> Steps] /\ \A i \in 1 .. k : q[i] = p[i]
  BY DEF Prefixed
<1>2. Len(q) = k
  BY <1>0, <1>1, BySeq
<1> HIDE DEF q
<1>3. \A i \in 1 .. k : i \in 1 .. n
  OBVIOUS
<1>4. Within(q, start, unique)
  <2>1. q[1].from = start
    <3>1. 1 \in 1 .. k
      OBVIOUS
    <3> QED
      BY <1>1, <3>1 DEF Within
  <2>2. \A i \in 1 .. Len(q) : <<q[i].to, q[i].theirs>> \in unique
    BY <1>0, <1>1, <1>2, <1>3 DEF Within
  <2>3. \A i \in 1 .. Len(q) - 1 : q[i].to = q[i + 1].from
    <3> SUFFICES ASSUME NEW i \in 1 .. Len(q) - 1 PROVE q[i].to = q[i + 1].from
      OBVIOUS
    <3>1. i \in 1 .. k /\ i + 1 \in 1 .. k /\ i \in 1 .. Len(p) - 1
      BY <1>0, <1>2
    <3> QED
      BY <1>1, <3>1 DEF Within
  <2> QED
    BY <2>1, <2>2, <2>3 DEF Within
<1>5. q[k] = p[k]
  BY <1>1
<1> QED
  BY <1>1, <1>2, <1>4, <1>5 DEF q

\* A way to where another has come to, and on as that one goes.
Way(q, m, start, goal, unique) ==
  /\ q \in [1 .. m -> Steps] /\ Len(q) = m /\ m \in Nat /\ m # 0
  /\ Within(q, start, unique) /\ q[m].to = goal
Onwards(r, l, p, n, k) == [i \in 1 .. l + (n - k) |-> IF i <= l THEN r[i] ELSE p[i - l + k]]
LEMMA OnwardsWay ==
  ASSUME NEW start, NEW unique,
         NEW p, NEW n \in Nat, p \in [1 .. n -> Steps], Within(p, start, unique), NEW k \in 1 .. n,
         NEW r, NEW l \in Nat, l # 0, r \in [1 .. l -> Steps], Within(r, start, unique), r[l].to = p[k].to
  PROVE  Way(Onwards(r, l, p, n, k), l + (n - k), start, p[n].to, unique)
<1> DEFINE q == Onwards(r, l, p, n, k)
           m == l + (n - k)
<1>0. Len(p) = n /\ k \in Nat /\ Len(r) = l /\ m \in Nat /\ m # 0
  OBVIOUS
<1>1. \A i \in 1 .. m : /\ i <= l => i \in 1 .. l /\ q[i] = r[i]
                        /\ ~ (i <= l) => (i - l + k \in 1 .. n) /\ q[i] = p[i - l + k]
  <2> SUFFICES ASSUME NEW i \in 1 .. m
               PROVE  /\ i <= l => i \in 1 .. l /\ q[i] = r[i]
                      /\ ~ (i <= l) => (i - l + k \in 1 .. n) /\ q[i] = p[i - l + k]
    OBVIOUS
  <2>1. q[i] = IF i <= l THEN r[i] ELSE p[i - l + k]
    BY DEF Onwards
  <2> QED
    BY <1>0, <2>1
<1>2. q = [i \in 1 .. m |-> q[i]]
  BY DEF Onwards
<1> HIDE DEF q
<1>3. \A i \in 1 .. m : q[i] \in Steps /\ <<q[i].to, q[i].theirs>> \in unique
  <2> SUFFICES ASSUME NEW i \in 1 .. m PROVE q[i] \in Steps /\ <<q[i].to, q[i].theirs>> \in unique
    OBVIOUS
  <2>1. CASE i <= l
    BY <1>0, <1>1, <2>1 DEF Within
  <2>2. CASE ~ (i <= l)
    BY <1>0, <1>1, <2>2 DEF Within
  <2> QED
    BY <2>1, <2>2
<1>4. q \in [1 .. m -> Steps] /\ Len(q) = m
  <2>1. q \in [1 .. m -> Steps]
    BY <1>2, <1>3
  <2> QED
    BY <1>0, <2>1, BySeq
<1>5. q[1].from = start
  <2>1. 1 \in 1 .. m /\ 1 <= l
    BY <1>0
  <2> QED
    BY <1>1, <2>1 DEF Within
<1>6. ASSUME NEW i \in 1 .. m - 1 PROVE q[i].to = q[i + 1].from
  <2>0. i \in 1 .. m /\ i + 1 \in 1 .. m
    BY <1>0
  <2>1. CASE i < l
    <3>1. i <= l /\ i + 1 <= l /\ i \in 1 .. Len(r) - 1
      BY <1>0, <2>0, <2>1
    <3>2. q[i] = r[i] /\ q[i + 1] = r[i + 1]
      BY <1>1, <2>0, <3>1
    <3> QED
      BY <3>1, <3>2 DEF Within
  <2>2. CASE i = l
    <3>1. i <= l /\ ~ (i + 1 <= l) /\ (i + 1) - l + k = k + 1 /\ k \in 1 .. Len(p) - 1
      BY <1>0, <2>0, <2>2
    <3>2. q[i] = r[l] /\ q[i + 1] = p[k + 1]
      BY <1>1, <2>0, <2>2, <3>1
    <3> QED
      BY <3>1, <3>2 DEF Within
  <2>3. CASE i > l
    <3>1. ~ (i <= l) /\ ~ (i + 1 <= l) /\ (i + 1) - l + k = (i - l + k) + 1 /\ i - l + k \in 1 .. Len(p) - 1
      BY <1>0, <2>0, <2>3
    <3>2. q[i] = p[i - l + k] /\ q[i + 1] = p[(i - l + k) + 1]
      BY <1>1, <2>0, <3>1
    <3> QED
      BY <3>1, <3>2 DEF Within
  <2> QED
    BY <1>0, <2>1, <2>2, <2>3
<1>7. Within(q, start, unique)
  BY <1>3, <1>4, <1>5, <1>6 DEF Within
<1>8. q[m].to = p[n].to
  <2>1. m \in 1 .. m
    BY <1>0
  <2>2. CASE k = n
    BY <1>0, <1>1, <2>1, <2>2
  <2>3. CASE k # n
    <3>1. ~ (m <= l) /\ m - l + k = n
      BY <1>0, <2>3
    <3> QED
      BY <1>1, <2>1, <3>1
  <2> QED
    BY <2>2, <2>3
<1> QED
  BY <1>0, <1>4, <1>7, <1>8 DEF Way, q

\* The last step to a table; the steps that are one.
LastStep(fact, t, unique) == LET r == Route(fact, t, unique) IN r[Len(r)]
Arriving(fact, unique) ==
  {s \in Steps : s.to # fact /\ Reaches(fact, s.to, unique) /\ s = LastStep(fact, s.to, unique)}

\* A route's tables are found by the routes that are its beginnings: the search
\* takes the shorter way, then the earlier.
LEMMA RoutesShare ==
  ASSUME NEW start \in Tables, NEW goal, NEW unique, start # goal, Reaches(start, goal, unique),
         NEW k \in 1 .. Len(Route(start, goal, unique))
  PROVE  Route(start, goal, unique)[k] \in Arriving(start, unique)
<1>1. PICK p : p = Route(start, goal, unique)
  OBVIOUS
<1>2. PICK n \in 1 .. Hops : p \in [1 .. n -> Steps] /\ Len(p) = n /\ n \in Nat /\ Within(p, start, unique) /\ p[n].to = goal
  BY <1>1, RouteFound, RouteIs
<1>3. k \in 1 .. n /\ Hops \in Nat
  BY <1>1, <1>2, CatalogueAssumption
<1>4. PICK u : u = p[k].to
  OBVIOUS
<1>5. u # start
  BY <1>1, <1>4, NeverBack
<1> DEFINE before == Prefixed(p, k)
<1>6. before \in [1 .. k -> Steps] /\ Len(before) = k /\ Within(before, start, unique) /\ before[k] = p[k]
  BY <1>2, <1>3, PrefixWay
<1>7. before \in Routes(start, u, unique)
  <2>1. k \in 1 .. Hops /\ k \in Nat
    BY <1>3
  <2> HIDE DEF before
  <2> QED
    BY <1>4, <1>5, <1>6, <2>1, RouteIs
<1>8. Reaches(start, u, unique)
  BY <1>7 DEF Reaches
<1>9. PICK r : r = Route(start, u, unique)
  OBVIOUS
<1>10. PICK l \in 1 .. Hops : r \in [1 .. l -> Steps] /\ Len(r) = l /\ l \in Nat /\ Within(r, start, unique) /\ r[l].to = u
  BY <1>5, <1>8, <1>9, RouteFound, RouteIs
<1>11. l <= k
  <2>1. Len(r) <= Len(before)
    BY <1>5, <1>7, <1>8, <1>9, Shorter
  <2> QED
    BY <1>6, <1>10, <2>1
<1> DEFINE q == Onwards(r, l, p, n, k)
           m == l + (n - k)
<1>12. /\ q \in [1 .. m -> Steps] /\ Len(q) = m /\ m \in Nat /\ m # 0
       /\ Within(q, start, unique) /\ q[m].to = goal
  <2>1. l # 0 /\ r[l].to = p[k].to
    BY <1>4, <1>10
  <2>2. Way(Onwards(r, l, p, n, k), l + (n - k), start, p[n].to, unique)
    <3> HIDE DEF before, q, m
    <3> QED
      BY <1>2, <1>3, <1>10, <2>1, OnwardsWay
  <2>3. p[n].to = goal
    BY <1>2
  <2> QED
    BY <2>2, <2>3 DEF Way
<1>13. \A i \in 1 .. l : q[i] = r[i]
  BY <1>2, <1>3, <1>10 DEF Onwards
<1> HIDE DEF q, before
<1>14. q \in Routes(start, goal, unique)
  <2>1. m \in 1 .. Hops
    BY <1>2, <1>3, <1>10, <1>11, <1>12
  <2> HIDE DEF m
  <2> QED
    BY <1>12, <2>1, RouteIs
<1>15. n <= m
  BY <1>1, <1>2, <1>12, <1>14, Shorter
<1>16. l = k /\ m = n
  BY <1>2, <1>3, <1>10, <1>11, <1>15
<1>17. p = q \/ \E i \in 1 .. n : StepBefore(p[i], q[i]) /\ \A j \in 1 .. i - 1 : p[j] = q[j]
  <2>1. p = q \/ RouteBefore(p, q)
    BY <1>1, <1>14, RouteLeast
  <2>2. Len(p) = n /\ Len(q) = n /\ ~ (Len(p) < Len(q))
    BY <1>2, <1>12, <1>16
  <2> QED
    BY <2>1, <2>2 DEF RouteBefore
<1>18. r = before \/ \E i \in 1 .. k : StepBefore(r[i], before[i]) /\ \A j \in 1 .. i - 1 : r[j] = before[j]
  <2>1. r = before \/ RouteBefore(r, before)
    BY <1>5, <1>7, <1>8, <1>9, RouteLeast
  <2>2. Len(r) = k /\ Len(before) = k /\ ~ (Len(r) < Len(before))
    BY <1>3, <1>6, <1>10, <1>16
  <2> QED
    BY <2>1, <2>2 DEF RouteBefore
<1>19. \A i \in 1 .. k : before[i] = p[i] /\ q[i] = r[i] /\ i \in 1 .. n /\ r[i] \in Steps /\ p[i] \in Steps
  BY <1>2, <1>3, <1>10, <1>13, <1>16 DEF before, Prefixed
<1>20. r[k] = p[k]
  <2>1. CASE r = before
    BY <1>6, <2>1
  <2>2. CASE r # before
    <3>1. PICK i \in 1 .. k : StepBefore(r[i], before[i]) /\ \A j \in 1 .. i - 1 : r[j] = before[j]
      BY <1>18, <2>2
    <3>2. StepBefore(q[i], p[i]) /\ (\A j \in 1 .. i - 1 : q[j] = p[j]) /\ q[i] \in Steps /\ p[i] \in Steps
      BY <1>19, <3>1
    <3>3. p # q
      BY <3>2, StepsDiffer
    <3>4. PICK h \in 1 .. n : StepBefore(p[h], q[h]) /\ \A j \in 1 .. h - 1 : p[j] = q[j]
      BY <1>17, <3>3
    <3>5. p[h] \in Steps /\ q[h] \in Steps
      BY <1>2, <1>12, <1>16
    <3>6. p[h] # q[h] /\ p[i] # q[i]
      BY <3>2, <3>4, <3>5, StepsDiffer
    <3>7. ~ (h < i) /\ ~ (i < h)
      BY <1>3, <3>2, <3>4, <3>6
    <3>8. h = i
      BY <1>3, <3>7
    <3> QED
      BY <3>2, <3>4, <3>8, StepsDiffer
  <2> QED
    BY <2>1, <2>2
<1>21. LastStep(start, u, unique) = p[k]
  BY <1>9, <1>10, <1>16, <1>20 DEF LastStep
<1>22. p[k] \in Steps /\ p[k].to # start /\ Reaches(start, p[k].to, unique) /\ p[k] = LastStep(start, p[k].to, unique)
  BY <1>4, <1>5, <1>8, <1>19, <1>21, <1>3
<1>23. p[k] \in Arriving(start, unique)
  BY <1>22 DEF Arriving
<1> QED
  BY <1>1, <1>23

\* Each from the fact, or from where an earlier one goes.
Chained(fact, js) == \A p \in DOMAIN js : js[p].from = fact \/ \E q \in 1 .. p - 1 : js[q].to = js[p].from

LEMMA RouteChained ==
  ASSUME NEW fact \in Tables, NEW t, NEW unique, fact # t, Reaches(fact, t, unique)
  PROVE  /\ Route(fact, t, unique) \in Seq(Arriving(fact, unique))
         /\ Chained(fact, Route(fact, t, unique))
         /\ \E s \in ToSet(Route(fact, t, unique)) : s.to = t
<1>1. PICK p : p = Route(fact, t, unique)
  OBVIOUS
<1>2. PICK n \in 1 .. Hops : p \in [1 .. n -> Steps] /\ Len(p) = n /\ n \in Nat /\ Within(p, fact, unique) /\ p[n].to = t
  BY <1>1, RouteFound, RouteIs
<1> DEFINE S == Arriving(fact, unique)
<1>3. \A k \in 1 .. n : p[k] \in S
  <2> SUFFICES ASSUME NEW k \in 1 .. n PROVE p[k] \in S
    OBVIOUS
  <2> QED
    BY <1>1, <1>2, RoutesShare
<1> HIDE DEF S
<1>4. p \in Seq(S)
  <2>1. p \in [1 .. n -> S]
    BY <1>2, <1>3
  <2> QED
    BY <1>2, <2>1, BySeq
<1>5. Chained(fact, p)
  <2> SUFFICES ASSUME NEW k \in DOMAIN p PROVE p[k].from = fact \/ \E q \in 1 .. k - 1 : p[q].to = p[k].from
    BY DEF Chained
  <2>1. k \in 1 .. n
    BY <1>2
  <2>2. CASE k = 1
    BY <1>2, <2>2 DEF Within
  <2>3. CASE k # 1
    <3>1. k - 1 \in 1 .. Len(p) - 1 /\ (k - 1) + 1 = k /\ k - 1 \in 1 .. k - 1
      BY <1>2, <2>1, <2>3
    <3>2. p[k - 1].to = p[k].from
      BY <1>2, <3>1 DEF Within
    <3> QED
      BY <3>1, <3>2
  <2> QED
    BY <2>2, <2>3
<1>6. p[n] \in ToSet(p)
  BY <1>2 DEF ToSet
<1> QED
  BY <1>1, <1>2, <1>4, <1>5, <1>6 DEF S

LEMMA ChainedOn ==
  ASSUME NEW S, NEW fact, NEW a \in Seq(S), NEW b \in Seq(S), Chained(fact, a), Chained(fact, b)
  PROVE  Chained(fact, a \o b) /\ ToSet(a \o b) = ToSet(a) \cup ToSet(b)
<1> DEFINE c == a \o b
           n == Len(a)
<1>1. n \in Nat /\ DOMAIN a = 1 .. n /\ DOMAIN b = 1 .. Len(b) /\ Len(b) \in Nat /\ DOMAIN c = 1 .. n + Len(b)
  OBVIOUS
<1>2. \A i \in 1 .. n : c[i] = a[i]
  OBVIOUS
<1>3. \A i \in 1 .. Len(b) : c[n + i] = b[i] /\ n + i \in DOMAIN c
  OBVIOUS
<1>4. \A i \in DOMAIN c : i \in 1 .. n \/ (i - n \in 1 .. Len(b) /\ c[i] = b[i - n])
  OBVIOUS
<1> HIDE DEF c, n
<1>5. Chained(fact, c)
  <2> SUFFICES ASSUME NEW p \in DOMAIN c PROVE c[p].from = fact \/ \E q \in 1 .. p - 1 : c[q].to = c[p].from
    BY DEF Chained
  <2>1. CASE p \in 1 .. n
    <3>1. a[p].from = fact \/ \E q \in 1 .. p - 1 : a[q].to = a[p].from
      BY <1>1, <2>1 DEF Chained
    <3>2. \A q \in 1 .. p - 1 : q \in 1 .. n
      BY <1>1, <2>1
    <3> QED
      BY <1>2, <2>1, <3>1, <3>2
  <2>2. CASE p - n \in 1 .. Len(b) /\ c[p] = b[p - n]
    <3>1. b[p - n].from = fact \/ \E q \in 1 .. (p - n) - 1 : b[q].to = b[p - n].from
      BY <1>1, <2>2 DEF Chained
    <3>2. \A q \in 1 .. (p - n) - 1 : q \in 1 .. Len(b) /\ n + q \in 1 .. p - 1
      BY <1>1, <2>2
    <3> QED
      BY <1>3, <2>2, <3>1, <3>2
  <2> QED
    BY <1>4, <2>1, <2>2
<1>6. ToSet(c) = ToSet(a) \cup ToSet(b)
  <2>1. \A x \in ToSet(c) : x \in ToSet(a) \/ x \in ToSet(b)
    BY <1>1, <1>2, <1>4 DEF ToSet
  <2>2. \A x \in ToSet(a) : x \in ToSet(c)
    <3> SUFFICES ASSUME NEW i \in 1 .. n PROVE a[i] \in ToSet(c)
      BY <1>1 DEF ToSet
    <3>1. i \in DOMAIN c
      BY <1>1
    <3> QED
      BY <1>2, <3>1 DEF ToSet
  <2>3. \A x \in ToSet(b) : x \in ToSet(c)
    <3> SUFFICES ASSUME NEW i \in 1 .. Len(b) PROVE b[i] \in ToSet(c)
      BY <1>1 DEF ToSet
    <3> QED
      BY <1>3 DEF ToSet
  <2> QED
    BY <2>1, <2>2, <2>3
<1> QED
  BY <1>5, <1>6 DEF c

LEMMA FlattenChained ==
  ASSUME NEW S, NEW seqs \in Seq(Seq(S)), NEW fact, \A i \in 1 .. Len(seqs) : Chained(fact, seqs[i])
  PROVE  /\ Chained(fact, FlattenSeq(seqs))
         /\ \A x : x \in ToSet(FlattenSeq(seqs)) <=> \E i \in 1 .. Len(seqs) : x \in ToSet(seqs[i])
<1>1. PICK h : Flattens(h, seqs, S)
  BY FlattenFold
<1> DEFINE n == Len(seqs)
           Good(k) == /\ Chained(fact, h[k])
                      /\ \A x : x \in ToSet(h[k]) <=> \E i \in 1 .. k : x \in ToSet(seqs[i])
           B == {k \in 0 .. n : ~ Good(k)}
<1>2. n \in Nat /\ \A i \in 1 .. n : seqs[i] \in Seq(S)
  OBVIOUS
<1> HIDE DEF Good
<1>3. B = {}
  <2> SUFFICES ASSUME B # {} PROVE FALSE
    OBVIOUS
  <2>1. PICK k \in B : \A m \in B : k <= m
    <3>1. B \in SUBSET Nat
      OBVIOUS
    <3> HIDE DEF B
    <3> QED
      BY <3>1, LeastNumber
  <2>2. k # 0
    <3>1. h[0] = <<>>
      BY <1>1 DEF Flattens
    <3>2. Chained(fact, <<>>) /\ ToSet(<<>>) = {}
      BY DEF Chained, ToSet
    <3>3. \A x : x \notin ToSet(h[0]) /\ ~ \E i \in 1 .. 0 : x \in ToSet(seqs[i])
      BY <3>1, <3>2
    <3>4. Good(0)
      BY <3>1, <3>2, <3>3, Zenon DEF Good
    <3> QED
      BY <3>4
  <2>3. k \in 1 .. n /\ k - 1 \in 0 .. n /\ k - 1 \notin B
    BY <1>2, <2>1, <2>2
  <2>4. Good(k - 1)
    BY <2>3
  <2>5. PICK a \in Seq(S) : a = h[k - 1] /\ h[k] = a \o seqs[k]
    BY <1>1, <2>3 DEF Flattens
  <2>6. PICK b \in Seq(S) : b = seqs[k] /\ Chained(fact, b)
    BY <1>2, <2>3
  <2>7. \A i : i \in 1 .. k <=> i = k \/ i \in 1 .. k - 1
    BY <2>3
  <2>8. Chained(fact, h[k - 1]) /\ \A x : x \in ToSet(h[k - 1]) <=> \E i \in 1 .. k - 1 : x \in ToSet(seqs[i])
    BY <2>4, Zenon DEF Good
  <2>9. Chained(fact, a \o b) /\ ToSet(a \o b) = ToSet(a) \cup ToSet(b)
    BY <2>5, <2>6, <2>8, ChainedOn
  <2>10. Chained(fact, h[k]) /\ ToSet(h[k]) = ToSet(h[k - 1]) \cup ToSet(seqs[k])
    BY <2>5, <2>6, <2>9
  <2>11. \A x : x \in ToSet(h[k]) <=> \E i \in 1 .. k : x \in ToSet(seqs[i])
    BY <2>7, <2>8, <2>10, Zenon
  <2>12. Good(k)
    BY <2>10, <2>11, Zenon DEF Good
  <2> QED
    BY <2>12
<1>4. Good(n)
  <2>1. n \in 0 .. n
    BY <1>2
  <2> QED
    BY <1>3, <2>1
<1>5. FlattenSeq(seqs) = h[n]
  BY <1>1 DEF Flattens
<1> QED
  BY <1>4, <1>5 DEF Good

Distinctly(js) == \A i, k \in DOMAIN js : js[i].to = js[k].to => i = k

LEMMA ArrivingIs ==
  ASSUME NEW fact, NEW unique, NEW s \in Arriving(fact, unique)
  PROVE  /\ s \in Steps /\ s.to # fact
         /\ \A t \in Arriving(fact, unique) : s.to = t.to => s = t
  BY DEF Arriving

LEMMA JoinOneMore ==
  ASSUME NEW fact, NEW unique, NEW js \in Seq(Arriving(fact, unique)), Chained(fact, js), Distinctly(js),
         NEW s \in Arriving(fact, unique), s.from = fact \/ \E x \in ToSet(js) : x.to = s.from,
         NEW ks, ks = JoinOnce(fact, js, s)
  PROVE  /\ ks \in Seq(Arriving(fact, unique)) /\ Chained(fact, ks) /\ Distinctly(ks)
         /\ ToSet(ks) = ToSet(js) \cup {s}
<1> DEFINE A == Arriving(fact, unique)
<1>1. \A i \in DOMAIN js : js[i] \in A
  OBVIOUS
<1>2. CASE s.to \in {fact} \cup {js[i].to : i \in DOMAIN js}
  <2>1. PICK i \in DOMAIN js : js[i].to = s.to
    BY <1>2, ArrivingIs
  <2>2. js[i] = s
    BY <1>1, <2>1, ArrivingIs
  <2>3. s \in ToSet(js)
    BY <2>2 DEF ToSet
  <2> QED
    BY <1>2, <2>3 DEF JoinOnce
<1>3. CASE s.to \notin {fact} \cup {js[i].to : i \in DOMAIN js}
  <2> DEFINE n == Len(js)
  <2> HIDE DEF A
  <2>0. ks = Append(js, s)
    BY <1>3 DEF JoinOnce
  <2>1. js \in Seq(A) /\ s \in A
    BY DEF A
  <2>2. n \in Nat /\ DOMAIN js = 1 .. n /\ ks \in Seq(A) /\ DOMAIN ks = 1 .. n + 1
    BY <2>0, <2>1
  <2>3. (\A i \in 1 .. n : ks[i] = js[i]) /\ ks[n + 1] = s
    BY <2>0, <2>1
  <2> HIDE DEF n
  <2>4. ToSet(ks) = ToSet(js) \cup {s}
    <3>1. \A x \in ToSet(ks) : x \in ToSet(js) \/ x = s
      <4> SUFFICES ASSUME NEW i \in DOMAIN ks PROVE ks[i] \in ToSet(js) \/ ks[i] = s
        BY DEF ToSet
      <4>1. i = n + 1 \/ i \in 1 .. n
        BY <2>2
      <4> QED
        BY <2>2, <2>3, <4>1 DEF ToSet
    <3>2. \A x \in ToSet(js) : x \in ToSet(ks)
      <4> SUFFICES ASSUME NEW i \in DOMAIN js PROVE js[i] \in ToSet(ks)
        BY DEF ToSet
      <4>1. i \in 1 .. n /\ i \in DOMAIN ks
        BY <2>2
      <4> QED
        BY <2>3, <4>1 DEF ToSet
    <3>3. s \in ToSet(ks)
      <4>1. n + 1 \in DOMAIN ks
        BY <2>2
      <4> QED
        BY <2>3, <4>1 DEF ToSet
    <3> QED
      BY <3>1, <3>2, <3>3
  <2>5. Distinctly(ks)
    <3> SUFFICES ASSUME NEW i \in DOMAIN ks, NEW k \in DOMAIN ks, ks[i].to = ks[k].to PROVE i = k
      BY DEF Distinctly
    <3>1. (i = n + 1 \/ i \in 1 .. n) /\ (k = n + 1 \/ k \in 1 .. n)
      BY <2>2
    <3>2. \A j \in 1 .. n : ks[j].to # s.to
      BY <1>3, <2>2, <2>3
    <3> QED
      BY <2>2, <2>3, <3>1, <3>2 DEF Distinctly
  <2>6. Chained(fact, ks)
    <3> SUFFICES ASSUME NEW p \in DOMAIN ks PROVE ks[p].from = fact \/ \E q \in 1 .. p - 1 : ks[q].to = ks[p].from
      BY DEF Chained
    <3>1. CASE p = n + 1
      <4>1. ks[p] = s /\ p - 1 = n
        BY <2>2, <2>3, <3>1
      <4>2. CASE \E x \in ToSet(js) : x.to = s.from
        <5>1. PICK q \in 1 .. n : js[q].to = s.from
          BY <2>2, <4>2 DEF ToSet
        <5> QED
          BY <2>3, <4>1, <5>1
      <4> QED
        BY <4>1, <4>2
    <3>2. CASE p \in 1 .. n
      <4>1. \A q \in 1 .. p - 1 : q \in 1 .. n
        BY <2>2, <3>2
      <4>2. js[p].from = fact \/ \E q \in 1 .. p - 1 : js[q].to = js[p].from
        BY <2>2, <3>2 DEF Chained
      <4> QED
        BY <2>3, <3>2, <4>1, <4>2
    <3> QED
      BY <2>2, <3>1, <3>2
  <2> QED
    BY <2>2, <2>4, <2>5, <2>6 DEF A
<1> QED
  BY <1>2, <1>3

LEMMA JoinedOnceIs ==
  ASSUME NEW fact, NEW unique, NEW steps \in Seq(Arriving(fact, unique)), Chained(fact, steps)
  PROVE  /\ JoinedOnce(fact, steps) \in Seq(Arriving(fact, unique))
         /\ Chained(fact, JoinedOnce(fact, steps)) /\ Distinctly(JoinedOnce(fact, steps))
         /\ ToSet(JoinedOnce(fact, steps)) = ToSet(steps)
<1> DEFINE A == Arriving(fact, unique)
           n == Len(steps)
<1>1. PICK g : /\ g[0] = <<>>
               /\ \A k \in 1 .. n : g[k] = JoinOnce(fact, g[k - 1], steps[k])
               /\ JoinedOnce(fact, steps) = g[n]
  BY JoinsFold
<1> DEFINE Good(k) == /\ g[k] \in Seq(A) /\ Chained(fact, g[k]) /\ Distinctly(g[k])
                      /\ \A x : x \in ToSet(g[k]) <=> \E i \in 1 .. k : x = steps[i]
           B == {k \in 0 .. n : ~ Good(k)}
<1>2. n \in Nat /\ DOMAIN steps = 1 .. n /\ \A i \in 1 .. n : steps[i] \in A
  OBVIOUS
<1> HIDE DEF Good, A, n
<1>3. B = {}
  <2> SUFFICES ASSUME B # {} PROVE FALSE
    OBVIOUS
  <2>1. PICK k \in B : \A m \in B : k <= m
    <3>1. B \in SUBSET Nat
      BY <1>2
    <3> HIDE DEF B
    <3> QED
      BY <3>1, LeastNumber
  <2>2. k # 0
    <3>1. <<>> \in Seq(A) /\ Chained(fact, <<>>) /\ Distinctly(<<>>) /\ ToSet(<<>>) = {}
      BY DEF Chained, ToSet, Distinctly
    <3>2. \A x : ~ \E i \in 1 .. 0 : x = steps[i]
      OBVIOUS
    <3>3. Good(0)
      BY <1>1, <3>1, <3>2, Zenon DEF Good
    <3> QED
      BY <3>3
  <2>3. k \in 1 .. n /\ k - 1 \in 0 .. n /\ k - 1 \notin B
    BY <1>2, <2>1, <2>2
  <2>4. Good(k - 1)
    BY <2>3
  <2>5. PICK js \in Seq(A) : js = g[k - 1] /\ Chained(fact, js) /\ Distinctly(js)
    BY <2>4 DEF Good
  <2>6. \A x : x \in ToSet(js) <=> \E i \in 1 .. k - 1 : x = steps[i]
    BY <2>4, <2>5 DEF Good
  <2>7. PICK s \in A : s = steps[k]
    BY <1>2, <2>3
  <2>8. s.from = fact \/ \E x \in ToSet(js) : x.to = s.from
    <3>1. s.from = fact \/ \E q \in 1 .. k - 1 : steps[q].to = s.from
      BY <1>2, <2>3, <2>7 DEF Chained
    <3> QED
      BY <2>6, <3>1
  <2>9. PICK ks : ks = JoinOnce(fact, js, s)
    OBVIOUS
  <2>10. ks \in Seq(A) /\ Chained(fact, ks) /\ Distinctly(ks) /\ ToSet(ks) = ToSet(js) \cup {s}
    BY <2>5, <2>7, <2>8, <2>9, JoinOneMore DEF A
  <2>11. ks = g[k]
    BY <1>1, <2>3, <2>5, <2>7, <2>9
  <2>12. \A i : i \in 1 .. k <=> i = k \/ i \in 1 .. k - 1
    BY <2>3
  <2>13. \A x : x \in ToSet(ks) <=> \E i \in 1 .. k : x = steps[i]
    BY <2>6, <2>7, <2>10, <2>12, Zenon
  <2>14. Good(k)
    BY <2>10, <2>11, <2>13, Zenon DEF Good
  <2> QED
    BY <2>14
<1>4. Good(n)
  <2>1. n \in 0 .. n
    BY <1>2
  <2> QED
    BY <1>3, <2>1
<1>5. \A x : x \in ToSet(g[n]) <=> x \in ToSet(steps)
  BY <1>2, <1>4 DEF Good, ToSet
<1>6. ToSet(g[n]) = ToSet(steps)
  BY <1>5
<1> QED
  BY <1>1, <1>4, <1>6 DEF Good, A

\* The steps are those of the routes to the tables used.
RoutesTo(js, fact, used, unique) ==
  \A s : s \in ToSet(js) <=> \E t \in used \ {fact} : s \in ToSet(Route(fact, t, unique))

\* A block's joins are the steps of the routes to the tables it uses, whatever
\* the order they are taken in and the tables they share.
LEMMA JoinsAreRoutes ==
  ASSUME NEW fact \in Tables, NEW used \in SUBSET Tables, NEW unique,
         \A t \in used : Reaches(fact, t, unique)
  PROVE  /\ JoinsOf(fact, used, unique) \in Seq(Arriving(fact, unique))
         /\ Chained(fact, JoinsOf(fact, used, unique)) /\ Distinctly(JoinsOf(fact, used, unique))
         /\ RoutesTo(JoinsOf(fact, used, unique), fact, used, unique)
<1> DEFINE A == Arriving(fact, unique)
           others == InOrder(used \ {fact}, <)
           routes == [i \in DOMAIN others |-> Route(fact, others[i], unique)]
           steps == FlattenSeq(routes)
<1>1. IsFiniteSet(used \ {fact}) /\ Numbers(used \ {fact})
  BY CatalogueAssumption, FS_Subset DEF Numbers
<1>2. PICK n \in Nat : others \in [1 .. n -> used \ {fact}] /\ DOMAIN others = 1 .. n
  BY <1>1, InOrderIs
<1>3. \A t \in used \ {fact} : \E i \in 1 .. n : others[i] = t
  BY <1>1, <1>2, InOrderOnto
<1>4. JoinsOf(fact, used, unique) = JoinedOnce(fact, steps)
  BY DEF JoinsOf, JoinedOnce, JoinOnce
<1> HIDE DEF others
<1>5. \A i \in 1 .. n : /\ routes[i] = Route(fact, others[i], unique)
                        /\ routes[i] \in Seq(A) /\ Chained(fact, routes[i])
  BY <1>2, RouteChained
<1>6. routes \in Seq(Seq(A)) /\ Len(routes) = n
  <2> DEFINE C == Seq(A)
  <2>1. routes = [i \in 1 .. n |-> routes[i]]
    BY <1>2
  <2> HIDE DEF routes
  <2>2. \A i \in 1 .. n : routes[i] \in C
    BY <1>5
  <2> HIDE DEF C
  <2>3. routes \in [1 .. n -> C]
    BY <2>1, <2>2
  <2>4. routes \in Seq(C) /\ Len(routes) = n
    BY <2>3, BySeq
  <2> QED
    BY <2>4 DEF C
<1> HIDE DEF routes, A
<1>7. Chained(fact, steps) /\ \A x : x \in ToSet(steps) <=> \E i \in 1 .. n : x \in ToSet(routes[i])
  BY <1>5, <1>6, FlattenChained
<1>8. steps \in Seq(A)
  BY <1>6, FlattenIn
<1> HIDE DEF steps
<1>9. /\ JoinedOnce(fact, steps) \in Seq(A)
      /\ Chained(fact, JoinedOnce(fact, steps)) /\ Distinctly(JoinedOnce(fact, steps))
      /\ ToSet(JoinedOnce(fact, steps)) = ToSet(steps)
  BY <1>7, <1>8, JoinedOnceIs DEF A
<1>10. \A s : (\E i \in 1 .. n : s \in ToSet(routes[i])) <=> \E t \in used \ {fact} : s \in ToSet(Route(fact, t, unique))
  BY <1>2, <1>3, <1>5
<1>11. \A s : s \in ToSet(JoinsOf(fact, used, unique)) <=> \E t \in used \ {fact} : s \in ToSet(Route(fact, t, unique))
  BY <1>4, <1>7, <1>9, <1>10
<1> QED
  BY <1>4, <1>9, <1>11 DEF A, RoutesTo

-----------------------------------------------------------------------------
(* Each joined row follows its fact's, the same from one block to another *)

Follows(bank, e, s) ==
  LET found == Matches(bank, s, Value(bank, e, <<s.from, s.mine>>))
  IN  IF found = {} THEN e[s.to] = 0 ELSE e[s.to] \in found

LEMMA FollowsAs ==
  ASSUME NEW bank, NEW s \in Steps, NEW e, NEW f, Follows(bank, e, s), f[s.from] = e[s.from], f[s.to] = e[s.to]
  PROVE  Follows(bank, f, s)
<1>1. Value(bank, f, <<s.from, s.mine>>) = Value(bank, e, <<s.from, s.mine>>)
  BY DEF Value
<1> QED
  BY <1>1 DEF Follows

LEMMA FollowOneMore ==
  ASSUME NEW bank \in Warehouses, NEW rows \in Rows, NEW s \in Steps, s.from # s.to,
         \A e \in rows : e[s.to] = 0,
         NEW f \in JoinStep(bank, rows, s)
  PROVE  /\ f \in [Tables -> Nat] /\ Follows(bank, f, s)
         /\ \E e \in rows : \A u \in Tables : u # s.to => f[u] = e[u]
<1> DEFINE found(e) == Matches(bank, s, Value(bank, e, <<s.from, s.mine>>))
           Made(e) == IF found(e) = {} /\ Outer(s) THEN {e} ELSE {[e EXCEPT ![s.to] = i] : i \in found(e)}
<1>1. JoinStep(bank, rows, s) = UNION {Made(e) : e \in rows}
  BY DEF JoinStep, Extended
<1>2. PICK e \in rows : f \in Made(e)
  BY <1>1
<1>3. f \in [Tables -> Nat]
  BY ExtendedRows DEF Rows
<1>4. e \in [Tables -> Nat] /\ s.to \in Tables /\ s.from \in Tables
  BY StepIs DEF Rows
<1>5. CASE f = e /\ found(e) = {}
  <2>1. Follows(bank, f, s)
    BY <1>5 DEF Follows
  <2> QED
    BY <1>3, <1>5, <2>1
<1>6. CASE ~ (f = e /\ found(e) = {})
  <2>1. PICK i \in found(e) : f = [e EXCEPT ![s.to] = i]
    BY <1>2, <1>6
  <2> HIDE DEF found
  <2>2. f[s.to] = i /\ \A u \in Tables : u # s.to => f[u] = e[u]
    BY <1>4, <2>1
  <2>3. Value(bank, f, <<s.from, s.mine>>) = Value(bank, e, <<s.from, s.mine>>)
    BY <1>4, <2>2 DEF Value
  <2>4. Follows(bank, f, s)
    BY <2>1, <2>2, <2>3 DEF Follows, found
  <2> QED
    BY <1>3, <2>2, <2>4
<1> QED
  BY <1>5, <1>6

\* One join after another, to tables not joined before.
Ordered(b) == /\ b.fact \in Tables /\ b.joins \in Seq(Steps) /\ Chained(b.fact, b.joins) /\ Distinctly(b.joins)
              /\ \A s \in ToSet(b.joins) : s.to # b.fact
Upto(b, k) == {b.fact} \cup {b.joins[i].to : i \in 1 .. k}
Followed(bank, b, k, rows) ==
  /\ rows \in Rows
  /\ \A e \in rows : /\ \A u \in Tables \ Upto(b, k) : e[u] = 0
                     /\ \A i \in 1 .. k : Follows(bank, e, b.joins[i])

LEMMA JoinIsNew ==
  ASSUME NEW b, Ordered(b), NEW k \in 1 .. Len(b.joins)
  PROVE  /\ b.joins[k] \in Steps /\ b.joins[k].from \in Upto(b, k - 1) /\ b.joins[k].to \notin Upto(b, k - 1)
         /\ Upto(b, k) = Upto(b, k - 1) \cup {b.joins[k].to}
         /\ \A i \in 1 .. k - 1 : Upto(b, i) \subseteq Upto(b, k - 1)
<1>1. b.joins \in Seq(Steps) /\ Len(b.joins) \in Nat /\ DOMAIN b.joins = 1 .. Len(b.joins)
  BY DEF Ordered
<1>2. k \in DOMAIN b.joins /\ b.joins[k] \in Steps
  BY <1>1
<1>3. b.joins[k].from \in Upto(b, k - 1)
  BY <1>2 DEF Ordered, Chained, Upto
<1>4. b.joins[k].to \notin Upto(b, k - 1)
  <2>1. b.joins[k].to # b.fact
    BY <1>2 DEF Ordered, ToSet
  <2>2. ASSUME NEW i \in 1 .. k - 1 PROVE b.joins[i].to # b.joins[k].to
    <3>1. i \in DOMAIN b.joins /\ i # k
      BY <1>1
    <3> QED
      BY <1>2, <3>1 DEF Ordered, Distinctly
  <2> QED
    BY <2>1, <2>2 DEF Upto
<1>5. Upto(b, k) = Upto(b, k - 1) \cup {b.joins[k].to}
  <2>1. \A i : i \in 1 .. k <=> i = k \/ i \in 1 .. k - 1
    BY <1>1
  <2> QED
    BY <2>1 DEF Upto
<1>6. \A i \in 1 .. k - 1 : Upto(b, i) \subseteq Upto(b, k - 1)
  <2> SUFFICES ASSUME NEW i \in 1 .. k - 1 PROVE Upto(b, i) \subseteq Upto(b, k - 1)
    OBVIOUS
  <2>1. \A j \in 1 .. i : j \in 1 .. k - 1
    BY <1>1
  <2> QED
    BY <2>1 DEF Upto
<1> QED
  BY <1>2, <1>3, <1>4, <1>5, <1>6

LEMMA FollowedOn ==
  ASSUME NEW bank \in Warehouses, NEW b, Ordered(b), NEW k \in 1 .. Len(b.joins), NEW rows,
         Followed(bank, b, k - 1, rows)
  PROVE  Followed(bank, b, k, JoinStep(bank, rows, b.joins[k]))
<1>1. PICK s \in Steps : s = b.joins[k]
  BY JoinIsNew
<1>2. /\ s.from \in Upto(b, k - 1) /\ s.to \notin Upto(b, k - 1) /\ Upto(b, k) = Upto(b, k - 1) \cup {s.to}
      /\ s.to \in Tables /\ s.from \in Tables
  BY <1>1, JoinIsNew, StepIs
<1>3. rows \in Rows /\ \A e \in rows : e[s.to] = 0
  BY <1>2 DEF Followed
<1>4. JoinStep(bank, rows, s) \in Rows
  BY <1>3, ExtendedRows
<1>5. ASSUME NEW f \in JoinStep(bank, rows, s)
      PROVE  /\ \A u \in Tables \ Upto(b, k) : f[u] = 0
             /\ \A i \in 1 .. k : Follows(bank, f, b.joins[i])
  <2>1. Follows(bank, f, s) /\ \E e \in rows : \A u \in Tables : u # s.to => f[u] = e[u]
    BY <1>2, <1>3, FollowOneMore
  <2>2. PICK e \in rows : \A u \in Tables : u # s.to => f[u] = e[u]
    BY <2>1
  <2>3. \A u \in Tables \ Upto(b, k) : f[u] = 0
    <3>1. \A u \in Tables \ Upto(b, k) : u \in Tables \ Upto(b, k - 1) /\ u # s.to
      BY <1>2
    <3> QED
      BY <2>2, <3>1 DEF Followed
  <2>4. ASSUME NEW i \in 1 .. k PROVE Follows(bank, f, b.joins[i])
    <3>1. CASE i = k
      BY <1>1, <2>1, <3>1
    <3>2. CASE i # k
      <4>1. i \in 1 .. k - 1 /\ i \in 1 .. Len(b.joins)
        BY <3>2 DEF Ordered
      <4>2. PICK t \in Steps : t = b.joins[i]
        BY <4>1, JoinIsNew
      <4>3. Upto(b, i) \subseteq Upto(b, k - 1) /\ i - 1 \in Nat
        BY <4>1, JoinIsNew
      <4>4. t.from \in Upto(b, i) /\ t.to \in Upto(b, i)
        BY <4>1, <4>2, JoinIsNew
      <4>5. t.from # s.to /\ t.to # s.to /\ t.from \in Tables /\ t.to \in Tables
        BY <1>2, <4>3, <4>4, StepIs
      <4>6. Follows(bank, e, t)
        BY <4>1, <4>2 DEF Followed
      <4>7. f[t.from] = e[t.from] /\ f[t.to] = e[t.to]
        BY <2>2, <4>5
      <4> QED
        BY <4>2, <4>6, <4>7, FollowsAs
    <3> QED
      BY <3>1, <3>2
  <2> QED
    BY <2>3, <2>4
<1> QED
  BY <1>1, <1>4, <1>5 DEF Followed

LEMMA JoinedFollow ==
  ASSUME NEW bank \in Warehouses, NEW b, Ordered(b), NEW e \in JoinedRows(bank, b)
  PROVE  e \in [Tables -> Nat] /\ \A s \in ToSet(b.joins) : Follows(bank, e, s)
<1> DEFINE n == Len(b.joins)
<1>0. b.fact \in Tables /\ b.joins \in Seq(Steps) /\ n \in Nat /\ DOMAIN b.joins = 1 .. n
  BY DEF Ordered
<1>1. PICK g : /\ g[0] = FactRows(bank, b)
               /\ \A k \in 1 .. n : g[k] = JoinStep(bank, g[k - 1], b.joins[k])
               /\ JoinedRows(bank, b) = g[n]
  BY <1>0, RowsFold
<1> HIDE DEF n
<1> DEFINE B == {k \in 0 .. n : ~ Followed(bank, b, k, g[k])}
<1>2. B = {}
  <2> SUFFICES ASSUME B # {} PROVE FALSE
    OBVIOUS
  <2>1. PICK k \in B : \A m \in B : k <= m
    <3>1. B \in SUBSET Nat
      BY <1>0
    <3> HIDE DEF B
    <3> QED
      BY <3>1, LeastNumber
  <2>2. k # 0
    <3>1. FactRows(bank, b) \in Rows
      BY <1>0, FactRowsIn
    <3>2. \A f \in FactRows(bank, b) : \A u \in Tables \ Upto(b, 0) : f[u] = 0
      BY DEF FactRows, Upto
    <3>3. \A i : i \notin 1 .. 0
      OBVIOUS
    <3>4. Followed(bank, b, 0, g[0])
      BY <1>1, <3>1, <3>2, <3>3 DEF Followed
    <3> QED
      BY <3>4
  <2>3. k \in 1 .. n /\ k - 1 \in 0 .. n /\ k - 1 \notin B
    BY <1>0, <2>1, <2>2
  <2>4. PICK rows : rows = g[k - 1]
    OBVIOUS
  <2>5. Followed(bank, b, k - 1, rows)
    BY <2>3, <2>4
  <2>6. Followed(bank, b, k, JoinStep(bank, rows, b.joins[k]))
    BY <2>3, <2>5, FollowedOn DEF n
  <2>7. g[k] = JoinStep(bank, rows, b.joins[k])
    BY <1>1, <2>3, <2>4
  <2> QED
    BY <2>6, <2>7
<1>3. Followed(bank, b, n, JoinedRows(bank, b))
  <2>1. n \in 0 .. n
    BY <1>0
  <2> QED
    BY <1>1, <1>2, <2>1
<1> QED
  BY <1>0, <1>3 DEF Followed, Rows, ToSet

\* A row of the fact is joined with the same rows, whatever else is joined.
LEMMA JoinedAlike ==
  ASSUME NEW bank \in Warehouses, NEW b, NEW c, Ordered(b), Ordered(c), c.fact = b.fact,
         ToSet(c.joins) \subseteq ToSet(b.joins), SingleJoins(bank, b),
         NEW e \in JoinedRows(bank, c), NEW f \in JoinedRows(bank, b), e[b.fact] = f[b.fact]
  PROVE  \A u \in {b.fact} \cup {s.to : s \in ToSet(c.joins)} : e[u] = f[u]
<1> DEFINE n == Len(c.joins)
           B == {k \in 1 .. n : e[c.joins[k].to] # f[c.joins[k].to]}
<1>1. n \in Nat /\ DOMAIN c.joins = 1 .. n
  BY DEF Ordered
<1>2. B = {}
  <2> SUFFICES ASSUME B # {} PROVE FALSE
    OBVIOUS
  <2>1. PICK k \in B : \A m \in B : k <= m
    <3>1. B \in SUBSET Nat
      BY <1>1
    <3> HIDE DEF B
    <3> QED
      BY <3>1, LeastNumber
  <2>2. PICK s : s = c.joins[k]
    OBVIOUS
  <2>3. s \in Steps /\ s.from \in Upto(c, k - 1)
    BY <2>2, JoinIsNew
  <2>4. s \in ToSet(b.joins) /\ s \in ToSet(c.joins)
    BY <1>1, <2>2 DEF ToSet
  <2>5. e[s.from] = f[s.from]
    <3>1. CASE s.from = b.fact
      BY <3>1
    <3>2. CASE s.from # b.fact
      <4>1. PICK i \in 1 .. k - 1 : c.joins[i].to = s.from
        BY <2>3, <3>2 DEF Upto
      <4>2. i \in 1 .. n /\ ~ (k <= i)
        BY <1>1, <2>1
      <4> QED
        BY <2>1, <4>1, <4>2
    <3> QED
      BY <3>1, <3>2
  <2>6. Follows(bank, e, s) /\ Follows(bank, f, s)
    BY <2>4, JoinedFollow
  <2>7. Value(bank, e, <<s.from, s.mine>>) = Value(bank, f, <<s.from, s.mine>>)
    BY <2>5 DEF Value
  <2>8. IsUnique(bank, <<s.to, s.theirs>>)
    BY <2>4 DEF SingleJoins
  <2>9. e[s.to] = f[s.to]
    <3> DEFINE found == Matches(bank, s, Value(bank, e, <<s.from, s.mine>>))
    <3>1. \A i, j \in found : i = j
      BY <2>3, <2>8, AtMostOneMatch
    <3>2. /\ IF found = {} THEN e[s.to] = 0 ELSE e[s.to] \in found
          /\ IF found = {} THEN f[s.to] = 0 ELSE f[s.to] \in found
      BY <2>6, <2>7 DEF Follows
    <3> HIDE DEF found
    <3> QED
      BY <3>1, <3>2
  <2> QED
    BY <2>2, <2>9
<1>3. \A s \in ToSet(c.joins) : e[s.to] = f[s.to]
  BY <1>1, <1>2 DEF ToSet
<1> QED
  BY <1>3

-----------------------------------------------------------------------------
(* A dimension's columns are columns *)

LastRef(m, T) == m \in T /\ \A x \in T : x = m \/ RefBefore(x, m)

LEMMA RefsOrdered ==
  ASSUME NEW p \in Refs, NEW q \in Refs, NEW r \in Refs
  PROVE  /\ p = q \/ RefBefore(p, q) \/ RefBefore(q, p)
         /\ RefBefore(p, q) /\ RefBefore(q, r) => RefBefore(p, r)
<1>1. \A x \in Refs : x = <<x[1], x[2]>> /\ x[1] \in Nat /\ x[2] \in Nat
  <2> SUFFICES ASSUME NEW t \in Tables, NEW c \in Columns
               PROVE  <<t, c>> = <<<<t, c>>[1], <<t, c>>[2]>> /\ <<t, c>>[1] \in Nat /\ <<t, c>>[2] \in Nat
    BY DEF Refs
  <2>1. t \in Nat /\ c \in Nat
    BY CatalogueAssumption
  <2> QED
    BY <2>1
<1>2. /\ p = <<p[1], p[2]>> /\ q = <<q[1], q[2]>>
      /\ p[1] \in Nat /\ p[2] \in Nat /\ q[1] \in Nat /\ q[2] \in Nat /\ r[1] \in Nat /\ r[2] \in Nat
  BY <1>1
<1>3. p[1] = q[1] /\ p[2] = q[2] => p = q
  BY <1>2, Zenon
<1> QED
  BY <1>2, <1>3 DEF RefBefore

LEMMA RefAfter ==
  ASSUME NEW T \in SUBSET Refs, NEW x \in T, NEW m, LastRef(m, T \ {x})
  PROVE  \E k : LastRef(k, T)
<1>1. m \in T /\ m \in Refs /\ x \in Refs
  BY DEF LastRef
<1>2. CASE RefBefore(x, m)
  <2>1. LastRef(m, T)
    BY <1>1, <1>2 DEF LastRef
  <2> QED
    BY <2>1
<1>3. CASE RefBefore(m, x)
  <2>1. \A y \in T \ {x} : RefBefore(y, x)
    BY <1>1, <1>3, RefsOrdered DEF LastRef
  <2>2. LastRef(x, T)
    BY <2>1 DEF LastRef
  <2> QED
    BY <2>2
<1>4. m # x
  BY DEF LastRef
<1> QED
  BY <1>1, <1>2, <1>3, <1>4, RefsOrdered

LEMMA LastRefIn ==
  ASSUME NEW S \in SUBSET Refs, IsFiniteSet(S), S # {}
  PROVE  \E m : LastRef(m, S)
<1> DEFINE B == {T \in SUBSET S : T # {} /\ ~ \E m : LastRef(m, T)}
<1> SUFFICES ASSUME S \in B PROVE FALSE
  OBVIOUS
<1>1. PICK T \in B : \A U \in B : U \subseteq T => U = T
  <2>1. B \subseteq SUBSET S /\ B # {}
    OBVIOUS
  <2> HIDE DEF B
  <2> QED
    BY <2>1, Least
<1>2. PICK x \in T : TRUE
  OBVIOUS
<1> DEFINE U == T \ {x}
<1>3. CASE U = {}
  <2>1. LastRef(x, T)
    BY <1>3 DEF LastRef
  <2> QED
    BY <2>1
<1>4. CASE U # {}
  <2>1. U \in SUBSET S /\ U # T /\ U \subseteq T
    BY <1>2
  <2>2. U \notin B
    BY <1>1, <2>1
  <2>3. \E m : LastRef(m, U)
    BY <1>4, <2>1, <2>2
  <2>4. T \in SUBSET Refs
    OBVIOUS
  <2>5. \E m : LastRef(m, T)
    BY <1>2, <2>3, <2>4, RefAfter
  <2> QED
    BY <2>5
<1> QED
  BY <1>3, <1>4

InRefOrder(s) == \A i, k \in DOMAIN s : i < k => RefBefore(s[i], s[k])

LEMMA OneMoreRef ==
  ASSUME NEW T \in SUBSET Refs, IsFiniteSet(T), NEW m, LastRef(m, T), NEW c, Cardinality(T \ {m}) = c,
         NEW s \in [1 .. c -> T \ {m}], InRefOrder(s)
  PROVE  \E r \in [1 .. Cardinality(T) -> T] : InRefOrder(r)
<1>1. m \in T
  BY DEF LastRef
<1>2. Cardinality(T) = c + 1 /\ c \in Nat
  <2>1. Cardinality(T \ {m}) = Cardinality(T) - 1 /\ IsFiniteSet(T \ {m})
    BY <1>1, FS_RemoveElement
  <2>2. Cardinality(T) \in Nat /\ Cardinality(T \ {m}) \in Nat
    BY <2>1, FS_CardinalityType
  <2> QED
    BY <2>1, <2>2
<1> DEFINE r == [i \in 1 .. c + 1 |-> IF i = c + 1 THEN m ELSE s[i]]
<1>3. \A i \in 1 .. c : s[i] \in T /\ RefBefore(s[i], m)
  BY DEF LastRef
<1>4. \A i \in 1 .. c + 1 : r[i] \in T
  <2> SUFFICES ASSUME NEW i \in 1 .. c + 1 PROVE r[i] \in T
    OBVIOUS
  <2>1. CASE i = c + 1
    BY <1>1, <2>1
  <2>2. CASE i # c + 1
    <3>1. i \in 1 .. c /\ r[i] = s[i]
      BY <1>2, <2>2
    <3> QED
      BY <1>3, <3>1
  <2> QED
    BY <2>1, <2>2
<1>5. r \in [1 .. c + 1 -> T]
  BY <1>4
<1>6. InRefOrder(r)
  <2> SUFFICES ASSUME NEW i \in 1 .. c + 1, NEW k \in 1 .. c + 1, i < k PROVE RefBefore(r[i], r[k])
    BY DEF InRefOrder
  <2>1. i \in 1 .. c /\ r[i] = s[i]
    BY <1>2
  <2>2. CASE k = c + 1
    BY <1>3, <2>1, <2>2
  <2>3. CASE k # c + 1
    <3>1. k \in 1 .. c /\ r[k] = s[k]
      BY <1>2, <2>3
    <3>2. DOMAIN s = 1 .. c
      OBVIOUS
    <3>3. RefBefore(s[i], s[k])
      BY <2>1, <3>1, <3>2 DEF InRefOrder
    <3> QED
      BY <2>1, <3>1, <3>3
  <2> QED
    BY <2>2, <2>3
<1> QED
  BY <1>2, <1>5, <1>6

LEMMA RefsInOrder ==
  ASSUME NEW S \in SUBSET Refs, IsFiniteSet(S)
  PROVE  InOrder(S, RefBefore) \in Seq(S)
<1> DEFINE Sorts(s, T) == s \in [1 .. Cardinality(T) -> T] /\ InRefOrder(s)
           B == {T \in SUBSET S : ~ \E s : Sorts(s, T)}
<1>1. B = {}
  <2> SUFFICES ASSUME B # {} PROVE FALSE
    OBVIOUS
  <2>1. PICK T \in B : \A U \in B : U \subseteq T => U = T
    <3>1. B \subseteq SUBSET S
      OBVIOUS
    <3> HIDE DEF B
    <3> QED
      BY <3>1, Least
  <2>2. T \in SUBSET Refs /\ IsFiniteSet(T) /\ T \in SUBSET S
    BY FS_Subset
  <2>3. CASE T = {}
    <3>1. Cardinality(T) = 0
      BY <2>3, FS_EmptySet
    <3>2. [i \in 1 .. 0 |-> 0] \in [1 .. 0 -> {}] /\ InRefOrder([i \in 1 .. 0 |-> 0])
      BY DEF InRefOrder
    <3>3. Sorts([i \in 1 .. 0 |-> 0], T)
      BY <2>3, <3>1, <3>2
    <3> QED
      BY <3>3
  <2>4. CASE T # {}
    <3>1. PICK m : LastRef(m, T)
      BY <2>2, <2>4, LastRefIn
    <3> DEFINE V == T \ {m}
    <3>2. V \in SUBSET S /\ V # T /\ V \subseteq T
      BY <2>2, <3>1 DEF LastRef
    <3>3. V \notin B
      BY <2>1, <3>2
    <3>4. PICK s : s \in [1 .. Cardinality(V) -> V] /\ InRefOrder(s)
      BY <3>2, <3>3
    <3>5. \E r \in [1 .. Cardinality(T) -> T] : InRefOrder(r)
      BY <2>2, <3>1, <3>4, OneMoreRef
    <3> QED
      BY <3>5
  <2> QED
    BY <2>3, <2>4
<1>2. \E s : Sorts(s, S)
  BY <1>1
<1>3. \E s \in [1 .. Cardinality(S) -> S] : InRefOrder(s)
  BY <1>2
<1>4. InOrder(S, RefBefore) = CHOOSE s \in [1 .. Cardinality(S) -> S] : InRefOrder(s)
  BY DEF InOrder, InRefOrder
<1>5. Cardinality(S) \in Nat
  BY FS_CardinalityType
<1>6. InOrder(S, RefBefore) \in [1 .. Cardinality(S) -> S]
  BY <1>3, <1>4
<1> QED
  BY <1>5, <1>6, BySeq

-----------------------------------------------------------------------------
(* An aggregate is that of the values it takes *)

Agged(agg, T, v) ==
  CASE agg = "COUNT" -> Cardinality(T)
    [] agg = "COUNT_DISTINCT" -> Cardinality({v[e] : e \in T})
    [] agg = "SUM" /\ T # {} -> Sum(v, T)
    [] agg = "MAX" /\ T # {} -> Max({v[e] : e \in T})
    [] OTHER -> Nil

LEMMA AggedSame ==
  ASSUME NEW agg, NEW S, NEW T, NEW h, NEW v, NEW w, IsFiniteSet(S), OneToOne(h, S, T),
         \A x \in S : v[x] \in Nat /\ w[h[x]] = v[x]
  PROVE  Agged(agg, S, v) = Agged(agg, T, w)
<1>1. Cardinality(T) = Cardinality(S)
  BY CountImage DEF OneToOne
<1>2. {v[x] : x \in S} = {w[z] : z \in T}
  BY DEF OneToOne
<1>3. S = {} <=> T = {}
  BY DEF OneToOne
<1>4. Sum(v, S) = Sum(w, T)
  BY SumOneToOne
<1> QED
  BY <1>1, <1>2, <1>3, <1>4, Zenon DEF Agged

\* An aggregate of no rows counts 0, or is NULL; of some, it is a number.
LEMMA AggedIs ==
  ASSUME NEW agg \in {"COUNT", "COUNT_DISTINCT", "SUM", "MAX"}, NEW S, NEW v, IsFiniteSet(S), \A x \in S : v[x] \in Nat
  PROVE  /\ Agged(agg, S, v) \in Nat \cup {Nil}
         /\ agg \in {"COUNT", "COUNT_DISTINCT"} => Agged(agg, S, v) \in Nat
         /\ S = {} => Agged(agg, S, v) = IF agg \in {"COUNT", "COUNT_DISTINCT"} THEN 0 ELSE Nil
<1>1. CASE agg = "COUNT"
  <2>1. Agged(agg, S, v) = Cardinality(S)
    BY <1>1 DEF Agged
  <2> QED
    BY <1>1, <2>1, FS_CardinalityType, FS_EmptySet
<1>2. CASE agg = "COUNT_DISTINCT"
  <2> DEFINE V == {v[x] : x \in S}
  <2>1. Agged(agg, S, v) = Cardinality(V)
    BY <1>2 DEF Agged
  <2>2. IsFiniteSet(V)
    <3>1. \A y \in V : \E x \in S : v[x] = y
      OBVIOUS
    <3> HIDE DEF V
    <3> QED
      BY <3>1, CountImage
  <2>3. S = {} => V = {}
    OBVIOUS
  <2> HIDE DEF V
  <2> QED
    BY <1>2, <2>1, <2>2, <2>3, FS_CardinalityType, FS_EmptySet
<1>3. CASE agg = "SUM"
  <2>1. S # {} => Agged(agg, S, v) = Sum(v, S)
    BY <1>3 DEF Agged
  <2>2. S = {} => Agged(agg, S, v) = Nil
    BY <1>3 DEF Agged
  <2>3. Sum(v, S) \in Nat
    BY SumNat
  <2> QED
    BY <1>3, <2>1, <2>2, <2>3
<1>4. CASE agg = "MAX"
  <2> DEFINE V == {v[x] : x \in S}
  <2>1. S # {} => Agged(agg, S, v) = Max(V)
    BY <1>4 DEF Agged
  <2>2. S = {} => Agged(agg, S, v) = Nil
    BY <1>4 DEF Agged
  <2>3. IsFiniteSet(V)
    <3>1. \A y \in V : \E x \in S : v[x] = y
      OBVIOUS
    <3> HIDE DEF V
    <3> QED
      BY <3>1, CountImage
  <2>4. Numbers(V) /\ (S # {} => V # {})
    BY DEF Numbers
  <2> HIDE DEF V
  <2>5. S # {} => Max(V) \in Nat
    BY <2>3, <2>4, MaxIn DEF Numbers
  <2> QED
    BY <1>4, <2>1, <2>2, <2>5
<1> QED
  BY <1>1, <1>2, <1>3, <1>4

Taken(m, inside, rows, read) ==
  {e \in rows : (\A c \in inside : Holds(c, read[e])) /\ read[e][<<m.table, m.col>>] # Nil}
OfEach(m, rows, read) == [e \in rows |-> read[e][<<m.table, m.col>>]]

AddsRead(g, m, read, S) ==
  g = [T \in SUBSET S |-> IF T = {} THEN 0 ELSE read[Some(T)][<<m.table, m.col>>] + g[T \ {Some(T)}]]

LEMMA ReadsAdd ==
  ASSUME NEW m, NEW read, NEW rows, NEW S \in SUBSET rows, NEW g
  PROVE  AddsRead(g, m, read, S) <=> Adds(g, OfEach(m, rows, read), S)
<1> DEFINE v == OfEach(m, rows, read)
<1>1. \A T \in SUBSET S : T # {} => v[Some(T)] = read[Some(T)][<<m.table, m.col>>]
  <2> SUFFICES ASSUME NEW T \in SUBSET S, T # {} PROVE v[Some(T)] = read[Some(T)][<<m.table, m.col>>]
    OBVIOUS
  <2>1. Some(T) \in T
    BY DEF Some
  <2> QED
    BY <2>1 DEF OfEach
<1> HIDE DEF v
<1>2. [T \in SUBSET S |-> IF T = {} THEN 0 ELSE read[Some(T)][<<m.table, m.col>>] + g[T \ {Some(T)}]]
      = [T \in SUBSET S |-> IF T = {} THEN 0 ELSE v[Some(T)] + g[T \ {Some(T)}]]
  BY <1>1
<1> QED
  BY <1>2, Zenon DEF Adds, AddsRead, v

LEMMA AggregateIs ==
  ASSUME NEW m, NEW inside, NEW rows, NEW read, m.table # Nil
  PROVE  Aggregate(m, inside, rows, read) = Agged(m.agg, Taken(m, inside, rows, read), OfEach(m, rows, read))
<1> DEFINE kept == {e \in rows : \A c \in inside : Holds(c, read[e])}
           of(e) == IF m.table = Nil THEN 1 ELSE read[e][<<m.table, m.col>>]
           taken == {e \in kept : of(e) # Nil}
           v == OfEach(m, rows, read)
           T == Taken(m, inside, rows, read)
<1>1. taken = T
  BY DEF Taken
<1>2. T \in SUBSET rows /\ \A e \in T : of(e) = v[e]
  BY DEF Taken, OfEach
<1>3. {of(e) : e \in taken} = {v[e] : e \in T}
  <2> HIDE DEF taken, T, of, v
  <2> QED
    BY <1>1, <1>2
<1>4. MapThenSumSet(of, taken) = Sum(v, T)
  <2>1. MapThenSumSet(of, T) = (CHOOSE g : AddsRead(g, m, read, T))[T]
    <3>1. MapThenSumSet(of, T) = (CHOOSE g :
            g = [U \in SUBSET T |-> IF U = {} THEN 0 ELSE of(Some(U)) + g[U \ {Some(U)}]])[T]
      <4> HIDE DEF T
      <4> QED
        BY Zenon DEF MapThenSumSet, MapThenFoldSet, Some
    <3>2. \A e : of(e) = read[e][<<m.table, m.col>>]
      OBVIOUS
    <3> QED
      BY <3>1, <3>2, Zenon DEF AddsRead
  <2>2. Sum(v, T) = (CHOOSE g : Adds(g, v, T))[T]
    BY SumIsFold
  <2>3. \A g : AddsRead(g, m, read, T) <=> Adds(g, v, T)
    <3> HIDE DEF T
    <3> QED
      BY <1>2, ReadsAdd DEF v
  <2>4. (CHOOSE g : AddsRead(g, m, read, T)) = (CHOOSE g : Adds(g, v, T))
    BY <2>3
  <2> QED
    BY <1>1, <2>1, <2>2, <2>4
<1>5. Aggregate(m, inside, rows, read) =
        CASE m.agg = "COUNT" -> Cardinality(taken)
          [] m.agg = "COUNT_DISTINCT" -> Cardinality({of(e) : e \in taken})
          [] m.agg = "SUM" /\ taken # {} -> MapThenSumSet(of, taken)
          [] m.agg = "MAX" /\ taken # {} -> Max({of(e) : e \in taken})
          [] OTHER -> Nil
  BY Zenon DEF Aggregate
<1> HIDE DEF taken, T, of, v, kept
<1>6. Aggregate(m, inside, rows, read) = Agged(m.agg, T, v)
  BY <1>1, <1>3, <1>4, <1>5, Zenon DEF Agged
<1> QED
  BY <1>6 DEF T, v

-----------------------------------------------------------------------------
(* What a block gives, in parts *)

ReadOf(bank, rows) == [e \in rows |-> [r \in Refs |-> Value(bank, e, r)]]
Kept(b, rows, read) == {e \in rows : \A c \in b.where : Holds(c, read[e])}
KeyOf(b, read, e) == [i \in DOMAIN b.dims |-> read[e][b.dims[i]]]
EntityOf(b, read, e) == [i \in DOMAIN b.per |-> read[e][b.per[i]]]
InGroup(b, rows, read, k) == {e \in rows : KeyOf(b, read, e) = k}
OfEntity(b, group, read, x) == {e \in group : EntityOf(b, read, e) = x}
Entities0(b, group, read) == {EntityOf(b, read, e) : e \in group}
Inside(b, m) == m.only \cup (m.filters \ Shared(b.measures))
EachOf(b, m, group, read) ==
  {<<x, Aggregate(m, Inside(b, m), OfEntity(b, group, read, x), read)>> : x \in Entities0(b, group, read)}
Summed(parts) == IF parts = {} THEN Nil ELSE MapThenSumSet(LAMBDA p : p[2], parts)
Measured(b, m, group, read) ==
  IF b.per = <<>> THEN Aggregate(m, Inside(b, m), group, read)
  ELSE Summed({p \in EachOf(b, m, group, read) : p[2] # Nil})

LEMMA GroupedIs ==
  ASSUME NEW b, NEW rows, NEW read
  PROVE  LET all == Grouped(b, rows, read, Nil) IN
         /\ DOMAIN all = IF b.dims = <<>> THEN {<<>>} ELSE {KeyOf(b, read, e) : e \in rows}
         /\ \A k \in DOMAIN all : \A i \in DOMAIN b.measures :
              all[k][i] = Measured(b, b.measures[i], InGroup(b, rows, read, k), read)
<1> DEFINE keys == IF b.dims = <<>> THEN {<<>>} ELSE {KeyOf(b, read, e) : e \in rows}
           value(k, i) == Measured(b, b.measures[i], InGroup(b, rows, read, k), read)
           all == [k \in keys |-> [i \in DOMAIN b.measures |-> value(k, i)]]
<1>1. Grouped(b, rows, read, Nil) = all
  BY Zenon DEF Grouped, Measured, Summed, EachOf, Inside, Entities0, OfEntity, InGroup, EntityOf, KeyOf
<1> HIDE DEF keys, value
<1>2. DOMAIN all = keys /\ \A k \in DOMAIN all : \A i \in DOMAIN b.measures : all[k][i] = value(k, i)
  OBVIOUS
<1> QED
  BY <1>1, <1>2 DEF keys, value

LEMMA InSqlIs ==
  ASSUME NEW bank, NEW b
  PROVE  InSql(bank, b) = Grouped(b, Kept(b, JoinedRows(bank, b), ReadOf(bank, JoinedRows(bank, b))),
                                  ReadOf(bank, JoinedRows(bank, b)), Nil)
  BY Zenon DEF InSql, Kept, ReadOf

AddsSecond(g, S) == g = [T \in SUBSET S |-> IF T = {} THEN 0 ELSE Some(T)[2] + g[T \ {Some(T)}]]
Second(parts) == [p \in parts |-> p[2]]

LEMMA SummedIs ==
  ASSUME NEW parts
  PROVE  Summed(parts) = IF parts = {} THEN Nil ELSE Sum(Second(parts), parts)
<1>1. MapThenSumSet(LAMBDA p : p[2], parts) = (CHOOSE g : AddsSecond(g, parts))[parts]
  BY Zenon DEF MapThenSumSet, MapThenFoldSet, Some, AddsSecond
<1>2. Sum(Second(parts), parts) = (CHOOSE g : Adds(g, Second(parts), parts))[parts]
  BY SumIsFold
<1> DEFINE v == Second(parts)
<1>3. \A T \in SUBSET parts : T # {} => v[Some(T)] = Some(T)[2]
  <2> SUFFICES ASSUME NEW T \in SUBSET parts, T # {} PROVE v[Some(T)] = Some(T)[2]
    OBVIOUS
  <2>1. Some(T) \in T
    BY DEF Some
  <2> QED
    BY <2>1 DEF Second
<1> HIDE DEF v
<1>4. ASSUME NEW g PROVE AddsSecond(g, parts) <=> Adds(g, v, parts)
  <2>1. [T \in SUBSET parts |-> IF T = {} THEN 0 ELSE Some(T)[2] + g[T \ {Some(T)}]]
        = [T \in SUBSET parts |-> IF T = {} THEN 0 ELSE v[Some(T)] + g[T \ {Some(T)}]]
    BY <1>3
  <2> QED
    BY <2>1, Zenon DEF Adds, AddsSecond
<1>5. (CHOOSE g : AddsSecond(g, parts)) = (CHOOSE g : Adds(g, v, parts))
  BY <1>4
<1>6. MapThenSumSet(LAMBDA p : p[2], parts) = Sum(Second(parts), parts)
  BY <1>1, <1>2, <1>5 DEF v
<1> QED
  BY <1>6, Zenon DEF Summed

\* What is summed beside zeros.
LEMMA SummedBeside ==
  ASSUME NEW P, NEW Q, IsFiniteSet(Q), P \subseteq Q, P # {},
         \A p \in Q : p[2] \in Nat, \A p \in Q \ P : p[2] = 0
  PROVE  Summed(P) = Summed(Q)
<1> DEFINE v == Second(Q)
           Z == Q \ P
<1>1. IsFiniteSet(P) /\ IsFiniteSet(Z) /\ P \cap Z = {} /\ P \cup Z = Q
  BY FS_Subset
<1>2. \A p \in P \cup Z : v[p] \in Nat
  BY <1>1 DEF Second
<1>3. \A p \in Z : v[p] = 0
  BY DEF Second
<1>4. \A p \in P : v[p] = Second(P)[p]
  BY DEF Second
<1> HIDE DEF v, Z
<1>5. Sum(v, P \cup Z) = Sum(v, P) + Sum(v, Z)
  BY <1>1, <1>2, SumUnion
<1>6. Sum(v, Z) = 0
  BY <1>1, <1>3, SumZero
<1>7. Sum(v, P) = Sum(Second(P), P)
  BY <1>1, <1>4, SumSame
<1>8. Sum(v, P) \in Nat
  BY <1>1, <1>2, SumNat
<1>9. Sum(Second(Q), Q) = Sum(Second(P), P)
  <2>1. Sum(v, P \cup Z) = Sum(v, Q)
    BY <1>1, Zenon
  <2>2. Sum(v, Q) = Sum(v, P)
    BY <2>1, <1>5, <1>6, <1>8
  <2> QED
    BY <2>2, <1>7, Zenon DEF v
<1>10. Q # {}
  OBVIOUS
<1>11. Summed(P) = Sum(Second(P), P) /\ Summed(Q) = Sum(Second(Q), Q)
  BY <1>10, SummedIs
<1> QED
  BY <1>9, <1>11

-----------------------------------------------------------------------------
(* A measure over the rows of a block of its own, and over another's *)

ReadOn(x, R) == RefOf(x) \in R /\ (x.other # Nil => x.other \in R)

LEMMA HoldsAlike ==
  ASSUME NEW x, NEW R, ReadOn(x, R), NEW row, NEW sow, \A r \in R : sow[r] = row[r]
  PROVE  Holds(x, sow) <=> Holds(x, row)
<1>1. sow[RefOf(x)] = row[RefOf(x)] /\ (x.other # Nil => sow[x.other] = row[x.other])
  BY DEF ReadOn
<1> QED
  BY <1>1, Zenon DEF Holds

\* Block c is of the measure m alone, b of others beside it: of the same
\* columns, of the same conditions W beside their measures', all read in R.
Beside(c, b, m, W, R) ==
  /\ c.dims = b.dims /\ c.per = b.per
  /\ c.measures = <<m>> /\ m \in ToSet(b.measures)
  /\ c.where = m.filters \cup W /\ b.where = Shared(b.measures) \cup W
  /\ \A i \in DOMAIN b.dims : b.dims[i] \in R
  /\ \A i \in DOMAIN b.per : b.per[i] \in R
  /\ \A x \in m.only \cup m.filters \cup W : ReadOn(x, R)
  /\ m.table # Nil /\ <<m.table, m.col>> \in R

\* Rows P, read by p, and Q, read by q, the same in R.
Alike(h, P, p, Q, q, R) == OneToOne(h, P, Q) /\ \A e \in P : \A r \in R : q[h[e]][r] = p[e][r]
\* A group of a block.
GroupIn(b, P, p, k) == InGroup(b, Kept(b, P, p), p, k)
Meets(m, W, row) == (\A x \in m.only \cup m.filters \cup W : Holds(x, row)) /\ row[<<m.table, m.col>>] # Nil

LEMMA SharedIn ==
  ASSUME NEW ms, NEW m \in ToSet(ms)
  PROVE  Shared(ms) \subseteq m.filters
BY DEF Shared

LEMMA SharedOfOne ==
  ASSUME NEW m
  PROVE  Shared(<<m>>) = m.filters
<1>1. ToSet(<<m>>) = {m}
  BY DEF ToSet
<1> QED
  BY <1>1 DEF Shared

Meeting(b, m, W, P, p, k) == {e \in P : Meets(m, W, p[e]) /\ KeyOf(b, p, e) = k}
MeetingOf(b, m, W, P, p, k, x) == {e \in Meeting(b, m, W, P, p, k) : EntityOf(b, p, e) = x}

LEMMA TakenIs ==
  ASSUME NEW b, NEW m, NEW W, NEW P, NEW p, NEW k, NEW x,
         Shared(b.measures) \subseteq m.filters, b.where = Shared(b.measures) \cup W
  PROVE  /\ Taken(m, Inside(b, m), GroupIn(b, P, p, k), p) = Meeting(b, m, W, P, p, k)
         /\ Taken(m, Inside(b, m), OfEntity(b, GroupIn(b, P, p, k), p, x), p) = MeetingOf(b, m, W, P, p, k, x)
<1>1. b.where \cup Inside(b, m) = m.only \cup m.filters \cup W
  BY DEF Inside
<1>2. \A e : Meets(m, W, p[e]) <=> /\ \A y \in b.where : Holds(y, p[e])
                                   /\ \A y \in Inside(b, m) : Holds(y, p[e])
                                   /\ p[e][<<m.table, m.col>>] # Nil
  BY <1>1 DEF Meets
<1> QED
  BY <1>2 DEF Taken, OfEntity, GroupIn, InGroup, Kept, Meeting, MeetingOf

LEMMA MeetAlike ==
  ASSUME NEW c, NEW b, NEW m, NEW W, NEW R, Beside(c, b, m, W, R),
         NEW h, NEW P, NEW p, NEW Q, NEW q, Alike(h, P, p, Q, q, R), NEW e \in P
  PROVE  /\ Meets(m, W, q[h[e]]) <=> Meets(m, W, p[e])
         /\ KeyOf(b, q, h[e]) = KeyOf(c, p, e) /\ EntityOf(b, q, h[e]) = EntityOf(c, p, e)
         /\ \A V : V \subseteq m.filters \cup W =>
              ((\A y \in V : Holds(y, q[h[e]])) <=> \A y \in V : Holds(y, p[e]))
<1> DEFINE row == p[e]
           sow == q[h[e]]
<1>1. \A r \in R : sow[r] = row[r]
  BY DEF Alike
<1>2. \A y \in m.only \cup m.filters \cup W : ReadOn(y, R)
  BY DEF Beside
<1>3. KeyOf(b, q, h[e]) = KeyOf(c, p, e)
  <2>1. c.dims = b.dims /\ \A i \in DOMAIN b.dims : sow[b.dims[i]] = row[b.dims[i]]
    BY <1>1 DEF Beside
  <2> QED
    BY <2>1 DEF KeyOf
<1>4. EntityOf(b, q, h[e]) = EntityOf(c, p, e)
  <2>1. c.per = b.per /\ \A i \in DOMAIN b.per : sow[b.per[i]] = row[b.per[i]]
    BY <1>1 DEF Beside
  <2> QED
    BY <2>1 DEF EntityOf
<1>5. sow[<<m.table, m.col>>] = row[<<m.table, m.col>>]
  BY <1>1 DEF Beside
<1> HIDE DEF row, sow
<1>6. \A y \in m.only \cup m.filters \cup W : Holds(y, sow) <=> Holds(y, row)
  BY <1>1, <1>2, HoldsAlike
<1>7. Meets(m, W, sow) <=> Meets(m, W, row)
  BY <1>5, <1>6 DEF Meets
<1>8. \A V : V \subseteq m.filters \cup W => ((\A y \in V : Holds(y, sow)) <=> \A y \in V : Holds(y, row))
  BY <1>6
<1> QED
  BY <1>3, <1>4, <1>7, <1>8 DEF row, sow

\* What an aggregate takes of a group, or of an entity in it, of either block.
Part0(b, m, P, p, k, x) == Aggregate(m, Inside(b, m), OfEntity(b, GroupIn(b, P, p, k), p, x), p)
Numbered(m, P, p) == \A e \in P : p[e][<<m.table, m.col>>] \in Nat \cup {Nil}
Aggs == {"COUNT", "COUNT_DISTINCT", "SUM", "MAX"}

LEMMA AggregateAlike ==
  ASSUME NEW c, NEW b, NEW m, NEW W, NEW R, Beside(c, b, m, W, R),
         NEW h, NEW P, NEW p, NEW Q, NEW q, Alike(h, P, p, Q, q, R), IsFiniteSet(P), Numbered(m, P, p),
         NEW k, NEW x
  PROVE  /\ Aggregate(m, Inside(b, m), GroupIn(b, Q, q, k), q) = Aggregate(m, Inside(c, m), GroupIn(c, P, p, k), p)
         /\ Part0(b, m, Q, q, k, x) = Part0(c, m, P, p, k, x)
         /\ m.agg \in Aggs =>
              /\ Part0(c, m, P, p, k, x) \in Nat \cup {Nil}
              /\ m.agg \in {"COUNT", "COUNT_DISTINCT"} => Part0(c, m, P, p, k, x) \in Nat
              /\ OfEntity(c, GroupIn(c, P, p, k), p, x) = {} =>
                   Part0(c, m, P, p, k, x) = IF m.agg \in {"COUNT", "COUNT_DISTINCT"} THEN 0 ELSE Nil
<1> DEFINE G == GroupIn(c, P, p, k)
           H == GroupIn(b, Q, q, k)
           v == OfEach(m, G, p)
           S1 == Taken(m, Inside(c, m), G, p)
           T1 == Taken(m, Inside(b, m), H, q)
           S2 == Taken(m, Inside(c, m), OfEntity(c, G, p, x), p)
           T2 == Taken(m, Inside(b, m), OfEntity(b, H, q, x), q)
<1>1. /\ Shared(b.measures) \subseteq m.filters /\ b.where = Shared(b.measures) \cup W
      /\ Shared(c.measures) \subseteq m.filters /\ c.where = Shared(c.measures) \cup W
      /\ m.table # Nil
  BY SharedIn, SharedOfOne DEF Beside
<1>2. S1 = Meeting(c, m, W, P, p, k) /\ S2 = MeetingOf(c, m, W, P, p, k, x)
  BY <1>1, TakenIs
<1>3. T1 = Meeting(b, m, W, Q, q, k) /\ T2 = MeetingOf(b, m, W, Q, q, k, x)
  BY <1>1, TakenIs
<1> HIDE DEF S1, T1, S2, T2
<1>4. \A e \in P : (e \in S1 <=> h[e] \in T1) /\ (e \in S2 <=> h[e] \in T2)
  <2> SUFFICES ASSUME NEW e \in P PROVE (e \in S1 <=> h[e] \in T1) /\ (e \in S2 <=> h[e] \in T2)
    OBVIOUS
  <2>1. h[e] \in Q
    BY DEF Alike, OneToOne
  <2>2. /\ Meets(m, W, q[h[e]]) <=> Meets(m, W, p[e])
        /\ KeyOf(b, q, h[e]) = KeyOf(c, p, e) /\ EntityOf(b, q, h[e]) = EntityOf(c, p, e)
    BY MeetAlike
  <2> QED
    BY <1>2, <1>3, <2>1, <2>2 DEF Meeting, MeetingOf
<1>5. OneToOne(h, P, Q)
  BY DEF Alike
<1>6. S1 \in SUBSET P /\ S2 \in SUBSET P /\ T1 \in SUBSET Q /\ T2 \in SUBSET Q
  BY <1>2, <1>3 DEF Meeting, MeetingOf
<1>7. OneToOne(h, S1, T1) /\ OneToOne(h, S2, T2)
  BY <1>4, <1>5, <1>6, OneToOnePart
<1>8. IsFiniteSet(S1) /\ IsFiniteSet(S2)
  BY <1>6, FS_Subset
<1>9. \A e \in S1 \cup S2 : p[e][<<m.table, m.col>>] \in Nat /\ q[h[e]][<<m.table, m.col>>] = p[e][<<m.table, m.col>>]
  <2> SUFFICES ASSUME NEW e \in S1 \cup S2
               PROVE  p[e][<<m.table, m.col>>] \in Nat /\ q[h[e]][<<m.table, m.col>>] = p[e][<<m.table, m.col>>]
    OBVIOUS
  <2>1. e \in P /\ p[e][<<m.table, m.col>>] # Nil
    BY <1>2 DEF Meeting, MeetingOf, Meets
  <2>2. <<m.table, m.col>> \in R
    BY DEF Beside
  <2> QED
    BY <2>1, <2>2 DEF Numbered, Alike
<1>10. S1 \subseteq G /\ S2 \subseteq OfEntity(c, G, p, x) /\ T1 \subseteq H /\ T2 \subseteq OfEntity(b, H, q, x)
  BY DEF S1, S2, T1, T2, Taken
<1> HIDE DEF G, H
<1>11. Agged(m.agg, S1, OfEach(m, G, p)) = Agged(m.agg, T1, OfEach(m, H, q))
  <2>1. \A e \in S1 : h[e] \in T1
    BY <1>7 DEF OneToOne
  <2>2. \A e \in S1 : OfEach(m, G, p)[e] \in Nat /\ OfEach(m, H, q)[h[e]] = OfEach(m, G, p)[e]
    BY <1>9, <1>10, <2>1 DEF OfEach
  <2> QED
    BY <1>7, <1>8, <2>2, AggedSame
<1>12. /\ Agged(m.agg, S2, OfEach(m, OfEntity(c, G, p, x), p)) = Agged(m.agg, T2, OfEach(m, OfEntity(b, H, q, x), q))
       /\ \A e \in S2 : OfEach(m, OfEntity(c, G, p, x), p)[e] \in Nat
  <2>1. \A e \in S2 : h[e] \in T2
    BY <1>7 DEF OneToOne
  <2>2. \A e \in S2 : /\ OfEach(m, OfEntity(c, G, p, x), p)[e] \in Nat
                      /\ OfEach(m, OfEntity(b, H, q, x), q)[h[e]] = OfEach(m, OfEntity(c, G, p, x), p)[e]
    BY <1>9, <1>10, <2>1 DEF OfEach
  <2> QED
    BY <1>7, <1>8, <2>2, AggedSame
<1>13. /\ Aggregate(m, Inside(c, m), G, p) = Agged(m.agg, S1, OfEach(m, G, p))
       /\ Aggregate(m, Inside(b, m), H, q) = Agged(m.agg, T1, OfEach(m, H, q))
       /\ Aggregate(m, Inside(c, m), OfEntity(c, G, p, x), p) = Agged(m.agg, S2, OfEach(m, OfEntity(c, G, p, x), p))
       /\ Aggregate(m, Inside(b, m), OfEntity(b, H, q, x), q) = Agged(m.agg, T2, OfEach(m, OfEntity(b, H, q, x), q))
  BY <1>1, AggregateIs, Zenon DEF S1, S2, T1, T2
<1>14. OfEntity(c, G, p, x) = {} => S2 = {}
  BY <1>10
<1> DEFINE a == Agged(m.agg, S2, OfEach(m, OfEntity(c, G, p, x), p))
<1>15. m.agg \in Aggs =>
         /\ a \in Nat \cup {Nil}
         /\ m.agg \in {"COUNT", "COUNT_DISTINCT"} => a \in Nat
         /\ S2 = {} => a = IF m.agg \in {"COUNT", "COUNT_DISTINCT"} THEN 0 ELSE Nil
  <2> DEFINE w == OfEach(m, OfEntity(c, G, p, x), p)
  <2>1. \A e \in S2 : w[e] \in Nat
    BY <1>12
  <2> HIDE DEF w
  <2> QED
    BY <1>8, <2>1, AggedIs DEF Aggs, w
<1> HIDE DEF a
<1>16. Part0(c, m, P, p, k, x) = a /\ Part0(b, m, Q, q, k, x) = a
  BY <1>12, <1>13, Zenon DEF Part0, G, H, a
<1> QED
  BY <1>11, <1>13, <1>14, <1>15, <1>16 DEF G, H

\* A measure's values alone are those it has beside others, in each group there is.
LEMMA GroupAlike ==
  ASSUME NEW c, NEW b, NEW m, NEW W, NEW R, Beside(c, b, m, W, R),
         NEW h, NEW P, NEW p, NEW Q, NEW q, Alike(h, P, p, Q, q, R), NEW k
  PROVE  /\ \A e \in GroupIn(c, P, p, k) : h[e] \in GroupIn(b, Q, q, k)
         /\ m.filters \subseteq Shared(b.measures) =>
              \A f \in GroupIn(b, Q, q, k) : \E e \in GroupIn(c, P, p, k) : h[e] = f
<1>1. /\ c.where = m.filters \cup W /\ b.where = Shared(b.measures) \cup W
      /\ Shared(b.measures) \subseteq m.filters
  BY SharedIn DEF Beside
<1>2. ASSUME NEW e \in P
      PROVE  /\ h[e] \in Q /\ KeyOf(b, q, h[e]) = KeyOf(c, p, e)
             /\ (\A y \in c.where : Holds(y, p[e])) => \A y \in b.where : Holds(y, q[h[e]])
             /\ (m.filters \subseteq Shared(b.measures) /\ \A y \in b.where : Holds(y, q[h[e]])) => \A y \in c.where : Holds(y, p[e])
  <2>1. h[e] \in Q
    BY DEF Alike, OneToOne
  <2>2. /\ KeyOf(b, q, h[e]) = KeyOf(c, p, e)
        /\ \A V : V \subseteq m.filters \cup W =>
              ((\A y \in V : Holds(y, q[h[e]])) <=> \A y \in V : Holds(y, p[e]))
    BY MeetAlike
  <2>3. b.where \subseteq m.filters \cup W /\ b.where \subseteq c.where
    BY <1>1
  <2>4. (\A y \in b.where : Holds(y, q[h[e]])) <=> \A y \in b.where : Holds(y, p[e])
    BY <2>2, <2>3
  <2>5. m.filters \subseteq Shared(b.measures) => c.where \subseteq b.where
    BY <1>1
  <2> QED
    BY <2>1, <2>2, <2>3, <2>4, <2>5
<1>3. /\ GroupIn(c, P, p, k) = {e \in P : (\A y \in c.where : Holds(y, p[e])) /\ KeyOf(c, p, e) = k}
      /\ GroupIn(b, Q, q, k) = {e \in Q : (\A y \in b.where : Holds(y, q[e])) /\ KeyOf(b, q, e) = k}
  BY DEF GroupIn, InGroup, Kept
<1>4. \A e \in GroupIn(c, P, p, k) : h[e] \in GroupIn(b, Q, q, k)
  BY <1>2, <1>3
<1>5. ASSUME m.filters \subseteq Shared(b.measures), NEW f \in GroupIn(b, Q, q, k)
      PROVE  \E e \in GroupIn(c, P, p, k) : h[e] = f
  <2>1. PICK e \in P : h[e] = f
    BY <1>3, <1>5 DEF Alike, OneToOne
  <2> QED
    BY <1>2, <1>3, <1>5, <2>1
<1> QED
  BY <1>4, <1>5

LEMMA KeysAlike ==
  ASSUME NEW c, NEW b, NEW m, NEW W, NEW R, Beside(c, b, m, W, R),
         NEW h, NEW P, NEW p, NEW Q, NEW q, Alike(h, P, p, Q, q, R),
         NEW k \in DOMAIN Grouped(c, Kept(c, P, p), p, Nil)
  PROVE  /\ k \in DOMAIN Grouped(b, Kept(b, Q, q), q, Nil)
         /\ b.dims # <<>> => GroupIn(c, P, p, k) # {}
<1>1. /\ DOMAIN Grouped(c, Kept(c, P, p), p, Nil) = IF c.dims = <<>> THEN {<<>>} ELSE {KeyOf(c, p, e) : e \in Kept(c, P, p)}
      /\ DOMAIN Grouped(b, Kept(b, Q, q), q, Nil) = IF b.dims = <<>> THEN {<<>>} ELSE {KeyOf(b, q, e) : e \in Kept(b, Q, q)}
  BY GroupedIs
<1>2. c.dims = b.dims
  BY DEF Beside
<1>3. CASE b.dims = <<>>
  BY <1>1, <1>2, <1>3
<1>4. CASE b.dims # <<>>
  <2>1. PICK e \in Kept(c, P, p) : k = KeyOf(c, p, e)
    BY <1>1, <1>2, <1>4
  <2>2. e \in GroupIn(c, P, p, k)
    BY <2>1 DEF GroupIn, InGroup
  <2>3. h[e] \in GroupIn(b, Q, q, k)
    BY <2>2, GroupAlike
  <2>4. h[e] \in Kept(b, Q, q) /\ KeyOf(b, q, h[e]) = k
    BY <2>3 DEF GroupIn, InGroup
  <2> QED
    BY <1>1, <1>4, <2>2, <2>4
<1> QED
  BY <1>3, <1>4

\* Summed per entity, what the other block's group has more is nothing.
LEMMA EntitiesAlike ==
  ASSUME NEW c, NEW b, NEW m, NEW W, NEW R, Beside(c, b, m, W, R), m.agg \in Aggs,
         NEW h, NEW P, NEW p, NEW Q, NEW q, Alike(h, P, p, Q, q, R), IsFiniteSet(P), Numbered(m, P, p),
         NEW k \in DOMAIN Grouped(c, Kept(c, P, p), p, Nil), SumsSomething(b, m), b.per # <<>>
  PROVE  Measured(b, m, GroupIn(b, Q, q, k), q) = Measured(c, m, GroupIn(c, P, p, k), p)
<1> DEFINE G == GroupIn(c, P, p, k)
           H == GroupIn(b, Q, q, k)
           a == [x \in Entities0(b, H, q) |-> Part0(c, m, P, p, k, x)]
           Ec == Entities0(c, G, p)
           Eb == Entities0(b, H, q)
           Pc == {z \in EachOf(c, m, G, p) : z[2] # Nil}
           Pb == {z \in EachOf(b, m, H, q) : z[2] # Nil}
<1>1. /\ \A e \in G : h[e] \in H
      /\ m.filters \subseteq Shared(b.measures) => \A f \in H : \E e \in G : h[e] = f
  BY GroupAlike
<1>2. \A e \in G : EntityOf(b, q, h[e]) = EntityOf(c, p, e)
  <2>1. G \subseteq P
    BY DEF GroupIn, InGroup, Kept
  <2> QED
    BY <2>1, MeetAlike
<1>3. Ec \subseteq Eb
  <2> SUFFICES ASSUME NEW e \in G PROVE EntityOf(c, p, e) \in Eb
    BY DEF Entities0
  <2> QED
    BY <1>1, <1>2 DEF Entities0
<1>4. \A x : /\ Part0(b, m, Q, q, k, x) = Part0(c, m, P, p, k, x)
             /\ Part0(c, m, P, p, k, x) \in Nat \cup {Nil}
             /\ m.agg \in {"COUNT", "COUNT_DISTINCT"} => Part0(c, m, P, p, k, x) \in Nat
             /\ OfEntity(c, G, p, x) = {} =>
                  Part0(c, m, P, p, k, x) = IF m.agg \in {"COUNT", "COUNT_DISTINCT"} THEN 0 ELSE Nil
  BY AggregateAlike
<1>5. \A x \in Eb : x \notin Ec => a[x] = IF m.agg \in {"COUNT", "COUNT_DISTINCT"} THEN 0 ELSE Nil
  <2> SUFFICES ASSUME NEW x \in Eb, x \notin Ec PROVE OfEntity(c, G, p, x) = {}
    BY <1>4
  <2> QED
    BY DEF OfEntity, Entities0
<1>6. EachOf(c, m, G, p) = {<<x, a[x]>> : x \in Ec} /\ EachOf(b, m, H, q) = {<<x, a[x]>> : x \in Eb}
  <2>1. \A x \in Ec : Aggregate(m, Inside(c, m), OfEntity(c, G, p, x), p) = a[x]
    BY <1>3 DEF Part0
  <2>2. \A x \in Eb : Aggregate(m, Inside(b, m), OfEntity(b, H, q, x), q) = a[x]
    BY <1>4 DEF Part0
  <2> HIDE DEF G, H, a
  <2> QED
    BY <2>1, <2>2 DEF EachOf
<1>7. \A x \in Eb : a[x] \in Nat \cup {Nil} /\ (m.agg \in {"COUNT", "COUNT_DISTINCT"} => a[x] \in Nat)
  BY <1>4
<1>8. IsFiniteSet(Eb)
  <2>1. IsFiniteSet(Q)
    BY CountImage DEF Alike, OneToOne
  <2>2. H \subseteq Q
    BY DEF GroupIn, InGroup, Kept
  <2>3. IsFiniteSet(H)
    BY <2>1, <2>2, FS_Subset
  <2> DEFINE ent == [e \in H |-> EntityOf(b, q, e)]
  <2>4. \A x \in Eb : \E e \in H : ent[e] = x
    BY DEF Entities0
  <2>5. \A e \in H : ent[e] \in Eb
    BY DEF Entities0
  <2> HIDE DEF H, Eb, ent
  <2> QED
    BY <2>3, <2>4, <2>5, CountImage
<1> HIDE DEF Ec, Eb, a
<1>9. Pc = {z \in {<<x, a[x]>> : x \in Ec} : z[2] # Nil} /\ Pb = {z \in {<<x, a[x]>> : x \in Eb} : z[2] # Nil}
  BY <1>6
<1> HIDE DEF Pc, Pb
<1>10. Pc \subseteq Pb /\ (\A z \in Pb : z[2] \in Nat) /\ \A z \in Pb \ Pc : z[2] = 0
  <2>1. Pc \subseteq Pb
    BY <1>3, <1>9
  <2>2. \A z \in Pb : z[2] \in Nat
    BY <1>7, <1>9
  <2>3. \A z \in Pb \ Pc : z[2] = 0
    <3> SUFFICES ASSUME NEW z \in Pb, z \notin Pc PROVE z[2] = 0
      OBVIOUS
    <3>1. PICK x \in Eb : z = <<x, a[x]>> /\ a[x] # Nil
      BY <1>9
    <3>2. x \notin Ec
      BY <1>9, <3>1
    <3> QED
      BY <1>5, <3>1, <3>2
  <2> QED
    BY <2>1, <2>2, <2>3
<1>11. IsFiniteSet(Pb)
  <2> DEFINE V == {x \in Eb : a[x] # Nil}
             pair == [x \in V |-> <<x, a[x]>>]
  <2>1. IsFiniteSet(V)
    BY <1>8, FS_Subset
  <2>2. /\ \A z \in Pb : \E x \in V : pair[x] = z
        /\ \A x \in V : pair[x] \in Pb
    BY <1>9
  <2> HIDE DEF V, pair
  <2> QED
    BY <2>1, <2>2, CountImage
<1>12. Pc = {} => Pb = {}
  <2> SUFFICES ASSUME Pc = {}, Pb # {} PROVE FALSE
    OBVIOUS
  <2>1. PICK x \in Eb : a[x] # Nil
    BY <1>9
  <2>2. \A y \in Ec : a[y] = Nil
    <3> SUFFICES ASSUME NEW y \in Ec, a[y] # Nil PROVE FALSE
      OBVIOUS
    <3>1. <<y, a[y]>> \in {<<x0, a[x0]>> : x0 \in Ec} /\ <<y, a[y]>>[2] # Nil
      OBVIOUS
    <3>2. <<y, a[y]>> \in Pc
      BY <1>9, <3>1
    <3> QED
      BY <3>2
  <2>3. x \notin Ec
    BY <2>1, <2>2
  <2>4. m.agg \in {"COUNT", "COUNT_DISTINCT"}
    BY <1>5, <2>1, <2>3
  <2>5. Ec = {}
    BY <1>3, <1>7, <2>2, <2>4, CatalogueAssumption
  <2>6. G = {}
    BY <2>5 DEF Ec, Entities0
  <2>7. b.dims = <<>>
    BY <2>6, KeysAlike
  <2>8. m.filters \subseteq Shared(b.measures)
    BY <2>4, <2>7 DEF SumsSomething
  <2>9. H = {}
    BY <1>1, <2>6, <2>8
  <2>10. Eb = {}
    BY <2>9 DEF Eb, Entities0
  <2> QED
    BY <2>1, <2>10
<1>13. Summed(Pc) = Summed(Pb)
  BY <1>10, <1>11, <1>12, SummedBeside
<1>14. c.per = b.per
  BY DEF Beside
<1> QED
  BY <1>13, <1>14, Zenon DEF Measured, Pc, Pb

LEMMA GroupedAlike ==
  ASSUME NEW c, NEW b, NEW m, NEW W, NEW R, Beside(c, b, m, W, R), m.agg \in Aggs,
         NEW h, NEW P, NEW p, NEW Q, NEW q, Alike(h, P, p, Q, q, R), IsFiniteSet(P), Numbered(m, P, p),
         SumsSomething(b, m), NEW i \in DOMAIN b.measures, b.measures[i] = m
  PROVE  Agrees(Grouped(c, Kept(c, P, p), p, Nil), Grouped(b, Kept(b, Q, q), q, Nil), i)
<1> DEFINE one == Grouped(c, Kept(c, P, p), p, Nil)
           all == Grouped(b, Kept(b, Q, q), q, Nil)
<1>1. /\ \A k \in DOMAIN one : \A j \in DOMAIN c.measures : one[k][j] = Measured(c, c.measures[j], GroupIn(c, P, p, k), p)
      /\ \A k \in DOMAIN all : all[k][i] = Measured(b, b.measures[i], GroupIn(b, Q, q, k), q)
  <2> DEFINE X == Kept(c, P, p)
             Y == Kept(b, Q, q)
  <2>1. \A k : GroupIn(c, P, p, k) = InGroup(c, X, p, k) /\ GroupIn(b, Q, q, k) = InGroup(b, Y, q, k)
    BY DEF GroupIn
  <2> HIDE DEF X, Y
  <2>2. \A k \in DOMAIN Grouped(c, X, p, Nil) : \A j \in DOMAIN c.measures :
          Grouped(c, X, p, Nil)[k][j] = Measured(c, c.measures[j], InGroup(c, X, p, k), p)
    BY GroupedIs
  <2>3. \A k \in DOMAIN Grouped(b, Y, q, Nil) : \A j \in DOMAIN b.measures :
          Grouped(b, Y, q, Nil)[k][j] = Measured(b, b.measures[j], InGroup(b, Y, q, k), q)
    BY GroupedIs
  <2> QED
    BY <2>1, <2>2, <2>3 DEF X, Y
<1>2. c.measures[1] = m /\ 1 \in DOMAIN c.measures /\ c.per = b.per
  BY DEF Beside
<1>3. ASSUME NEW k \in DOMAIN one
      PROVE  k \in DOMAIN all /\ Measured(b, m, GroupIn(b, Q, q, k), q) = Measured(c, m, GroupIn(c, P, p, k), p)
  <2>1. k \in DOMAIN all
    BY KeysAlike
  <2>2. CASE b.per = <<>>
    <3>1. Aggregate(m, Inside(b, m), GroupIn(b, Q, q, k), q) = Aggregate(m, Inside(c, m), GroupIn(c, P, p, k), p)
      BY AggregateAlike
    <3> QED
      BY <1>2, <2>1, <2>2, <3>1, Zenon DEF Measured
  <2>3. CASE b.per # <<>>
    BY <2>1, <2>3, EntitiesAlike
  <2> QED
    BY <2>2, <2>3
<1> HIDE DEF one, all
<1>4. \A k \in DOMAIN one : k \in DOMAIN all /\ all[k][i] = one[k][1]
  <2> SUFFICES ASSUME NEW k \in DOMAIN one PROVE k \in DOMAIN all /\ all[k][i] = one[k][1]
    OBVIOUS
  <2>1. one[k][1] = Measured(c, m, GroupIn(c, P, p, k), p)
    BY <1>1, <1>2
  <2>2. all[k][i] = Measured(b, m, GroupIn(b, Q, q, k), q)
    BY <1>1, <1>3
  <2> QED
    BY <1>3, <2>1, <2>2
<1> QED
  BY <1>4 DEF Agrees, one, all

\* The columns of the tables that a block joins.
JoinedRefs(c) == {r \in Refs : r[1] \in {c.fact} \cup {s.to : s \in ToSet(c.joins)}}

LEMMA PairRows ==
  ASSUME NEW bank \in Warehouses, NEW c, NEW b, Ordered(c), Ordered(b), c.fact = b.fact,
         ToSet(c.joins) \subseteq ToSet(b.joins), SingleJoins(bank, b), \A s \in ToSet(b.joins) : Outer(s),
         NEW P, P = JoinedRows(bank, c), NEW Q, Q = JoinedRows(bank, b)
  PROVE  /\ \E h : Alike(h, P, ReadOf(bank, P), Q, ReadOf(bank, Q), JoinedRefs(c))
         /\ IsFiniteSet(P)
         /\ \A e \in P : e[b.fact] \in DOMAIN bank[b.fact]
<1> DEFINE t == b.fact
           D == DOMAIN bank[t]
<1>1. t \in Tables /\ c.fact = t /\ b.joins \in Seq(Steps) /\ c.joins \in Seq(Steps)
  BY DEF Ordered
<1>2. SingleJoins(bank, c) /\ \A s \in ToSet(c.joins) : Outer(s)
  BY DEF SingleJoins
<1>3. FactKept(bank, c, P) /\ FactWhole(bank, c, P) /\ FactKept(bank, b, Q) /\ FactWhole(bank, b, Q)
  BY <1>1, <1>2, JoinsKeepFact
<1>4. D = 1 .. Len(bank[t]) /\ Len(bank[t]) \in Nat
  BY <1>1 DEF Warehouses
<1>5. \A e \in P \cup Q : e[t] \in D /\ e[t] # 0
  BY <1>1, <1>3, <1>4 DEF FactKept
<1>6. /\ \A i \in D : (\E e \in P : e[t] = i) /\ (\E f \in Q : f[t] = i)
      /\ Once(P, t) /\ Once(Q, t)
  BY <1>1, <1>3 DEF FactWhole, FactKept
<1> HIDE DEF t, D
<1> DEFINE h == [e \in P |-> CHOOSE f \in Q : f[t] = e[t]]
<1>7. \A e \in P : h[e] \in Q /\ h[e][t] = e[t]
  BY <1>5, <1>6
<1>8. OneToOne(h, P, Q)
  <2>1. ASSUME NEW x \in P, NEW y \in P, h[x] = h[y] PROVE x = y
    <3>1. x[t] = y[t] /\ x[t] # 0
      BY <1>5, <1>7, <2>1
    <3> QED
      BY <1>6, <3>1 DEF Once
  <2>2. ASSUME NEW z \in Q PROVE \E x \in P : h[x] = z
    <3>1. PICK x \in P : x[t] = z[t]
      BY <1>5, <1>6
    <3>2. h[x][t] = z[t] /\ h[x] \in Q /\ z[t] # 0
      BY <1>5, <1>7, <3>1
    <3>3. h[x] = z
      BY <1>6, <3>2 DEF Once
    <3> QED
      BY <3>3
  <2> QED
    BY <1>7, <2>1, <2>2 DEF OneToOne
<1> HIDE DEF h
<1>9. ASSUME NEW e \in P, NEW r \in JoinedRefs(c)
      PROVE  ReadOf(bank, Q)[h[e]][r] = ReadOf(bank, P)[e][r]
  <2>1. h[e] \in Q /\ h[e][t] = e[t]
    BY <1>7
  <2>2. \A u \in {b.fact} \cup {s.to : s \in ToSet(c.joins)} : e[u] = h[e][u]
    <3>1. e \in JoinedRows(bank, c) /\ h[e] \in JoinedRows(bank, b) /\ e[b.fact] = h[e][b.fact]
      BY <2>1 DEF t
    <3> QED
      BY <3>1, JoinedAlike
  <2>3. r \in Refs /\ e[r[1]] = h[e][r[1]]
    BY <2>2 DEF JoinedRefs
  <2>4. Value(bank, h[e], r) = Value(bank, e, r)
    BY <2>3 DEF Value
  <2> QED
    BY <2>1, <2>3, <2>4 DEF ReadOf
<1>10. Alike(h, P, ReadOf(bank, P), Q, ReadOf(bank, Q), JoinedRefs(c))
  BY <1>8, <1>9 DEF Alike
<1>11. IsFiniteSet(P)
  <2>1. IsFiniteSet(D)
    BY <1>4, Interval
  <2> DEFINE g == [i \in D |-> CHOOSE e \in P : e[t] = i]
  <2>2. \A i \in D : g[i] \in P /\ g[i][t] = i
    BY <1>6
  <2>3. \A e \in P : \E i \in D : g[i] = e
    <3> SUFFICES ASSUME NEW e \in P PROVE g[e[t]] = e
      BY <1>5
    <3>1. g[e[t]] \in P /\ g[e[t]][t] = e[t] /\ e[t] # 0
      BY <1>5, <2>2
    <3> HIDE DEF g
    <3> QED
      BY <1>6, <3>1 DEF Once
  <2> HIDE DEF g
  <2> QED
    BY <2>1, <2>2, <2>3, CountImage
<1>12. \A e \in P : e[b.fact] \in DOMAIN bank[b.fact]
  BY <1>5 DEF t, D
<1> QED
  BY <1>10, <1>11, <1>12

\* The block of a measure alone gives what the measure has in the block.
LEMMA BesideAgrees ==
  ASSUME NEW bank \in Warehouses, NEW c, NEW b, Ordered(c), Ordered(b), c.fact = b.fact,
         ToSet(c.joins) \subseteq ToSet(b.joins), SingleJoins(bank, b), \A s \in ToSet(b.joins) : Outer(s),
         NEW m, NEW W, Beside(c, b, m, W, JoinedRefs(c)), m.table = b.fact, m.agg \in Aggs, SumsSomething(b, m),
         NEW i \in DOMAIN b.measures, b.measures[i] = m
  PROVE  Agrees(InSql(bank, c), InSql(bank, b), i)
<1>1. PICK P : P = JoinedRows(bank, c)
  OBVIOUS
<1>2. PICK Q : Q = JoinedRows(bank, b)
  OBVIOUS
<1>3. PICK p : p = ReadOf(bank, P)
  OBVIOUS
<1>4. PICK q : q = ReadOf(bank, Q)
  OBVIOUS
<1>5. /\ \E h : Alike(h, P, p, Q, q, JoinedRefs(c))
      /\ IsFiniteSet(P)
      /\ \A e \in P : e[b.fact] \in DOMAIN bank[b.fact]
  BY <1>1, <1>2, <1>3, <1>4, PairRows
<1>6. PICK h : Alike(h, P, p, Q, q, JoinedRefs(c))
  BY <1>5
<1>7. Numbered(m, P, p)
  <2> SUFFICES ASSUME NEW e \in P PROVE p[e][<<m.table, m.col>>] \in Nat \cup {Nil}
    BY DEF Numbered
  <2>1. PICK t \in Tables : t = m.table
    BY DEF Ordered
  <2>2. PICK col \in Columns : col = m.col
    BY DEF Beside, JoinedRefs, Refs
  <2>3. <<t, col>> \in Refs
    BY DEF Refs
  <2>4. p[e][<<t, col>>] = Value(bank, e, <<t, col>>)
    BY <1>3, <2>3 DEF ReadOf
  <2>5. bank[t] \in Seq([Columns -> Nat \cup {Nil}])
    BY DEF Warehouses
  <2>6. e[t] \in DOMAIN bank[t]
    BY <1>5, <2>1
  <2>7. bank[t][e[t]] \in [Columns -> Nat \cup {Nil}]
    BY <2>5, <2>6
  <2>8. Value(bank, e, <<t, col>>) \in Nat \cup {Nil}
    BY <2>7 DEF Value
  <2> QED
    BY <2>1, <2>2, <2>4, <2>8
<1>8. Agrees(Grouped(c, Kept(c, P, p), p, Nil), Grouped(b, Kept(b, Q, q), q, Nil), i)
  BY <1>5, <1>6, <1>7, GroupedAlike
<1>9. InSql(bank, c) = Grouped(c, Kept(c, P, p), p, Nil) /\ InSql(bank, b) = Grouped(b, Kept(b, Q, q), q, Nil)
  BY <1>1, <1>2, <1>3, <1>4, InSqlIs
<1> QED
  BY <1>8, <1>9

-----------------------------------------------------------------------------
(* A block's columns and joins, of its measures and of what is asked *)

LEMMA AlternativesAre ==
  ASSUME NEW options \in Options
  PROVE  Alternatives(options) \in Seq(Refs)
<1> DEFINE n == Len(options)
           seqs == [i \in DOMAIN options |-> <<options[i]>> \o InOrder(Equivalents(options[i]), RefBefore)]
           Q == Seq(Refs)
<1>1. options \in Seq(Refs) /\ n \in Nat /\ DOMAIN options = 1 .. n
  BY DEF Options
<1>2. \A i \in 1 .. n : seqs[i] \in Q
  <2> SUFFICES ASSUME NEW i \in 1 .. n PROVE <<options[i]>> \o InOrder(Equivalents(options[i]), RefBefore) \in Seq(Refs)
    BY <1>1
  <2> DEFINE E == Equivalents(options[i])
  <2>1. E \in SUBSET Refs
    BY StepIs DEF Equivalents, Refs
  <2> HIDE DEF E
  <2>2. IsFiniteSet(E)
    <3>1. IsFiniteSet(Refs)
      BY FS_Product, CatalogueAssumption DEF Refs
    <3> QED
      BY <2>1, <3>1, FS_Subset
  <2>3. InOrder(E, RefBefore) \in Seq(E)
    BY <2>1, <2>2, RefsInOrder
  <2>4. InOrder(E, RefBefore) \in Seq(Refs)
    BY <2>1, <2>3, SeqWithin
  <2>5. options[i] \in Refs
    BY <1>1
  <2> QED
    BY <2>4, <2>5 DEF E
<1>3. seqs = [i \in 1 .. n |-> seqs[i]]
  BY <1>1
<1> HIDE DEF seqs, Q
<1>4. seqs \in [1 .. n -> Q]
  BY <1>2, <1>3
<1>5. seqs \in Seq(Q)
  <2> HIDE DEF n
  <2> QED
    BY <1>1, <1>4, BySeq
<1>6. Alternatives(options) = FlattenSeq(seqs)
  BY DEF Alternatives, seqs
<1> QED
  BY <1>5, <1>6, FlattenIn DEF Q

\* The column read where it is reached first.
Found(t, refs, unique) == FirstOf(refs, {r \in ToSet(refs) : Reaches(t, r[1], unique)})
DimsAt(t, request, unique) == [i \in DOMAIN request.dims |-> Found(t, Alternatives(request.dims[i]), unique)]
PeriodAt(t, request, unique) == IF request.period = Nil THEN {} ELSE {Found(t, request.period.options, unique)}
FromOf(request) == IF request.period = Nil THEN Nil ELSE request.period.from
SinceAt(t, request, unique) ==
  {[table |-> r[1], col |-> r[2], op |-> ">=", value |-> FromOf(request), other |-> Nil] :
     r \in PeriodAt(t, request, unique)}
NeededBy(ms, filters) == (UNION {MeasureTables(m) : m \in ToSet(ms)}) \cup TablesOf(filters)
NamedAt(t, request, unique) == {r[1] : r \in ToSet(DimsAt(t, request, unique)) \cup PeriodAt(t, request, unique)}
FiltersAt(t, request, others, several, unique) ==
  {f \in ToSet(request.filters) : Applies(f, others, several, \A u \in TablesOf({f}) : Reaches(t, u, unique))}
Shaped(b, t, g, filters, request, unique) ==
  /\ Nil \notin ToSet(DimsAt(t, request, unique)) \cup PeriodAt(t, request, unique)
  /\ \A u \in NeededBy(g.measures, filters) : Reaches(t, u, unique)
  /\ b.fact = t
  /\ b.joins = JoinsOf(t, NeededBy(g.measures, filters) \cup NamedAt(t, request, unique), unique)
  /\ b.where = Shared(g.measures) \cup filters \cup SinceAt(t, request, unique)
  /\ b.dims = DimsAt(t, request, unique) /\ b.measures = g.measures /\ b.per = g.per

LEMMA ShapedAt ==
  ASSUME NEW t \in Tables, NEW g, NEW request, NEW others, NEW several, NEW unique,
         NEW b, b = ResolveAt(t, g, request, others, several, unique), b # Nil
  PROVE  Shaped(b, t, g, FiltersAt(t, request, others, several, unique), request, unique)
<1> DEFINE filters == FiltersAt(t, request, others, several, unique)
           dims == DimsAt(t, request, unique)
           period == PeriodAt(t, request, unique)
           from == FromOf(request)
           needed == NeededBy(g.measures, filters)
           named == {r[1] : r \in ToSet(dims) \cup period}
           since == {[table |-> r[1], col |-> r[2], op |-> ">=", value |-> from, other |-> Nil] : r \in period}
<1>1. b = Block(t, g, dims, filters, period, from, unique)
  BY Zenon DEF ResolveAt, DimsAt, PeriodAt, FromOf, FiltersAt, Found
<1> HIDE DEF filters, dims, period, from
<1>2. /\ Nil \notin ToSet(dims) \cup period /\ \A u \in needed : Reaches(t, u, unique)
      /\ b = [fact |-> t, joins |-> JoinsOf(t, needed \cup named, unique),
              where |-> Shared(g.measures) \cup filters \cup since,
              dims |-> dims, measures |-> g.measures, per |-> g.per]
  BY <1>1, Zenon DEF Block, NeededBy
<1>3. named = NamedAt(t, request, unique) /\ since = SinceAt(t, request, unique)
  BY DEF NamedAt, SinceAt, dims, period, from
<1> HIDE DEF needed, named, since
<1>4. /\ b.fact = t /\ b.joins = JoinsOf(t, needed \cup named, unique) /\ b.where = Shared(g.measures) \cup filters \cup since
      /\ b.dims = dims /\ b.measures = g.measures /\ b.per = g.per
  BY <1>2
<1> QED
  BY <1>2, <1>3, <1>4, Zenon DEF Shaped, filters, dims, period, needed

LEMMA FoundIs ==
  ASSUME NEW t, NEW refs \in Seq(Refs), NEW unique, Found(t, refs, unique) # Nil
  PROVE  Found(t, refs, unique) \in Refs /\ Reaches(t, Found(t, refs, unique)[1], unique)
<1> DEFINE S == {r \in ToSet(refs) : Reaches(t, r[1], unique)}
<1>1. S \subseteq Refs /\ \A r \in S : Reaches(t, r[1], unique)
  BY DEF ToSet
<1> HIDE DEF S
<1>2. FirstOf(refs, S) # Nil
  BY DEF Found, S
<1>3. FirstOf(refs, S) \in S
  BY <1>2, FirstOfIs
<1> QED
  BY <1>1, <1>3 DEF Found, S

LEMMA NamedAre ==
  ASSUME NEW t, NEW request \in Request, NEW unique,
         Nil \notin ToSet(DimsAt(t, request, unique)) \cup PeriodAt(t, request, unique)
  PROVE  /\ \A r \in ToSet(DimsAt(t, request, unique)) \cup PeriodAt(t, request, unique) :
              r \in Refs /\ Reaches(t, r[1], unique)
         /\ \A i \in DOMAIN DimsAt(t, request, unique) :
              DimsAt(t, request, unique)[i] \in ToSet(DimsAt(t, request, unique))
<1> DEFINE dims == DimsAt(t, request, unique)
           period == PeriodAt(t, request, unique)
<1>1. /\ request.dims \in Seq(Options)
      /\ request.period # Nil => request.period.options \in Seq(Refs)
  BY DEF Request, Options
<1>2. ASSUME NEW i \in DOMAIN request.dims PROVE dims[i] \in Refs /\ Reaches(t, dims[i][1], unique)
  <2>1. PICK options \in Options : options = request.dims[i]
    BY <1>1
  <2>2. PICK refs \in Seq(Refs) : refs = Alternatives(options)
    BY AlternativesAre
  <2>3. dims[i] = Found(t, refs, unique) /\ dims[i] \in ToSet(dims)
    BY <2>1, <2>2 DEF DimsAt, ToSet
  <2>4. Found(t, refs, unique) # Nil
    BY <2>3
  <2> QED
    BY <2>3, <2>4, FoundIs
<1>3. ASSUME NEW r \in period PROVE r \in Refs /\ Reaches(t, r[1], unique)
  <2>1. request.period # Nil /\ r = Found(t, request.period.options, unique)
    BY <1>3 DEF PeriodAt
  <2> QED
    BY <1>1, <2>1, FoundIs
<1>4. DOMAIN dims = DOMAIN request.dims
  BY DEF DimsAt
<1> HIDE DEF dims, period
<1>5. \A r \in ToSet(dims) : r \in Refs /\ Reaches(t, r[1], unique)
  BY <1>2, <1>4 DEF ToSet
<1>6. \A i \in DOMAIN dims : dims[i] \in ToSet(dims)
  BY DEF ToSet
<1> QED
  BY <1>3, <1>5, <1>6 DEF dims, period

LEMMA RouteEnds ==
  ASSUME NEW t \in Tables, NEW u, NEW unique, Reaches(t, u, unique), u # t
  PROVE  \E s \in ToSet(Route(t, u, unique)) : s.to = u
<1> DEFINE p == Route(t, u, unique)
<1>1. p \in Routes(t, u, unique)
  BY RouteFound
<1> HIDE DEF p
<1>2. p \in UNION {[1 .. n -> Steps] : n \in 1 .. Hops} /\ IsRoute(p, t, u, unique)
  BY <1>1 DEF Routes
<1>3. PICK n \in 1 .. Hops : p \in [1 .. n -> Steps]
  BY <1>2
<1>4. n \in Nat /\ n \in DOMAIN p /\ Len(p) = n
  BY <1>3, CatalogueAssumption
<1>5. p[n].to = u /\ p[n] \in ToSet(p)
  BY <1>2, <1>4 DEF IsRoute, ToSet
<1> QED
  BY <1>5 DEF p

LEMMA NeededIs ==
  ASSUME NEW ms, NEW filters, NEW u
  PROVE  u \in NeededBy(ms, filters) <=> u \in TablesOf(filters) \/ \E x \in ToSet(ms) : u \in MeasureTables(x)
BY DEF NeededBy

\* The tables of a block.
UsedAt(t, g, filters, request, unique) == NeededBy(g.measures, filters) \cup NamedAt(t, request, unique)

LEMMA ShapedJoins ==
  ASSUME NEW t \in Tables, NEW g, NEW filters, NEW request \in Request, NEW unique,
         NEW b, Shaped(b, t, g, filters, request, unique)
  PROVE  /\ Ordered(b) /\ b.fact = t
         /\ RoutesTo(b.joins, t, UsedAt(t, g, filters, request, unique), unique)
         /\ \A r \in Refs : r[1] \in UsedAt(t, g, filters, request, unique) => r \in JoinedRefs(b)
<1> DEFINE used == UsedAt(t, g, filters, request, unique)
<1>1. \A u \in used : Reaches(t, u, unique)
  <2>1. \A u \in NamedAt(t, request, unique) : Reaches(t, u, unique)
    BY NamedAre DEF Shaped, NamedAt
  <2> QED
    BY <2>1 DEF Shaped, UsedAt
<1>0. b.joins = JoinsOf(t, used, unique)
  BY DEF Shaped, UsedAt
<1> HIDE DEF used
<1>2. used \in SUBSET Tables
  BY <1>1, ReachesTable
<1>3. b.fact = t /\ b.joins = JoinsOf(t, used, unique)
  BY <1>0 DEF Shaped
<1>4. /\ b.joins \in Seq(Arriving(t, unique)) /\ Chained(t, b.joins) /\ Distinctly(b.joins)
      /\ RoutesTo(b.joins, t, used, unique)
  <2>1. /\ JoinsOf(t, used, unique) \in Seq(Arriving(t, unique))
        /\ Chained(t, JoinsOf(t, used, unique)) /\ Distinctly(JoinsOf(t, used, unique))
        /\ RoutesTo(JoinsOf(t, used, unique), t, used, unique)
    BY <1>1, <1>2, JoinsAreRoutes
  <2> QED
    BY <1>3, <2>1, Zenon
<1>5. \A s \in ToSet(b.joins) : s \in Arriving(t, unique)
  BY <1>4 DEF ToSet
<1>6. b.joins \in Seq(Steps) /\ \A s \in ToSet(b.joins) : s.to # t
  <2>1. Arriving(t, unique) \subseteq Steps
    BY ArrivingIs
  <2> DEFINE A == Arriving(t, unique)
  <2> HIDE DEF A
  <2>2. b.joins \in Seq(Steps)
    BY <1>4, <2>1, SeqWithin DEF A
  <2> QED
    BY <1>5, <2>2, ArrivingIs
<1>7. Ordered(b)
  BY <1>3, <1>4, <1>6 DEF Ordered
<1>8. ASSUME NEW r \in Refs, r[1] \in used PROVE r \in JoinedRefs(b)
  <2>1. CASE r[1] = t
    BY <1>3, <2>1 DEF JoinedRefs
  <2>2. CASE r[1] # t
    <3>1. \E s \in ToSet(Route(t, r[1], unique)) : s.to = r[1]
      BY <1>1, <1>8, <2>2, RouteEnds
    <3>2. \E s \in ToSet(b.joins) : s.to = r[1]
      BY <1>4, <1>8, <2>2, <3>1 DEF RoutesTo
    <3> QED
      BY <3>2 DEF JoinedRefs
  <2> QED
    BY <2>1, <2>2
<1> QED
  BY <1>3, <1>4, <1>7, <1>8 DEF used

LEMMA ConditionReads ==
  ASSUME NEW C, C \subseteq Condition, NEW x \in C, NEW R, \A r \in Refs : r[1] \in TablesOf(C) => r \in R
  PROVE  ReadOn(x, R)
<1>1. x.table \in Tables /\ x.col \in Columns /\ (x.other # Nil => x.other \in Refs)
  BY DEF Condition
<1>2. RefOf(x) \in Refs /\ RefOf(x) \in ReadsOf(x)
  BY <1>1 DEF RefOf, Refs, ReadsOf
<1>3. x.other # Nil => x.other \in Refs /\ x.other \in ReadsOf(x)
  BY <1>1 DEF ReadsOf
<1>4. \A r \in ReadsOf(x) : r[1] \in TablesOf(C)
  BY DEF TablesOf
<1> QED
  BY <1>2, <1>3, <1>4 DEF ReadOn

\* Of the same request, at the same table, with the same filters: a measure's
\* block beside others' and its own.
\* c is the block at t of a measure alone, b one of a group it is in.
BothShaped(b, c, m, t, g, one, filters, request, unique) ==
  /\ t \in Tables /\ filters \subseteq Condition /\ request \in Request
  /\ Shaped(b, t, g, filters, request, unique) /\ Shaped(c, t, one, filters, request, unique)
  /\ m \in Measure /\ m \in ToSet(g.measures) /\ g.per = m.per
  /\ one.measures = <<m>> /\ one.per = m.per /\ m.table = t

LEMMA ShapedBeside ==
  ASSUME NEW b, NEW c, NEW m, NEW t, NEW g, NEW one, NEW filters, NEW request, NEW unique,
         BothShaped(b, c, m, t, g, one, filters, request, unique)
  PROVE  /\ Ordered(b) /\ Ordered(c) /\ c.fact = b.fact /\ b.fact = t
         /\ ToSet(c.joins) \subseteq ToSet(b.joins)
         /\ Beside(c, b, m, filters \cup SinceAt(t, request, unique), JoinedRefs(c))
<1> USE DEF BothShaped
<1> DEFINE named == NamedAt(t, request, unique)
           dims == DimsAt(t, request, unique)
           period == PeriodAt(t, request, unique)
           R == JoinedRefs(c)
           W == filters \cup SinceAt(t, request, unique)
<1>1. PICK more : more = UsedAt(t, g, filters, request, unique)
  OBVIOUS
<1>2. PICK used : used = UsedAt(t, one, filters, request, unique)
  OBVIOUS
<1>3. used = MeasureTables(m) \cup TablesOf(filters) \cup named /\ used \subseteq more
  <2>1. ToSet(<<m>>) = {m}
    BY DEF ToSet
  <2>2. NeededBy(one.measures, filters) = MeasureTables(m) \cup TablesOf(filters)
    BY <2>1, NeededIs
  <2>3. MeasureTables(m) \cup TablesOf(filters) \subseteq NeededBy(g.measures, filters)
    BY NeededIs
  <2> QED
    BY <1>1, <1>2, <2>2, <2>3 DEF UsedAt
<1> HIDE DEF named
<1>4. /\ Ordered(b) /\ b.fact = t
      /\ RoutesTo(b.joins, t, more, unique)
  <2>1. /\ Ordered(b) /\ b.fact = t
        /\ RoutesTo(b.joins, t, UsedAt(t, g, filters, request, unique), unique)
        /\ \A r \in Refs : r[1] \in UsedAt(t, g, filters, request, unique) => r \in JoinedRefs(b)
    BY ShapedJoins, Zenon
  <2> QED
    BY <1>1, <2>1, Zenon
<1>5. /\ Ordered(c) /\ c.fact = t
      /\ RoutesTo(c.joins, t, used, unique)
      /\ \A r \in Refs : r[1] \in used => r \in R
  <2>1. /\ Ordered(c) /\ c.fact = t
        /\ RoutesTo(c.joins, t, UsedAt(t, one, filters, request, unique), unique)
        /\ \A r \in Refs : r[1] \in UsedAt(t, one, filters, request, unique) => r \in JoinedRefs(c)
    BY ShapedJoins, Zenon
  <2> QED
    BY <1>2, <2>1, Zenon
<1>6. ToSet(c.joins) \subseteq ToSet(b.joins)
  BY <1>3, <1>4, <1>5 DEF RoutesTo
<1>7. /\ b.dims = dims /\ c.dims = dims /\ b.per = m.per /\ c.per = m.per /\ b.measures = g.measures /\ c.measures = <<m>>
      /\ b.where = Shared(b.measures) \cup W /\ c.where = m.filters \cup W
  BY SharedOfOne DEF Shaped
<1>8. \A i \in DOMAIN dims : dims[i] \in R
  <2> SUFFICES ASSUME NEW i \in DOMAIN dims PROVE dims[i] \in R
    OBVIOUS
  <2>1. dims[i] \in ToSet(dims) /\ dims[i] \in Refs
    BY NamedAre DEF Shaped
  <2>2. dims[i][1] \in named
    BY <2>1 DEF named, NamedAt
  <2> QED
    BY <1>3, <1>5, <2>1, <2>2
<1> HIDE DEF R, dims, period
<1>9. \A i \in DOMAIN m.per : m.per[i] \in R
  <2> SUFFICES ASSUME NEW i \in DOMAIN m.per PROVE m.per[i] \in R
    OBVIOUS
  <2>1. m.per[i] \in Refs /\ m.per[i] \in ToSet(m.per)
    BY DEF Measure, ToSet
  <2>2. m.per[i][1] \in MeasureTables(m)
    BY <2>1 DEF MeasureTables
  <2> QED
    BY <1>3, <1>5, <2>1, <2>2
<1>10. \A x \in m.only \cup m.filters : ReadOn(x, R)
  <2> DEFINE C == m.only \cup m.filters
  <2>1. C \subseteq Condition
    BY DEF Measure
  <2>2. TablesOf(C) \subseteq used
    BY <1>3 DEF MeasureTables
  <2> HIDE DEF C
  <2>3. \A r \in Refs : r[1] \in TablesOf(C) => r \in R
    BY <1>5, <2>2
  <2>4. \A x \in C : ReadOn(x, R)
    BY <2>1, <2>3, ConditionReads
  <2> QED
    BY <2>4 DEF C
<1>11. \A x \in filters : ReadOn(x, R)
  <2>1. \A r \in Refs : r[1] \in TablesOf(filters) => r \in R
    BY <1>3, <1>5
  <2> QED
    BY <2>1, ConditionReads
<1>12. \A x \in SinceAt(t, request, unique) : ReadOn(x, R)
  <2> SUFFICES ASSUME NEW x \in SinceAt(t, request, unique) PROVE ReadOn(x, R)
    OBVIOUS
  <2>1. PICK r \in period : x = [table |-> r[1], col |-> r[2], op |-> ">=", value |-> FromOf(request), other |-> Nil]
    BY DEF SinceAt, period
  <2>2. r \in Refs
    BY NamedAre DEF Shaped, period
  <2>3. r[1] \in named
    BY DEF named, NamedAt, period
  <2>4. r \in R
    BY <1>3, <1>5, <2>2, <2>3
  <2>5. r = <<r[1], r[2]>>
    BY <2>2 DEF Refs
  <2>6. x.other = Nil /\ RefOf(x) = r
    BY <2>1, <2>5 DEF RefOf
  <2> QED
    BY <2>4, <2>6 DEF ReadOn
<1>13. m.table # Nil /\ <<m.table, m.col>> \in R
  <2>1. m.table \in Nat /\ m.table # Nil
    BY CatalogueAssumption
  <2>2. m.col \in Columns
    BY <2>1 DEF Measure
  <2>3. <<t, m.col>> \in Refs /\ <<t, m.col>>[1] = t
    BY <2>2 DEF Refs
  <2>4. t \in MeasureTables(m)
    BY <2>1 DEF MeasureTables
  <2> QED
    BY <1>3, <1>5, <2>1, <2>3, <2>4
<1>14. Beside(c, b, m, W, R)
  BY <1>7, <1>8, <1>9, <1>10, <1>11, <1>12, <1>13 DEF Beside
<1> QED
  BY <1>4, <1>5, <1>6, <1>14 DEF R

-----------------------------------------------------------------------------
(* A measure asked with others, and alone *)

LEMMA AskedAlone ==
  ASSUME NEW request \in Request, NEW m \in Measure, NEW lone, lone = [request EXCEPT !.measures = <<m>>], NEW unique
  PROVE  /\ lone \in Request /\ lone.dims = request.dims /\ lone.filters = request.filters /\ lone.period = request.period
         /\ Groups(lone, unique) = <<[fact |-> m.table, measures |-> <<m>>, per |-> m.per]>>
<1>0. <<m>> \in Seq(Measure)
  OBVIOUS
<1>1. PICK ms \in Seq(Measure) : ms = <<m>>
  BY <1>0, Zenon
<1>2. lone = [request EXCEPT !.measures = ms] /\ Len(ms) = 1 /\ ms[1] = m
  BY <1>1
<1>3. lone \in Request /\ lone.measures = ms
  BY <1>2 DEF Request
<1>4. lone.dims = request.dims /\ lone.filters = request.filters /\ lone.period = request.period
  BY <1>2 DEF Request
<1>5. Groups(lone, unique) = <<[fact |-> lone.measures[1].table, measures |-> <<lone.measures[1]>>, per |-> lone.measures[1].per]>>
  BY <1>2, <1>3, GroupsAre
<1> QED
  BY <1>2, <1>3, <1>4, <1>5

LEMMA SameShape ==
  ASSUME NEW request, NEW lone, lone.dims = request.dims, lone.period = request.period,
         NEW c, NEW t, NEW g, NEW filters, NEW unique, Shaped(c, t, g, filters, lone, unique)
  PROVE  Shaped(c, t, g, filters, request, unique)
<1>1. /\ DimsAt(t, lone, unique) = DimsAt(t, request, unique)
      /\ PeriodAt(t, lone, unique) = PeriodAt(t, request, unique)
      /\ FromOf(lone) = FromOf(request)
  BY Zenon DEF DimsAt, PeriodAt, FromOf
<1>2. /\ SinceAt(t, lone, unique) = SinceAt(t, request, unique)
      /\ NamedAt(t, lone, unique) = NamedAt(t, request, unique)
  BY <1>1, Zenon DEF SinceAt, NamedAt
<1> QED
  BY <1>1, <1>2, Zenon DEF Shaped

\* Alone, a measure's block applies every filter asked; and its block beside
\* others at the same table, what it reached alone.
LEMMA AllApply ==
  ASSUME NEW t, NEW request, NEW others, NEW several, NEW unique, NEW g, NEW c,
         Shaped(c, t, g, ToSet(request.filters), request, unique)
  PROVE  FiltersAt(t, request, others, several, unique) = ToSet(request.filters)
<1> SUFFICES ASSUME NEW f \in ToSet(request.filters), NEW u \in TablesOf({f}) PROVE Reaches(t, u, unique)
  BY DEF FiltersAt, Applies
<1>1. u \in TablesOf(ToSet(request.filters))
  BY DEF TablesOf
<1>2. u \in NeededBy(g.measures, ToSet(request.filters))
  BY <1>1, NeededIs
<1> QED
  BY <1>2 DEF Shaped

LEMMA LoneFilters ==
  ASSUME NEW t, NEW request, NEW others, NEW unique
  PROVE  FiltersAt(t, request, others, FALSE, unique) = ToSet(request.filters)
BY DEF FiltersAt, Applies

LEMMA LoneBlock ==
  ASSUME NEW request \in Request, NEW m \in Measure, NEW unique, NEW t,
         NEW blocks, blocks = Plan([request EXCEPT !.measures = <<m>>], unique), blocks # Nil, blocks[1].fact = t
  PROVE  /\ t \in Tables
         /\ Shaped(blocks[1], t, [fact |-> m.table, measures |-> <<m>>, per |-> m.per], ToSet(request.filters), request, unique)
<1>1. PICK lone : lone = [request EXCEPT !.measures = <<m>>]
  OBVIOUS
<1>2. PICK one : one = [fact |-> m.table, measures |-> <<m>>, per |-> m.per]
  OBVIOUS
<1>3. /\ lone \in Request /\ lone.dims = request.dims /\ lone.filters = request.filters /\ lone.period = request.period
      /\ Groups(lone, unique) = <<one>>
  BY <1>1, <1>2, AskedAlone
<1>4. PICK groups : groups = Groups(lone, unique)
  OBVIOUS
<1>5. \A i \in DOMAIN groups : \E u :
        From(Plan(lone, unique)[i], groups[i], u, lone, FactsOf(groups), Len(groups) > 1, unique)
  BY <1>1, <1>3, <1>4, PlanIs
<1>6. 1 \in DOMAIN groups /\ groups[1] = one /\ (Len(groups) > 1) = FALSE
  BY <1>3, <1>4
<1>7. \E u : From(blocks[1], one, u, lone, FactsOf(groups), FALSE, unique)
  BY <1>1, <1>5, <1>6
<1>8. PICK u : From(blocks[1], one, u, lone, FactsOf(groups), FALSE, unique)
  BY <1>7
<1>9. u \in Tables /\ u = t
  BY <1>8 DEF From, Sound
<1> DEFINE others == FactsOf(groups) \ {one.fact, t}
<1> HIDE DEF others
<1>10. blocks[1] # Nil /\ blocks[1] = ResolveAt(t, one, lone, others, FALSE, unique)
  BY <1>8, <1>9 DEF From, others
<1>11. Shaped(blocks[1], t, one, FiltersAt(t, lone, others, FALSE, unique), lone, unique)
  BY <1>9, <1>10, ShapedAt
<1>12. FiltersAt(t, lone, others, FALSE, unique) = ToSet(request.filters)
  <2>1. FiltersAt(t, lone, others, FALSE, unique) = ToSet(lone.filters)
    BY LoneFilters, Zenon
  <2> QED
    BY <1>3, <2>1, Zenon
<1>13. Shaped(blocks[1], t, one, ToSet(request.filters), request, unique)
  <2>1. PICK filters : filters = ToSet(request.filters)
    OBVIOUS
  <2>2. PICK c : c = blocks[1]
    OBVIOUS
  <2>3. Shaped(c, t, one, filters, lone, unique)
    BY <1>11, <1>12, <2>1, <2>2, Zenon
  <2>4. Shaped(c, t, one, filters, request, unique)
    BY <1>3, <2>3, SameShape, Zenon
  <2> QED
    BY <2>1, <2>2, <2>4, Zenon
<1> QED
  BY <1>2, <1>9, <1>13

LEMMA BlockOf ==
  ASSUME AskInv, NEW v \in Visitors, NEW b \in Compiled(v), NEW unique, unique = True(work[v].known),
         NEW request, request = work[v].request
  PROVE  /\ request \in Request /\ Sound(b, b.fact, unique) /\ b.fact \in Tables
         /\ \E g \in Group : \E others : \E several :
              Shaped(b, b.fact, g, FiltersAt(b.fact, request, others, several, unique), request, unique)
<1>1. PICK groups : groups = Groups(request, unique)
  OBVIOUS
<1>2. PICK several : several = (Len(groups) > 1)
  OBVIOUS
<1>3. /\ request \in Request /\ groups \in Seq(Group)
      /\ \E i \in DOMAIN groups : \E t : From(b, groups[i], t, request, FactsOf(groups), several, unique)
  BY <1>1, <1>2, CompiledFrom
<1>4. PICK i \in DOMAIN groups : \E t : From(b, groups[i], t, request, FactsOf(groups), several, unique)
  BY <1>3
<1>5. PICK t : From(b, groups[i], t, request, FactsOf(groups), several, unique)
  BY <1>4
<1>6. PICK g \in Group : g = groups[i]
  BY <1>3
<1> DEFINE others == FactsOf(groups) \ {g.fact, t}
<1> HIDE DEF others
<1>7. t \in Tables /\ b # Nil /\ b = ResolveAt(t, g, request, others, several, unique) /\ Sound(b, t, unique)
  BY <1>5, <1>6 DEF From, others
<1>8. Shaped(b, t, g, FiltersAt(t, request, others, several, unique), request, unique)
  BY <1>7, ShapedAt
<1>9. b.fact = t
  BY <1>7 DEF Sound
<1> QED
  BY <1>3, <1>7, <1>8, <1>9

LEMMA MeasureAsAlone ==
  ASSUME AskInv, NEW v \in Visitors, NEW b \in Compiled(v), NEW i \in DOMAIN b.measures, NEW m, m = b.measures[i],
         m.table = b.fact, \A s \in ToSet(b.joins) : Outer(s), StillUnique(v, b), SumsSomething(b, m)
  PROVE  AsAlone(b, i, ByItself(v, m))
<1>1. PICK request : request = work[v].request
  OBVIOUS
<1>2. PICK unique : unique = True(work[v].known)
  OBVIOUS
<1>3. PICK blocks : blocks = Plan([request EXCEPT !.measures = <<m>>], unique)
  OBVIOUS
<1> SUFFICES ASSUME blocks # Nil, blocks[1].fact = b.fact
             PROVE  Agrees(InSql(data, blocks[1]), InSql(data, b), i)
  BY <1>1, <1>2, <1>3 DEF AsAlone, ByItself
<1>4. PICK t : t = b.fact
  OBVIOUS
<1>5. /\ request \in Request /\ Sound(b, t, unique) /\ t \in Tables
      /\ \E g \in Group : \E others : \E several :
           Shaped(b, t, g, FiltersAt(t, request, others, several, unique), request, unique)
  BY <1>1, <1>2, <1>4, BlockOf
<1>6. PICK g \in Group : \E others : \E several :
           Shaped(b, t, g, FiltersAt(t, request, others, several, unique), request, unique)
  BY <1>5
<1>7. PICK others : \E several : Shaped(b, t, g, FiltersAt(t, request, others, several, unique), request, unique)
  BY <1>6
<1>8. PICK several : Shaped(b, t, g, FiltersAt(t, request, others, several, unique), request, unique)
  BY <1>7
<1>9. m \in ToSet(b.measures) /\ b.measures = g.measures
  BY <1>8 DEF Shaped, ToSet
<1>10. m \in Measure /\ m \in ToSet(g.measures) /\ m.per = g.per
  <2>1. g.measures \in Seq(Measure) /\ \A x \in ToSet(g.measures) : x.per = g.per
    BY DEF Group
  <2>2. \A x \in ToSet(g.measures) : x \in Measure
    BY <2>1 DEF ToSet
  <2> QED
    BY <1>9, <2>1, <2>2
<1>11. PICK one : one = [fact |-> m.table, measures |-> <<m>>, per |-> m.per]
  OBVIOUS
<1>12. PICK c : c = blocks[1]
  OBVIOUS
<1>13. PICK filters : filters = ToSet(request.filters)
  OBVIOUS
<1>14. Shaped(c, t, one, filters, request, unique)
  BY <1>3, <1>4, <1>5, <1>10, <1>11, <1>12, <1>13, LoneBlock
<1>15. FiltersAt(t, request, others, several, unique) = filters
  BY <1>13, <1>14, AllApply
<1>16. Shaped(b, t, g, filters, request, unique)
  BY <1>8, <1>15
<1>17. filters \subseteq Condition
  <2>1. request.filters \in Seq(Condition)
    BY <1>5 DEF Request
  <2> QED
    BY <1>13, <2>1 DEF ToSet
<1>18. one.measures = <<m>> /\ one.per = m.per
  BY <1>11
<1> DEFINE W == filters \cup SinceAt(t, request, unique)
<1>19. /\ Ordered(b) /\ Ordered(c) /\ c.fact = b.fact
       /\ ToSet(c.joins) \subseteq ToSet(b.joins)
       /\ Beside(c, b, m, W, JoinedRefs(c))
  <2>1. g.per = m.per /\ m.table = t /\ m \in Measure /\ m \in ToSet(g.measures)
    BY <1>4, <1>10
  <2>3. t \in Tables /\ request \in Request
    BY <1>5
  <2>2. /\ Ordered(b) /\ Ordered(c) /\ c.fact = b.fact /\ b.fact = t
        /\ ToSet(c.joins) \subseteq ToSet(b.joins)
        /\ Beside(c, b, m, filters \cup SinceAt(t, request, unique), JoinedRefs(c))
    <3>1. BothShaped(b, c, m, t, g, one, filters, request, unique)
      BY <1>14, <1>16, <1>17, <1>18, <2>1, <2>3 DEF BothShaped
    <3> QED
      BY <3>1, ShapedBeside, Zenon
  <2> QED
    BY <2>2, Zenon
<1> HIDE DEF W
<1>20. data \in Warehouses
  BY DEF AskInv, FilesInv
<1>21. SingleJoins(data, b)
  BY <1>2, <1>5, StillSingle
<1>22. m.agg \in Aggs
  BY <1>10 DEF Measure, Aggs
<1>23. Agrees(InSql(data, c), InSql(data, b), i)
  BY <1>19, <1>20, <1>21, <1>22, BesideAgrees
<1> QED
  BY <1>12, <1>23

\* A measure asked with others has the value it has asked alone, on its own
\* table and past outer joins (Ask.Together): neither the other measures of its
\* block, the tables they join and the filters they share, nor the other blocks
\* change it, whatever the catalogue, the rows and the request; per entity and
\* in no groups, of the same filters.
THEOREM MeasuresAreAsAlone == Spec => []Together
<1>1. AskInv => Together
  <2> SUFFICES ASSUME AskInv, NEW v \in Visitors, NEW b \in Compiled(v), NEW i \in DOMAIN b.measures,
                      NEW m, m = b.measures[i], m.table = b.fact, \A s \in ToSet(b.joins) : Outer(s),
                      StillUnique(v, b), SumsSomething(b, m)
               PROVE  AsAlone(b, i, ByItself(v, m))
    BY DEF Together
  <2> QED
    BY MeasureAsAlone
<1> QED
  BY <1>1, AskInvariant, PTL

-----------------------------------------------------------------------------
(* What a block's Cypher is decided by: folds over its joins *)

\* What a join makes of rows, an inner or an outer one.
Extends(bank, e, s, outer) ==
  LET found == Matches(bank, s, Value(bank, e, <<s.from, s.mine>>))
  IN  e[s.to] \in found \/ (found = {} /\ outer /\ e[s.to] = 0)

LEMMA StepTables == ASSUME NEW s \in Steps PROVE s.from \in Tables /\ s.to \in Tables /\ s.mine \in Columns /\ s.theirs \in Columns
  BY CatalogueAssumption DEF Steps

LEMMA MatchesIn ==
  ASSUME NEW bank \in Warehouses, NEW s \in Steps, NEW x
  PROVE  Matches(bank, s, x) \subseteq Nat \ {0}
<1>1. bank[s.to] \in Seq([Columns -> Nat \cup {Nil}])
  BY StepTables DEF Warehouses
<1> QED
  BY <1>1 DEF Matches

LEMMA ExtendedIs ==
  ASSUME NEW bank \in Warehouses, NEW rows \in Rows, NEW s \in Steps, s.from # s.to, \A e \in rows : e[s.to] = 0,
         NEW outer \in BOOLEAN, NEW f
  PROVE  f \in Extended(bank, rows, s, outer) <=>
           f \in [Tables -> Nat] /\ Extends(bank, f, s, outer) /\ [f EXCEPT ![s.to] = 0] \in rows
<1> DEFINE found(e) == Matches(bank, s, Value(bank, e, <<s.from, s.mine>>))
           Made(e) == IF found(e) = {} /\ outer THEN {e} ELSE {[e EXCEPT ![s.to] = i] : i \in found(e)}
<1>1. Extended(bank, rows, s, outer) = UNION {Made(e) : e \in rows}
  BY DEF Extended
<1>2. s.to \in Tables /\ s.from \in Tables
  BY StepTables
<1>3. \A e : found(e) \subseteq Nat \ {0}
  BY MatchesIn
<1>4. \A e, g : e[s.from] = g[s.from] => found(e) = found(g)
  BY DEF Value
<1>5. \A e \in rows : e \in [Tables -> Nat] /\ e[s.to] = 0
  BY DEF Rows
<1>6. Extends(bank, f, s, outer) <=> f[s.to] \in found(f) \/ (found(f) = {} /\ outer /\ f[s.to] = 0)
  BY DEF Extends
<1> HIDE DEF found
<1>7. ASSUME NEW e \in rows, f \in Made(e)
      PROVE  f \in [Tables -> Nat] /\ Extends(bank, f, s, outer) /\ [f EXCEPT ![s.to] = 0] \in rows
  <2>1. e \in [Tables -> Nat] /\ e[s.to] = 0
    BY <1>5
  <2>2. CASE found(e) = {} /\ outer
    <3>1. f = e
      BY <1>7, <2>2
    <3>2. [f EXCEPT ![s.to] = 0] = e
      BY <2>1, <3>1
    <3> QED
      BY <1>6, <2>1, <2>2, <3>1, <3>2
  <2>3. CASE ~ (found(e) = {} /\ outer)
    <3>1. PICK i \in found(e) : f = [e EXCEPT ![s.to] = i]
      BY <1>7, <2>3
    <3>2. i \in Nat
      BY <1>3, <3>1
    <3>3. f \in [Tables -> Nat] /\ f[s.to] = i /\ f[s.from] = e[s.from]
      BY <1>2, <2>1, <3>1, <3>2
    <3>4. [f EXCEPT ![s.to] = 0] = e
      BY <1>2, <2>1, <3>1, <3>2
    <3>5. found(f) = found(e)
      BY <1>4, <3>3
    <3> QED
      BY <1>6, <3>1, <3>3, <3>4, <3>5
  <2> QED
    BY <2>2, <2>3
<1>8. ASSUME f \in [Tables -> Nat], Extends(bank, f, s, outer), [f EXCEPT ![s.to] = 0] \in rows
      PROVE  \E e \in rows : f \in Made(e)
  <2>1. PICK e \in rows : e = [f EXCEPT ![s.to] = 0]
    BY <1>8
  <2>2. e[s.from] = f[s.from] /\ f = [e EXCEPT ![s.to] = f[s.to]]
    BY <1>2, <1>8, <2>1
  <2>3. found(e) = found(f)
    BY <1>4, <2>2
  <2>4. CASE f[s.to] \in found(f)
    BY <2>1, <2>2, <2>3, <2>4
  <2>5. CASE found(f) = {} /\ outer /\ f[s.to] = 0
    <3>1. e = f
      BY <1>2, <1>8, <2>1, <2>5
    <3> QED
      BY <2>1, <2>3, <2>5, <3>1
  <2> QED
    BY <1>6, <1>8, <2>4, <2>5
<1> HIDE DEF Made
<1> QED
  BY <1>1, <1>7, <1>8

LEMMA ExtendedIn ==
  ASSUME NEW bank \in Warehouses, NEW rows \in Rows, NEW s \in Steps, NEW outer \in BOOLEAN
  PROVE  Extended(bank, rows, s, outer) \in Rows
<1> SUFFICES ASSUME NEW f \in Extended(bank, rows, s, outer) PROVE f \in [Tables -> Nat]
  BY DEF Rows
<1> DEFINE found(e) == Matches(bank, s, Value(bank, e, <<s.from, s.mine>>))
           Made(e) == IF found(e) = {} /\ outer THEN {e} ELSE {[e EXCEPT ![s.to] = i] : i \in found(e)}
<1>1. Extended(bank, rows, s, outer) = UNION {Made(e) : e \in rows}
  BY DEF Extended
<1>2. PICK e \in rows : f \in Made(e)
  BY <1>1
<1>3. found(e) \subseteq Nat
  BY MatchesIn
<1>4. e \in [Tables -> Nat] /\ s.to \in Tables
  BY StepTables DEF Rows
<1> HIDE DEF found
<1>5. f = e \/ \E i \in found(e) : f = [e EXCEPT ![s.to] = i]
  BY <1>2
<1> QED
  BY <1>3, <1>4, <1>5

\* A step of each fold.
PointOne(at, s) == IF Outer(s) THEN [at EXCEPT ![<<s.to, s.theirs>>] = at[<<s.from, s.mine>>]] ELSE at
NeedOne(ts, s) == IF s.to \in ts THEN ts \cup {s.from} ELSE ts
OptOne(b, ts, s) ==
  IF s \in Walked(b) /\ (s.from \in ts \/ (Outer(s) /\ s.to \notin FilteredOn(b))) THEN ts \cup {s.to} ELSE ts
MatchOne(bank, rows, s, some, optional) == IF s \in some THEN Extended(bank, rows, s, optional) ELSE rows

LEMMA PointingFold ==
  ASSUME NEW b, b.joins \in Seq(Steps)
  PROVE  \E g : /\ g[0] = [r \in Refs |-> r]
                /\ \A k \in 1 .. Len(b.joins) : g[k] = PointOne(g[k - 1], b.joins[k])
                /\ \A k \in 0 .. Len(b.joins) : g[k] \in [Refs -> Refs]
                /\ Pointing(b) = g[Len(b.joins)]
<1> DEFINE n == Len(b.joins)
           Is(h) == h = [T \in SUBSET (1 .. n) |->
                      IF T = {} THEN [r \in Refs |-> r] ELSE PointOne(h[T \ {Max(T)}], b.joins[Max(T)])]
           A == [Refs -> Refs]
           F == [x \in A \X (1 .. n) |-> PointOne(x[1], b.joins[x[2]])]
<1>1. n \in Nat /\ DOMAIN b.joins = 1 .. n /\ Numbers(1 .. n) /\ IsFiniteSet(1 .. n)
  BY Interval
<1>2. Pointing(b) = (CHOOSE h : Is(h))[1 .. n]
  <2> HIDE DEF n
  <2>1. Pointing(b) = (CHOOSE h : h = [T \in SUBSET (DOMAIN b.joins) |->
                      IF T = {} THEN [r \in Refs |-> r] ELSE PointOne(h[T \ {Max(T)}], b.joins[Max(T)])])[DOMAIN b.joins]
    BY Zenon DEF Pointing, PointOne, FoldLeft, MapThenFoldSet
  <2> QED
    BY <1>1, <2>1, Zenon
<1>3. F \in [A \X (1 .. n) -> A] /\ [r \in Refs |-> r] \in A
  <2>1. \A s \in Steps : <<s.from, s.mine>> \in Refs /\ <<s.to, s.theirs>> \in Refs
    BY CatalogueAssumption DEF Steps, Refs
  <2>2. \A i \in 1 .. n : b.joins[i] \in Steps
    BY <1>1
  <2>3. \A at \in A, s \in Steps : PointOne(at, s) \in A
    BY <2>1 DEF PointOne
  <2> QED
    BY <2>2, <2>3
<1>4. PICK h0 : FoldIs(h0, F, [r \in Refs |-> r], 1 .. n, A)
  <2> DEFINE N == 1 .. n
  <2> HIDE DEF F, A, N
  <2>1. \E h0 : FoldIs(h0, F, [r \in Refs |-> r], N, A)
    BY <1>1, <1>3, FoldIn DEF N
  <2> QED
    BY <2>1 DEF N
<1>5. Is(h0)
  <2>1. ASSUME NEW T \in SUBSET (1 .. n), T # {} PROVE h0[T] = PointOne(h0[T \ {Max(T)}], b.joins[Max(T)])
    BY <1>4, <2>1 DEF FoldIs
  <2>2. h0[{}] = [r \in Refs |-> r]
    BY <1>4 DEF FoldIs
  <2>3. \A T \in SUBSET (1 .. n) : h0[T] = IF T = {} THEN [r \in Refs |-> r] ELSE PointOne(h0[T \ {Max(T)}], b.joins[Max(T)])
    BY <2>1, <2>2
  <2>4. h0 = [T \in SUBSET (1 .. n) |-> h0[T]]
    BY <1>4 DEF FoldIs
  <2> QED
    BY <2>3, <2>4, Zenon
<1>6. PICK h : h = CHOOSE f : Is(f)
  OBVIOUS
<1>7. Is(h)
  BY <1>5, <1>6, Zenon
<1>8. PICK g : FoldPrefixes(n, h, g)
  <2>1. \E g : FoldPrefixes(n, h, g) /\ g = [k \in 0 .. n |-> h[1 .. k]]
    BY <1>1, PrefixSteps, Zenon
  <2> QED
    BY <2>1, Zenon
<1>9. /\ g[0] = h[{}] /\ g[n] = h[1 .. n]
      /\ \A k \in 1 .. n : /\ g[k] = h[1 .. k] /\ g[k - 1] = h[(1 .. k) \ {Max(1 .. k)}]
                           /\ Max(1 .. k) = k /\ 1 .. k # {} /\ 1 .. k \in SUBSET (1 .. n)
  BY <1>8, Zenon DEF FoldPrefixes
<1>10. g[0] = [r \in Refs |-> r]
  BY <1>7, <1>9, Zenon
<1>11. ASSUME NEW k \in 1 .. n PROVE g[k] = PointOne(g[k - 1], b.joins[k])
  <2>1. h[1 .. k] = PointOne(h[(1 .. k) \ {Max(1 .. k)}], b.joins[Max(1 .. k)])
    BY <1>7, <1>9, Zenon
  <2> QED
    BY <1>9, <2>1, Zenon
<1>12. \A k \in 0 .. n : g[k] \in A
  <2> SUFFICES ASSUME NEW k \in {i \in 0 .. n : g[i] \notin A}, \A i \in {j \in 0 .. n : g[j] \notin A} : k <= i PROVE FALSE
    <3>1. {i \in 0 .. n : g[i] \notin A} \in SUBSET Nat
      OBVIOUS
    <3> QED
      BY <3>1, LeastNumber
  <2>1. k # 0
    BY <1>3, <1>10
  <2>2. k \in 1 .. n /\ k - 1 \in 0 .. n /\ ~ (k <= k - 1)
    BY <1>1, <2>1
  <2>3. g[k - 1] \in A
    BY <2>2
  <2>4. g[k] = F[<<g[k - 1], k>>]
    BY <1>11, <2>2, <2>3
  <2> HIDE DEF F, A
  <2>5. F[<<g[k - 1], k>>] \in A
    BY <1>3, <2>2, <2>3
  <2> QED
    BY <2>4, <2>5
<1>13. Pointing(b) = g[n]
  BY <1>2, <1>6, <1>9, Zenon
<1> HIDE DEF F
<1> QED
  BY <1>10, <1>11, <1>12, <1>13

NeededFrom(base, steps) == FoldLeft(LAMBDA ts, s : NeedOne(ts, s), base, steps)

LEMMA NeededFold ==
  ASSUME NEW base \in SUBSET Tables, NEW steps \in Seq(Steps)
  PROVE  \E g : /\ g[0] = base
                /\ \A k \in 1 .. Len(steps) : g[k] = NeedOne(g[k - 1], steps[k])
                /\ \A k \in 0 .. Len(steps) : g[k] \in SUBSET Tables
                /\ NeededFrom(base, steps) = g[Len(steps)]
<1> DEFINE n == Len(steps)
           Is(h) == h = [T \in SUBSET (1 .. n) |->
                      IF T = {} THEN base ELSE NeedOne(h[T \ {Max(T)}], steps[Max(T)])]
           A == SUBSET Tables
           F == [x \in A \X (1 .. n) |-> NeedOne(x[1], steps[x[2]])]
<1>1. n \in Nat /\ DOMAIN steps = 1 .. n /\ Numbers(1 .. n) /\ IsFiniteSet(1 .. n)
  BY Interval
<1>2. NeededFrom(base, steps) = (CHOOSE h : Is(h))[1 .. n]
  <2> HIDE DEF n
  <2>1. NeededFrom(base, steps) = (CHOOSE h : h = [T \in SUBSET (DOMAIN steps) |->
                      IF T = {} THEN base ELSE NeedOne(h[T \ {Max(T)}], steps[Max(T)])])[DOMAIN steps]
    BY Zenon DEF NeededFrom, NeedOne, FoldLeft, MapThenFoldSet
  <2> QED
    BY <1>1, <2>1, Zenon
<1>3. F \in [A \X (1 .. n) -> A] /\ base \in A
  <2>1. \A s \in Steps : s.from \in Tables
    BY CatalogueAssumption DEF Steps
  <2>2. \A i \in 1 .. n : steps[i] \in Steps
    BY <1>1
  <2>3. \A ts \in A, s \in Steps : NeedOne(ts, s) \in A
    BY <2>1 DEF NeedOne
  <2> QED
    BY <2>2, <2>3
<1>4. PICK h0 : FoldIs(h0, F, base, 1 .. n, A)
  <2> DEFINE N == 1 .. n
  <2> HIDE DEF F, A, N
  <2>1. \E h0 : FoldIs(h0, F, base, N, A)
    BY <1>1, <1>3, FoldIn DEF N
  <2> QED
    BY <2>1 DEF N
<1>5. Is(h0)
  <2>1. ASSUME NEW T \in SUBSET (1 .. n), T # {} PROVE h0[T] = NeedOne(h0[T \ {Max(T)}], steps[Max(T)])
    BY <1>4, <2>1 DEF FoldIs
  <2>2. h0[{}] = base
    BY <1>4 DEF FoldIs
  <2>3. \A T \in SUBSET (1 .. n) : h0[T] = IF T = {} THEN base ELSE NeedOne(h0[T \ {Max(T)}], steps[Max(T)])
    BY <2>1, <2>2
  <2>4. h0 = [T \in SUBSET (1 .. n) |-> h0[T]]
    BY <1>4 DEF FoldIs
  <2> QED
    BY <2>3, <2>4, Zenon
<1>6. PICK h : h = CHOOSE f : Is(f)
  OBVIOUS
<1>7. Is(h)
  BY <1>5, <1>6, Zenon
<1>8. PICK g : FoldPrefixes(n, h, g)
  <2>1. \E g : FoldPrefixes(n, h, g) /\ g = [k \in 0 .. n |-> h[1 .. k]]
    BY <1>1, PrefixSteps, Zenon
  <2> QED
    BY <2>1, Zenon
<1>9. /\ g[0] = h[{}] /\ g[n] = h[1 .. n]
      /\ \A k \in 1 .. n : /\ g[k] = h[1 .. k] /\ g[k - 1] = h[(1 .. k) \ {Max(1 .. k)}]
                           /\ Max(1 .. k) = k /\ 1 .. k # {} /\ 1 .. k \in SUBSET (1 .. n)
  BY <1>8, Zenon DEF FoldPrefixes
<1>10. g[0] = base
  BY <1>7, <1>9, Zenon
<1>11. ASSUME NEW k \in 1 .. n PROVE g[k] = NeedOne(g[k - 1], steps[k])
  <2>1. h[1 .. k] = NeedOne(h[(1 .. k) \ {Max(1 .. k)}], steps[Max(1 .. k)])
    BY <1>7, <1>9, Zenon
  <2> QED
    BY <1>9, <2>1, Zenon
<1>12. \A k \in 0 .. n : g[k] \in A
  <2> SUFFICES ASSUME NEW k \in {i \in 0 .. n : g[i] \notin A}, \A i \in {j \in 0 .. n : g[j] \notin A} : k <= i PROVE FALSE
    <3>1. {i \in 0 .. n : g[i] \notin A} \in SUBSET Nat
      OBVIOUS
    <3> QED
      BY <3>1, LeastNumber
  <2>1. k # 0
    BY <1>3, <1>10
  <2>2. k \in 1 .. n /\ k - 1 \in 0 .. n /\ ~ (k <= k - 1)
    BY <1>1, <2>1
  <2>3. g[k - 1] \in A
    BY <2>2
  <2>4. g[k] = F[<<g[k - 1], k>>]
    BY <1>11, <2>2, <2>3
  <2> HIDE DEF F, A
  <2>5. F[<<g[k - 1], k>>] \in A
    BY <1>3, <2>2, <2>3
  <2> QED
    BY <2>4, <2>5
<1>13. NeededFrom(base, steps) = g[n]
  BY <1>2, <1>6, <1>9, Zenon
<1> HIDE DEF F
<1> QED
  BY <1>10, <1>11, <1>12, <1>13

LEMMA OptionalFold ==
  ASSUME NEW b, b.joins \in Seq(Steps)
  PROVE  \E g : /\ g[0] = {}
                /\ \A k \in 1 .. Len(b.joins) : g[k] = OptOne(b, g[k - 1], b.joins[k])
                /\ \A k \in 0 .. Len(b.joins) : g[k] \in SUBSET Tables
                /\ Optional(b) = g[Len(b.joins)]
<1> DEFINE n == Len(b.joins)
           Is(h) == h = [T \in SUBSET (1 .. n) |->
                      IF T = {} THEN {} ELSE OptOne(b, h[T \ {Max(T)}], b.joins[Max(T)])]
           A == SUBSET Tables
           F == [x \in A \X (1 .. n) |-> OptOne(b, x[1], b.joins[x[2]])]
<1>1. n \in Nat /\ DOMAIN b.joins = 1 .. n /\ Numbers(1 .. n) /\ IsFiniteSet(1 .. n)
  BY Interval
<1>2. Optional(b) = (CHOOSE h : Is(h))[1 .. n]
  <2> HIDE DEF n
  <2>1. Optional(b) = (CHOOSE h : h = [T \in SUBSET (DOMAIN b.joins) |->
                      IF T = {} THEN {} ELSE OptOne(b, h[T \ {Max(T)}], b.joins[Max(T)])])[DOMAIN b.joins]
    BY Zenon DEF Optional, OptOne, FoldLeft, MapThenFoldSet
  <2> QED
    BY <1>1, <2>1, Zenon
<1>3. F \in [A \X (1 .. n) -> A] /\ {} \in A
  <2>1. \A s \in Steps : s.to \in Tables
    BY CatalogueAssumption DEF Steps
  <2>2. \A i \in 1 .. n : b.joins[i] \in Steps
    BY <1>1
  <2>3. \A ts \in A, s \in Steps : OptOne(b, ts, s) \in A
    BY <2>1 DEF OptOne
  <2> QED
    BY <2>2, <2>3
<1>4. PICK h0 : FoldIs(h0, F, {}, 1 .. n, A)
  <2> DEFINE N == 1 .. n
  <2> HIDE DEF F, A, N
  <2>1. \E h0 : FoldIs(h0, F, {}, N, A)
    BY <1>1, <1>3, FoldIn DEF N
  <2> QED
    BY <2>1 DEF N
<1>5. Is(h0)
  <2>1. ASSUME NEW T \in SUBSET (1 .. n), T # {} PROVE h0[T] = OptOne(b, h0[T \ {Max(T)}], b.joins[Max(T)])
    BY <1>4, <2>1 DEF FoldIs
  <2>2. h0[{}] = {}
    BY <1>4 DEF FoldIs
  <2>3. \A T \in SUBSET (1 .. n) : h0[T] = IF T = {} THEN {} ELSE OptOne(b, h0[T \ {Max(T)}], b.joins[Max(T)])
    BY <2>1, <2>2
  <2>4. h0 = [T \in SUBSET (1 .. n) |-> h0[T]]
    BY <1>4 DEF FoldIs
  <2> QED
    BY <2>3, <2>4, Zenon
<1>6. PICK h : h = CHOOSE f : Is(f)
  OBVIOUS
<1>7. Is(h)
  BY <1>5, <1>6, Zenon
<1>8. PICK g : FoldPrefixes(n, h, g)
  <2>1. \E g : FoldPrefixes(n, h, g) /\ g = [k \in 0 .. n |-> h[1 .. k]]
    BY <1>1, PrefixSteps, Zenon
  <2> QED
    BY <2>1, Zenon
<1>9. /\ g[0] = h[{}] /\ g[n] = h[1 .. n]
      /\ \A k \in 1 .. n : /\ g[k] = h[1 .. k] /\ g[k - 1] = h[(1 .. k) \ {Max(1 .. k)}]
                           /\ Max(1 .. k) = k /\ 1 .. k # {} /\ 1 .. k \in SUBSET (1 .. n)
  BY <1>8, Zenon DEF FoldPrefixes
<1>10. g[0] = {}
  BY <1>7, <1>9, Zenon
<1>11. ASSUME NEW k \in 1 .. n PROVE g[k] = OptOne(b, g[k - 1], b.joins[k])
  <2>1. h[1 .. k] = OptOne(b, h[(1 .. k) \ {Max(1 .. k)}], b.joins[Max(1 .. k)])
    BY <1>7, <1>9, Zenon
  <2> QED
    BY <1>9, <2>1, Zenon
<1>12. \A k \in 0 .. n : g[k] \in A
  <2> SUFFICES ASSUME NEW k \in {i \in 0 .. n : g[i] \notin A}, \A i \in {j \in 0 .. n : g[j] \notin A} : k <= i PROVE FALSE
    <3>1. {i \in 0 .. n : g[i] \notin A} \in SUBSET Nat
      OBVIOUS
    <3> QED
      BY <3>1, LeastNumber
  <2>1. k # 0
    BY <1>3, <1>10
  <2>2. k \in 1 .. n /\ k - 1 \in 0 .. n /\ ~ (k <= k - 1)
    BY <1>1, <2>1
  <2>3. g[k - 1] \in A
    BY <2>2
  <2>4. g[k] = F[<<g[k - 1], k>>]
    BY <1>11, <2>2, <2>3
  <2> HIDE DEF F, A
  <2>5. F[<<g[k - 1], k>>] \in A
    BY <1>3, <2>2, <2>3
  <2> QED
    BY <2>4, <2>5
<1>13. Optional(b) = g[n]
  BY <1>2, <1>6, <1>9, Zenon
<1> HIDE DEF F
<1> QED
  BY <1>10, <1>11, <1>12, <1>13

LEMMA MatchedFold ==
  ASSUME NEW bank \in Warehouses, NEW rows \in Rows, NEW joins \in Seq(Steps), NEW some, NEW optional \in BOOLEAN
  PROVE  \E g : /\ g[0] = rows
                /\ \A k \in 1 .. Len(joins) : g[k] = MatchOne(bank, g[k - 1], joins[k], some, optional)
                /\ \A k \in 0 .. Len(joins) : g[k] \in Rows
                /\ Matched(bank, rows, joins, some, optional) = g[Len(joins)]
<1> DEFINE n == Len(joins)
           Is(h) == h = [T \in SUBSET (1 .. n) |->
                      IF T = {} THEN rows ELSE MatchOne(bank, h[T \ {Max(T)}], joins[Max(T)], some, optional)]
           A == Rows
           F == [x \in A \X (1 .. n) |-> MatchOne(bank, x[1], joins[x[2]], some, optional)]
<1>1. n \in Nat /\ DOMAIN joins = 1 .. n /\ Numbers(1 .. n) /\ IsFiniteSet(1 .. n)
  BY Interval
<1>2. Matched(bank, rows, joins, some, optional) = (CHOOSE h : Is(h))[1 .. n]
  <2> HIDE DEF n
  <2>1. Matched(bank, rows, joins, some, optional) = (CHOOSE h : h = [T \in SUBSET (DOMAIN joins) |->
                      IF T = {} THEN rows ELSE MatchOne(bank, h[T \ {Max(T)}], joins[Max(T)], some, optional)])[DOMAIN joins]
    BY Zenon DEF Matched, MatchOne, FoldLeft, MapThenFoldSet
  <2> QED
    BY <1>1, <2>1, Zenon
<1>3. F \in [A \X (1 .. n) -> A] /\ rows \in A
  <2>1. \A i \in 1 .. n : joins[i] \in Steps
    BY <1>1
  <2>2. \A rs \in Rows, s \in Steps : MatchOne(bank, rs, s, some, optional) \in Rows
    BY ExtendedIn DEF MatchOne
  <2> QED
    BY <2>1, <2>2
<1>4. PICK h0 : FoldIs(h0, F, rows, 1 .. n, A)
  <2> DEFINE N == 1 .. n
  <2> HIDE DEF F, A, N
  <2>1. \E h0 : FoldIs(h0, F, rows, N, A)
    BY <1>1, <1>3, FoldIn DEF N
  <2> QED
    BY <2>1 DEF N
<1>5. Is(h0)
  <2>1. ASSUME NEW T \in SUBSET (1 .. n), T # {} PROVE h0[T] = MatchOne(bank, h0[T \ {Max(T)}], joins[Max(T)], some, optional)
    BY <1>4, <2>1 DEF FoldIs
  <2>2. h0[{}] = rows
    BY <1>4 DEF FoldIs
  <2>3. \A T \in SUBSET (1 .. n) : h0[T] = IF T = {} THEN rows ELSE MatchOne(bank, h0[T \ {Max(T)}], joins[Max(T)], some, optional)
    BY <2>1, <2>2
  <2>4. h0 = [T \in SUBSET (1 .. n) |-> h0[T]]
    BY <1>4 DEF FoldIs
  <2> QED
    BY <2>3, <2>4, Zenon
<1>6. PICK h : h = CHOOSE f : Is(f)
  OBVIOUS
<1>7. Is(h)
  BY <1>5, <1>6, Zenon
<1>8. PICK g : FoldPrefixes(n, h, g)
  <2>1. \E g : FoldPrefixes(n, h, g) /\ g = [k \in 0 .. n |-> h[1 .. k]]
    BY <1>1, PrefixSteps, Zenon
  <2> QED
    BY <2>1, Zenon
<1>9. /\ g[0] = h[{}] /\ g[n] = h[1 .. n]
      /\ \A k \in 1 .. n : /\ g[k] = h[1 .. k] /\ g[k - 1] = h[(1 .. k) \ {Max(1 .. k)}]
                           /\ Max(1 .. k) = k /\ 1 .. k # {} /\ 1 .. k \in SUBSET (1 .. n)
  BY <1>8, Zenon DEF FoldPrefixes
<1>10. g[0] = rows
  BY <1>7, <1>9, Zenon
<1>11. ASSUME NEW k \in 1 .. n PROVE g[k] = MatchOne(bank, g[k - 1], joins[k], some, optional)
  <2>1. h[1 .. k] = MatchOne(bank, h[(1 .. k) \ {Max(1 .. k)}], joins[Max(1 .. k)], some, optional)
    BY <1>7, <1>9, Zenon
  <2> QED
    BY <1>9, <2>1, Zenon
<1>12. \A k \in 0 .. n : g[k] \in A
  <2> SUFFICES ASSUME NEW k \in {i \in 0 .. n : g[i] \notin A}, \A i \in {j \in 0 .. n : g[j] \notin A} : k <= i PROVE FALSE
    <3>1. {i \in 0 .. n : g[i] \notin A} \in SUBSET Nat
      OBVIOUS
    <3> QED
      BY <3>1, LeastNumber
  <2>1. k # 0
    BY <1>3, <1>10
  <2>2. k \in 1 .. n /\ k - 1 \in 0 .. n /\ ~ (k <= k - 1)
    BY <1>1, <2>1
  <2>3. g[k - 1] \in A
    BY <2>2
  <2>4. g[k] = F[<<g[k - 1], k>>]
    BY <1>11, <2>2, <2>3
  <2> HIDE DEF F, A
  <2>5. F[<<g[k - 1], k>>] \in A
    BY <1>3, <2>2, <2>3
  <2> QED
    BY <2>4, <2>5
<1>13. Matched(bank, rows, joins, some, optional) = g[n]
  BY <1>2, <1>6, <1>9, Zenon
<1> HIDE DEF F
<1> QED
  BY <1>10, <1>11, <1>12, <1>13

LEMMA StepsLater ==
  ASSUME NEW b, Ordered(b), NEW i \in DOMAIN b.joins, NEW k \in DOMAIN b.joins
  PROVE  /\ b.joins[i] \in Steps /\ b.joins[i].from # b.joins[i].to /\ b.joins[i].to # b.fact
         /\ b.joins[i].to = b.joins[k].to => i = k
         /\ i <= k => b.joins[i].from # b.joins[k].to
         /\ b.joins[i].from = b.fact \/ \E q \in 1 .. i - 1 : b.joins[q].to = b.joins[i].from
<1>1. b.joins \in Seq(Steps) /\ Chained(b.fact, b.joins) /\ Distinctly(b.joins) /\ \A s \in ToSet(b.joins) : s.to # b.fact
  BY DEF Ordered
<1>2. i \in Nat /\ k \in Nat /\ i \in 1 .. Len(b.joins) /\ k \in 1 .. Len(b.joins) /\ b.joins[i] \in Steps
  BY <1>1
<1>3. b.joins[i].to # b.fact /\ b.joins[k].to # b.fact
  BY <1>1 DEF ToSet
<1>4. b.joins[i].to = b.joins[k].to => i = k
  BY <1>1 DEF Distinctly
<1>5. b.joins[i].from = b.fact \/ \E q \in 1 .. i - 1 : b.joins[q].to = b.joins[i].from
  BY <1>1 DEF Chained
<1>6. ASSUME NEW j \in DOMAIN b.joins, i <= j PROVE b.joins[i].from # b.joins[j].to
  <2>1. b.joins[j].to # b.fact
    BY <1>1 DEF ToSet
  <2>2. CASE b.joins[i].from = b.fact
    BY <2>1, <2>2
  <2>3. CASE \E q \in 1 .. i - 1 : b.joins[q].to = b.joins[i].from
    <3>1. PICK q \in 1 .. i - 1 : b.joins[q].to = b.joins[i].from
      BY <2>3
    <3>2. q \in DOMAIN b.joins /\ q # j
      BY <1>1, <1>2, <1>6
    <3> QED
      BY <1>1, <3>1, <3>2 DEF Distinctly
  <2> QED
    BY <1>5, <2>2, <2>3
<1> QED
  BY <1>2, <1>3, <1>4, <1>5, <1>6

-----------------------------------------------------------------------------
(* Where a column is read *)

FromRef(s) == <<s.from, s.mine>>
ToRef(s) == <<s.to, s.theirs>>
\* Where the first k joins have a column read.
PointedTo(b, k, at) ==
  \A x \in Refs :
    \/ \E i \in 1 .. k : Outer(b.joins[i]) /\ x = ToRef(b.joins[i]) /\ at[x] = at[FromRef(b.joins[i])]
    \/ at[x] = x /\ \A i \in 1 .. k : Outer(b.joins[i]) => x # ToRef(b.joins[i])

LEMMA PointOneMore ==
  ASSUME NEW b, Ordered(b), NEW k \in 1 .. Len(b.joins), NEW at \in [Refs -> Refs], PointedTo(b, k - 1, at)
  PROVE  PointedTo(b, k, PointOne(at, b.joins[k]))
<1> DEFINE js == b.joins
<1>0. js \in Seq(Steps) /\ k \in DOMAIN js /\ \A i \in 1 .. k : i \in DOMAIN js
  BY DEF Ordered
<1>1. PICK s \in Steps : s = js[k]
  BY <1>0
<1>2. s.from # s.to /\ ToRef(s) \in Refs /\ FromRef(s) \in Refs /\ ToRef(s) # FromRef(s)
  BY <1>0, <1>1, StepsLater, StepTables DEF ToRef, FromRef, Refs
<1>3. \A i \in 1 .. k : FromRef(js[i]) # ToRef(s) /\ FromRef(js[i]) \in Refs
  <2> SUFFICES ASSUME NEW i \in 1 .. k PROVE FromRef(js[i]) # ToRef(s) /\ FromRef(js[i]) \in Refs
    OBVIOUS
  <2>1. js[i].from # s.to /\ js[i] \in Steps
    BY <1>0, <1>1, StepsLater
  <2> QED
    BY <2>1, StepTables DEF FromRef, ToRef, Refs
<1> HIDE DEF js
<1>4. 1 .. k = 1 .. (k - 1) \cup {k} /\ k \in 1 .. k
  OBVIOUS
<1>5. CASE ~ Outer(s)
  BY <1>1, <1>4, <1>5 DEF PointOne, PointedTo, js
<1>6. CASE Outer(s)
  <2> DEFINE new == [at EXCEPT ![ToRef(s)] = at[FromRef(s)]]
  <2>1. PointOne(at, s) = new
    BY <1>6 DEF PointOne, ToRef, FromRef
  <2>2. new[ToRef(s)] = at[FromRef(s)] /\ \A x \in Refs : x # ToRef(s) => new[x] = at[x]
    BY <1>2
  <2> HIDE DEF new
  <2> SUFFICES ASSUME NEW x \in Refs
               PROVE  \/ \E i \in 1 .. k : Outer(js[i]) /\ x = ToRef(js[i]) /\ new[x] = new[FromRef(js[i])]
                      \/ new[x] = x /\ \A i \in 1 .. k : Outer(js[i]) => x # ToRef(js[i])
    BY <1>1, <2>1 DEF PointedTo, js
  <2>3. CASE x = ToRef(s)
    BY <1>1, <1>2, <1>4, <1>6, <2>2, <2>3
  <2>4. CASE x # ToRef(s)
    <3>1. new[x] = at[x]
      BY <2>2, <2>4
    <3>2. CASE \E i \in 1 .. k - 1 : Outer(js[i]) /\ x = ToRef(js[i]) /\ at[x] = at[FromRef(js[i])]
      <4>1. PICK i \in 1 .. k - 1 : Outer(js[i]) /\ x = ToRef(js[i]) /\ at[x] = at[FromRef(js[i])]
        BY <3>2
      <4>2. i \in 1 .. k
        OBVIOUS
      <4>3. new[FromRef(js[i])] = at[FromRef(js[i])]
        BY <1>3, <2>2, <4>2
      <4> QED
        BY <3>1, <4>1, <4>2, <4>3
    <3>3. CASE at[x] = x /\ \A i \in 1 .. k - 1 : Outer(js[i]) => x # ToRef(js[i])
      BY <1>1, <1>4, <2>4, <3>1, <3>3
    <3> QED
      BY <3>2, <3>3 DEF PointedTo, js
  <2> QED
    BY <2>3, <2>4
<1> QED
  BY <1>5, <1>6

LEMMA PointingIs ==
  ASSUME NEW b, Ordered(b)
  PROVE  /\ Pointing(b) \in [Refs -> Refs]
         /\ PointedTo(b, Len(b.joins), Pointing(b))
<1> DEFINE n == Len(b.joins)
<1>0. b.joins \in Seq(Steps) /\ n \in Nat
  BY DEF Ordered
<1>1. PICK g : /\ g[0] = [r \in Refs |-> r]
               /\ \A k \in 1 .. n : g[k] = PointOne(g[k - 1], b.joins[k])
               /\ \A k \in 0 .. n : g[k] \in [Refs -> Refs]
               /\ Pointing(b) = g[n]
  BY <1>0, PointingFold
<1> DEFINE N == {k \in 0 .. n : ~ PointedTo(b, k, g[k])}
<1>2. N = {}
  <2> SUFFICES ASSUME N # {} PROVE FALSE
    OBVIOUS
  <2>1. N \in SUBSET Nat
    OBVIOUS
  <2>2. PICK k \in N : \A i \in N : k <= i
    <3> HIDE DEF N
    <3> QED
      BY <2>1, LeastNumber
  <2>3. PointedTo(b, 0, g[0])
    BY <1>1 DEF PointedTo
  <2>4. k \in 1 .. n /\ k - 1 \in 0 .. n /\ ~ (k <= k - 1)
    BY <1>0, <2>3
  <2>5. PointedTo(b, k - 1, g[k - 1])
    BY <2>2, <2>4
  <2>6. PointedTo(b, k, g[k])
    BY <1>1, <2>4, <2>5, PointOneMore
  <2> QED
    BY <2>2, <2>6
<1>3. n \in 0 .. n
  BY <1>0
<1> QED
  BY <1>1, <1>2, <1>3

\* What holds of the columns read where they are, and past each outer join,
\* does of all.
LEMMA PointingInduces ==
  ASSUME NEW b, Ordered(b), NEW G,
         \A x \in Refs : Pointing(b)[x] = x => x \in G,
         \A s \in ToSet(b.joins) : Outer(s) /\ Pointing(b)[ToRef(s)] = Pointing(b)[FromRef(s)] /\ FromRef(s) \in G => ToRef(s) \in G
  PROVE  Refs \subseteq G
<1> DEFINE n == Len(b.joins)
           Bad(i) == Outer(b.joins[i]) /\ Pointing(b)[ToRef(b.joins[i])] = Pointing(b)[FromRef(b.joins[i])] /\ ToRef(b.joins[i]) \notin G
           N == {i \in 1 .. n : Bad(i)}
<1>0. b.joins \in Seq(Steps) /\ n \in Nat /\ DOMAIN b.joins = 1 .. n
  BY DEF Ordered
<1>1. \A x \in Refs : x \in G \/ \E i \in N : x = ToRef(b.joins[i])
  BY PointingIs DEF PointedTo
<1>2. N = {}
  <2> SUFFICES ASSUME N # {} PROVE FALSE
    OBVIOUS
  <2>1. N \in SUBSET Nat
    OBVIOUS
  <2>2. PICK k \in N : \A i \in N : k <= i
    <3> HIDE DEF N
    <3> QED
      BY <2>1, LeastNumber
  <2>3. k \in DOMAIN b.joins /\ b.joins[k] \in ToSet(b.joins) /\ b.joins[k] \in Steps
    BY <1>0 DEF ToSet
  <2>4. FromRef(b.joins[k]) \in Refs
    BY <2>3, StepTables DEF FromRef, Refs
  <2>5. FromRef(b.joins[k]) \notin G
    BY <2>3
  <2>6. PICK i \in N : FromRef(b.joins[k]) = ToRef(b.joins[i])
    BY <1>1, <2>4, <2>5
  <2>7. i \in DOMAIN b.joins /\ b.joins[k].from = b.joins[i].to
    BY <1>0, <2>6 DEF FromRef, ToRef
  <2>8. k <= i
    BY <2>2, <2>6
  <2> QED
    BY <2>3, <2>7, <2>8, StepsLater
<1> QED
  BY <1>1, <1>2

-----------------------------------------------------------------------------
(* The joins walked, and those that are optional *)

LEMMA BackIs ==
  ASSUME NEW b, Ordered(b)
  PROVE  /\ Reverse(b.joins) \in Seq(Steps) /\ Len(Reverse(b.joins)) = Len(b.joins)
         /\ \A k \in 1 .. Len(b.joins) : Reverse(b.joins)[k] = b.joins[(Len(b.joins) - k) + 1]
<1>1. PICK n \in Nat : n = Len(b.joins) /\ b.joins \in Seq(Steps) /\ b.joins \in [1 .. n -> Steps]
  BY DEF Ordered
<1>2. Reverse(b.joins) = [i \in 1 .. n |-> b.joins[(n - i) + 1]]
  BY <1>1 DEF Reverse
<1>3. \A i \in 1 .. n : (n - i) + 1 \in 1 .. n
  OBVIOUS
<1>4. Reverse(b.joins) \in [1 .. n -> Steps]
  BY <1>1, <1>2, <1>3
<1>5. Reverse(b.joins) \in Seq(Steps) /\ Len(Reverse(b.joins)) = n
  BY <1>4, BySeq
<1> QED
  BY <1>1, <1>2, <1>5

\* What a table needs, the table its join starts from does.
LEMMA NeededBack ==
  ASSUME NEW b, Ordered(b), NEW base \in SUBSET Tables, NEW needed, needed = NeededFrom(base, Reverse(b.joins))
  PROVE  /\ base \subseteq needed /\ needed \subseteq Tables
         /\ \A s \in ToSet(b.joins) : s.to \in needed => s.from \in needed
<1> DEFINE js == b.joins
           back == Reverse(b.joins)
           n == Len(b.joins)
<1>0. n \in Nat /\ js \in Seq(Steps) /\ DOMAIN js = 1 .. n
  BY DEF Ordered
<1>1. back \in Seq(Steps) /\ Len(back) = n /\ \A k \in 1 .. n : back[k] = js[(n - k) + 1]
  BY BackIs
<1>2. PICK g : /\ g[0] = base
               /\ \A k \in 1 .. n : g[k] = NeedOne(g[k - 1], back[k])
               /\ \A k \in 0 .. n : g[k] \in SUBSET Tables
               /\ needed = g[n]
  <2> HIDE DEF back, n
  <2>1. \E g : /\ g[0] = base
               /\ \A k \in 1 .. Len(back) : g[k] = NeedOne(g[k - 1], back[k])
               /\ \A k \in 0 .. Len(back) : g[k] \in SUBSET Tables
               /\ NeededFrom(base, back) = g[Len(back)]
    BY <1>1, NeededFold
  <2> QED
    BY <1>1, <2>1 DEF back
<1> HIDE DEF back, n
<1>3. ASSUME NEW k \in 1 .. n PROVE g[k - 1] \subseteq g[k] /\ g[k] \subseteq g[k - 1] \cup {back[k].from}
  BY <1>2 DEF NeedOne
<1>4. ASSUME NEW i \in 0 .. n PROVE \A k \in i .. n : g[i] \subseteq g[k]
  <2> DEFINE N == {k \in i .. n : ~ (g[i] \subseteq g[k])}
  <2> SUFFICES ASSUME N # {} PROVE FALSE
    OBVIOUS
  <2>1. PICK k \in N : \A l \in N : k <= l
    <3>1. N \in SUBSET Nat
      BY <1>0
    <3> HIDE DEF N
    <3> QED
      BY <3>1, LeastNumber
  <2>2. k # i /\ k \in 1 .. n /\ k - 1 \in i .. n /\ ~ (k <= k - 1)
    BY <1>0
  <2>3. g[i] \subseteq g[k - 1]
    BY <2>1, <2>2
  <2> QED
    BY <1>3, <2>2, <2>3
<1>5. ASSUME NEW i \in 1 .. n, js[i].to \in needed PROVE js[i].from \in needed
  <2>1. PICK p \in 1 .. n : p = (n - i) + 1 /\ i = (n - p) + 1
    BY <1>0
  <2>2. back[p] = js[i]
    BY <1>1, <2>1
  <2> DEFINE N == {k \in p - 1 .. n : js[i].to \in g[k]}
  <2>3. N # {} /\ N \in SUBSET Nat
    <3>1. n \in N
      BY <1>0, <1>2, <1>5
    <3> QED
      BY <3>1
  <2>4. PICK k \in N : \A l \in N : k <= l
    <3> HIDE DEF N
    <3> QED
      BY <2>3, LeastNumber
  <2>5. k = p - 1
    <3> SUFFICES ASSUME k # p - 1 PROVE FALSE
      OBVIOUS
    <3>1. k \in 1 .. n /\ k - 1 \in p - 1 .. n /\ ~ (k <= k - 1) /\ p <= k
      BY <1>0
    <3>2. js[i].to \notin g[k - 1]
      BY <2>4, <3>1
    <3>3. js[i].to = back[k].from
      BY <1>3, <3>1, <3>2
    <3>4. PICK q \in 1 .. n : q = (n - k) + 1 /\ q <= i
      BY <1>0, <2>1, <3>1
    <3>5. back[k] = js[q]
      BY <1>1, <3>1, <3>4
    <3>6. js[q].from # js[i].to
      BY <1>0, <3>4, StepsLater
    <3> QED
      BY <3>3, <3>5, <3>6
  <2>6. js[i].to \in g[p - 1]
    BY <2>4, <2>5
  <2>7. js[i].from \in g[p]
    BY <1>2, <2>2, <2>6 DEF NeedOne
  <2>8. p \in 0 .. n /\ n \in p .. n
    BY <1>0
  <2> QED
    BY <1>2, <1>4, <2>7, <2>8
<1>6. base \subseteq needed /\ needed \subseteq Tables
  <2>1. 0 \in 0 .. n /\ n \in 0 .. n
    BY <1>0
  <2> QED
    BY <1>2, <1>4, <2>1
<1> QED
  BY <1>0, <1>5, <1>6 DEF ToSet

LEMMA OptionalIs ==
  ASSUME NEW b, Ordered(b), NEW O, O = Optional(b)
  PROVE  /\ \A t \in O : \E s \in ToSet(b.joins) : s.to = t
         /\ \A s \in ToSet(b.joins) :
              s.to \in O <=> s \in Walked(b) /\ (s.from \in O \/ (Outer(s) /\ s.to \notin FilteredOn(b)))
<1> DEFINE js == b.joins
           n == Len(b.joins)
<1>0. n \in Nat /\ js \in Seq(Steps) /\ DOMAIN js = 1 .. n
  BY DEF Ordered
<1>1. PICK g : /\ g[0] = {}
               /\ \A k \in 1 .. n : g[k] = OptOne(b, g[k - 1], js[k])
               /\ \A k \in 0 .. n : g[k] \in SUBSET Tables
               /\ O = g[n]
  BY <1>0, OptionalFold
<1> HIDE DEF n, js
<1>2. ASSUME NEW k \in 1 .. n PROVE g[k - 1] \subseteq g[k] /\ g[k] \subseteq g[k - 1] \cup {js[k].to}
  BY <1>1 DEF OptOne
<1>3. \A k \in 0 .. n : \A t \in g[k] : \E i \in 1 .. k : js[i].to = t
  <2> DEFINE N == {k \in 0 .. n : ~ \A t \in g[k] : \E i \in 1 .. k : js[i].to = t}
  <2> SUFFICES ASSUME N # {} PROVE FALSE
    OBVIOUS
  <2>1. PICK k \in N : \A l \in N : k <= l
    <3>1. N \in SUBSET Nat
      BY <1>0
    <3> HIDE DEF N
    <3> QED
      BY <3>1, LeastNumber
  <2>2. k # 0
    BY <1>1
  <2>3. k \in 1 .. n /\ k - 1 \in 0 .. n /\ ~ (k <= k - 1)
    BY <1>0, <2>2
  <2>4. \A t \in g[k - 1] : \E i \in 1 .. k - 1 : js[i].to = t
    BY <2>1, <2>3
  <2>5. \A i \in 1 .. k - 1 : i \in 1 .. k
    BY <2>3
  <2>6. k \in 1 .. k
    BY <2>3
  <2>7. \A t \in g[k] : \E i \in 1 .. k : js[i].to = t
    BY <1>2, <2>3, <2>4, <2>5, <2>6
  <2> QED
    BY <2>7
<1>4. ASSUME NEW t, NEW p \in 0 .. n, \A j \in p + 1 .. n : js[j].to # t PROVE t \in g[n] <=> t \in g[p]
  <2> DEFINE N == {k \in p .. n : ~ (t \in g[k] <=> t \in g[p])}
  <2> SUFFICES ASSUME N # {} PROVE FALSE
    BY <1>0
  <2>1. PICK k \in N : \A l \in N : k <= l
    <3>1. N \in SUBSET Nat
      BY <1>0
    <3> HIDE DEF N
    <3> QED
      BY <3>1, LeastNumber
  <2>2. k # p /\ k \in 1 .. n /\ k - 1 \in p .. n /\ ~ (k <= k - 1) /\ k \in p + 1 .. n
    BY <1>0
  <2>3. t \in g[k - 1] <=> t \in g[p]
    BY <2>1, <2>2
  <2>4. t \in g[k] <=> t \in g[k - 1]
    BY <1>2, <1>4, <2>2
  <2> QED
    BY <2>3, <2>4
<1>5. ASSUME NEW k \in 1 .. n
      PROVE  js[k].to \in O <=> js[k] \in Walked(b) /\ (js[k].from \in O \/ (Outer(js[k]) /\ js[k].to \notin FilteredOn(b)))
  <2>1. /\ \A j \in k + 1 .. n : js[j].to # js[k].to /\ js[j].to # js[k].from
        /\ js[k].to # js[k].from
    <3>1. k \in DOMAIN js /\ js[k].to # js[k].from
      BY <1>0, StepsLater DEF js
    <3>2. ASSUME NEW j \in k + 1 .. n PROVE js[j].to # js[k].to /\ js[j].to # js[k].from
      <4>1. j \in DOMAIN js /\ j # k /\ k <= j
        BY <1>0
      <4> QED
        BY <3>1, <4>1, StepsLater DEF js
    <3> QED
      BY <3>1, <3>2
  <2>2. k \in 0 .. n /\ k - 1 \in 0 .. n /\ \A j \in (k - 1) + 1 .. n : j = k \/ j \in k + 1 .. n
    BY <1>0
  <2>3. js[k].to \in g[n] <=> js[k].to \in g[k]
    BY <1>4, <2>1, <2>2
  <2>4. js[k].from \in g[n] <=> js[k].from \in g[k - 1]
    <3>1. \A j \in (k - 1) + 1 .. n : js[j].to # js[k].from
      BY <2>1, <2>2
    <3> QED
      BY <1>4, <2>2, <3>1
  <2>5. js[k].to \notin g[k - 1]
    <3> SUFFICES ASSUME NEW i \in 1 .. k - 1, js[i].to = js[k].to PROVE FALSE
      BY <1>3, <2>2
    <3>1. i \in DOMAIN js /\ k \in DOMAIN js /\ i # k
      BY <1>0
    <3> QED
      BY <3>1, StepsLater DEF js
  <2>6. g[k] = OptOne(b, g[k - 1], js[k])
    BY <1>1
  <2> QED
    BY <1>1, <2>3, <2>4, <2>5, <2>6 DEF OptOne
<1>6. ASSUME NEW t \in O PROVE \E s \in ToSet(js) : s.to = t
  <2>1. PICK i \in 1 .. n : js[i].to = t
    BY <1>0, <1>1, <1>3
  <2> QED
    BY <1>0, <2>1 DEF ToSet
<1> QED
  BY <1>0, <1>5, <1>6 DEF ToSet, js

-----------------------------------------------------------------------------
(* The rows that some of a sequence of joins make *)

Cut(f, B) == [t \in Tables |-> IF t \in B THEN f[t] ELSE 0]
\* Each of the joins starts from a table there is already, and goes to a new one.
Lined(js, B, some) ==
  /\ js \in Seq(Steps) /\ Distinctly(js) /\ B \subseteq Tables
  /\ \A i \in DOMAIN js : js[i] \in some =>
       /\ js[i].to \notin B
       /\ js[i].from \in B \/ \E q \in 1 .. i - 1 : js[q] \in some /\ js[q].to = js[i].from
\* Of a row that the first k of them make of the rows there were.
MadeBy(bank, js, k, B, some, outs, start, f) ==
  /\ f \in [Tables -> Nat] /\ Cut(f, B) \in start
  /\ \A t \in Tables \ B : f[t] # 0 => \E i \in 1 .. k : js[i] \in some /\ js[i].to = t
  /\ \A i \in 1 .. k : js[i] \in some => Extends(bank, f, js[i], js[i] \in outs)

LEMMA MadeOneMore ==
  ASSUME NEW bank \in Warehouses, NEW js, NEW B, NEW some, Lined(js, B, some), NEW outs, NEW start,
         NEW k \in 1 .. Len(js), js[k] \in some, NEW outer \in BOOLEAN, outer <=> js[k] \in outs,
         NEW rows \in Rows, \A f : f \in rows <=> MadeBy(bank, js, k - 1, B, some, outs, start, f),
         NEW f
  PROVE  f \in Extended(bank, rows, js[k], outer) <=> MadeBy(bank, js, k, B, some, outs, start, f)
<1>1. k \in DOMAIN js /\ k \in Nat /\ k \in 1 .. k
  BY DEF Lined
<1>2. PICK s \in Steps : s = js[k]
  BY <1>1 DEF Lined
<1>3. s.to \notin B /\ s.to \in Tables /\ s.from \in Tables
  BY <1>1, <1>2, StepTables DEF Lined
<1>4. \A i \in 1 .. k - 1 : i \in DOMAIN js /\ i \in 1 .. k /\ js[i].to # s.to
  <2> SUFFICES ASSUME NEW i \in 1 .. k - 1 PROVE i \in DOMAIN js /\ i \in 1 .. k /\ js[i].to # s.to
    OBVIOUS
  <2>1. i \in DOMAIN js /\ i \in 1 .. k /\ i # k
    BY <1>1 DEF Lined
  <2> QED
    BY <1>1, <1>2, <2>1 DEF Lined, Distinctly
<1>5. \A i \in 1 .. k : js[i] \in some => js[i].from # s.to
  <2> SUFFICES ASSUME NEW i \in 1 .. k, js[i] \in some PROVE js[i].from # s.to
    OBVIOUS
  <2>1. i \in DOMAIN js
    BY <1>1 DEF Lined
  <2>2. CASE js[i].from \in B
    BY <1>3, <2>2
  <2>3. CASE \E q \in 1 .. i - 1 : js[q].to = js[i].from
    <3>1. PICK q \in 1 .. i - 1 : js[q].to = js[i].from
      BY <2>3
    <3>2. q \in 1 .. k - 1
      BY <1>1
    <3> QED
      BY <1>4, <3>1, <3>2
  <2> QED
    BY <2>1, <2>2, <2>3 DEF Lined
<1>6. s.from # s.to
  BY <1>1, <1>2, <1>5
<1>7. \A e \in rows : e[s.to] = 0
  <2> SUFFICES ASSUME NEW e \in rows, e[s.to] # 0 PROVE FALSE
    OBVIOUS
  <2>1. MadeBy(bank, js, k - 1, B, some, outs, start, e)
    OBVIOUS
  <2> QED
    BY <1>3, <1>4, <2>1 DEF MadeBy
<1>8. f \in Extended(bank, rows, s, outer) <=>
        f \in [Tables -> Nat] /\ Extends(bank, f, s, outer) /\ [f EXCEPT ![s.to] = 0] \in rows
  BY <1>6, <1>7, ExtendedIs
<1>9. Extends(bank, f, s, outer) <=> Extends(bank, f, s, s \in outs)
  BY <1>2 DEF Extends
<1>10. ASSUME f \in [Tables -> Nat], NEW z, z = [f EXCEPT ![s.to] = 0], Extends(bank, f, s, s \in outs)
       PROVE  MadeBy(bank, js, k - 1, B, some, outs, start, z) <=> MadeBy(bank, js, k, B, some, outs, start, f)
  <2>1. z \in [Tables -> Nat] /\ z[s.to] = 0 /\ \A t \in Tables : t # s.to => z[t] = f[t]
    BY <1>3, <1>10
  <2>2. Cut(z, B) = Cut(f, B)
    BY <1>3, <2>1 DEF Cut
  <2>3. ASSUME NEW i \in 1 .. k - 1, js[i] \in some
        PROVE  Extends(bank, z, js[i], js[i] \in outs) <=> Extends(bank, f, js[i], js[i] \in outs)
    <3>1. js[i] \in Steps /\ js[i].from # s.to /\ js[i].to # s.to
      BY <1>4, <1>5, <2>3 DEF Lined
    <3>2. z[js[i].from] = f[js[i].from] /\ z[js[i].to] = f[js[i].to]
      BY <2>1, <3>1, StepTables
    <3> QED
      BY <3>2 DEF Extends, Value
  <2>4. \A i : i \in 1 .. k <=> i = k \/ i \in 1 .. k - 1
    BY <1>1
  <2>5. (\A i \in 1 .. k - 1 : js[i] \in some => Extends(bank, z, js[i], js[i] \in outs))
        <=> \A i \in 1 .. k : js[i] \in some => Extends(bank, f, js[i], js[i] \in outs)
    BY <1>2, <1>10, <2>3, <2>4
  <2>6. (\A t \in Tables \ B : z[t] # 0 => \E i \in 1 .. k - 1 : js[i] \in some /\ js[i].to = t)
        <=> \A t \in Tables \ B : f[t] # 0 => \E i \in 1 .. k : js[i] \in some /\ js[i].to = t
    <3>1. ASSUME \A t \in Tables \ B : z[t] # 0 => \E i \in 1 .. k - 1 : js[i] \in some /\ js[i].to = t,
                 NEW t \in Tables \ B, f[t] # 0
          PROVE  \E i \in 1 .. k : js[i] \in some /\ js[i].to = t
      <4>1. CASE t = s.to
        BY <1>1, <1>2, <4>1
      <4>2. CASE t # s.to
        BY <1>4, <2>1, <3>1, <4>2
      <4> QED
        BY <4>1, <4>2
    <3>2. ASSUME \A t \in Tables \ B : f[t] # 0 => \E i \in 1 .. k : js[i] \in some /\ js[i].to = t,
                 NEW t \in Tables \ B, z[t] # 0
          PROVE  \E i \in 1 .. k - 1 : js[i] \in some /\ js[i].to = t
      <4>1. t # s.to /\ f[t] # 0
        BY <2>1, <3>2
      <4>2. PICK i \in 1 .. k : js[i] \in some /\ js[i].to = t
        BY <3>2, <4>1
      <4> QED
        BY <1>2, <2>4, <4>1, <4>2
    <3> QED
      BY <3>1, <3>2
  <2> QED
    BY <1>10, <2>1, <2>2, <2>5, <2>6 DEF MadeBy
<1>11. MadeBy(bank, js, k, B, some, outs, start, f) => f \in [Tables -> Nat] /\ Extends(bank, f, s, s \in outs)
  BY <1>1, <1>2 DEF MadeBy
<1> QED
  BY <1>2, <1>8, <1>9, <1>10, <1>11

LEMMA MadeOfNone ==
  ASSUME NEW bank, NEW js, NEW B, NEW some, NEW outs, NEW start \in Rows,
         \A e \in start : \A t \in Tables \ B : e[t] = 0, NEW f
  PROVE  f \in start <=> MadeBy(bank, js, 0, B, some, outs, start, f)
<1>1. ~ \E i \in 1 .. 0 : TRUE
  OBVIOUS
<1>2. ASSUME f \in [Tables -> Nat], \A t \in Tables \ B : f[t] = 0 PROVE Cut(f, B) = f
  BY <1>2 DEF Cut
<1>3. ASSUME f \in start PROVE MadeBy(bank, js, 0, B, some, outs, start, f)
  <2>1. f \in [Tables -> Nat] /\ \A t \in Tables \ B : f[t] = 0
    BY <1>3 DEF Rows
  <2> QED
    BY <1>1, <1>2, <1>3, <2>1 DEF MadeBy
<1>4. ASSUME MadeBy(bank, js, 0, B, some, outs, start, f) PROVE f \in start
  <2>1. f \in [Tables -> Nat] /\ Cut(f, B) \in start /\ \A t \in Tables \ B : f[t] = 0
    BY <1>1, <1>4 DEF MadeBy
  <2> QED
    BY <1>2, <2>1
<1> QED
  BY <1>3, <1>4

\* The rows after each of a sequence of joins.
Making(g, bank, js, some, outs, start) ==
  /\ g[0] = start
  /\ \A k \in 1 .. Len(js) : js[k] \notin some => g[k] = g[k - 1]
  /\ \A k \in 1 .. Len(js) : js[k] \in some =>
       \E outer \in BOOLEAN : (outer <=> js[k] \in outs) /\ g[k] = Extended(bank, g[k - 1], js[k], outer)
  /\ \A k \in 0 .. Len(js) : g[k] \in Rows

LEMMA MadeAll ==
  ASSUME NEW bank \in Warehouses, NEW js, NEW B, NEW some, Lined(js, B, some), NEW outs, NEW start \in Rows,
         \A e \in start : \A t \in Tables \ B : e[t] = 0,
         NEW g, Making(g, bank, js, some, outs, start)
  PROVE  \A f : f \in g[Len(js)] <=> MadeBy(bank, js, Len(js), B, some, outs, start, f)
<1> DEFINE n == Len(js)
           Good(k) == \A f : f \in g[k] <=> MadeBy(bank, js, k, B, some, outs, start, f)
<1>0. n \in Nat
  BY DEF Lined
<1>1. Good(0)
  BY MadeOfNone DEF Making
<1>2. ASSUME NEW k \in 1 .. n, Good(k - 1) PROVE Good(k)
  <2>0. g[k - 1] \in Rows /\ k - 1 \in 0 .. n
    BY <1>0 DEF Making
  <2>1. CASE js[k] \in some
    <3>1. PICK outer \in BOOLEAN : (outer <=> js[k] \in outs) /\ g[k] = Extended(bank, g[k - 1], js[k], outer)
      BY <2>1 DEF Making
    <3> SUFFICES ASSUME NEW f PROVE f \in g[k] <=> MadeBy(bank, js, k, B, some, outs, start, f)
      OBVIOUS
    <3>2. f \in Extended(bank, g[k - 1], js[k], outer) <=> MadeBy(bank, js, k, B, some, outs, start, f)
      BY <1>2, <2>0, <2>1, <3>1, MadeOneMore
    <3> QED
      BY <3>1, <3>2
  <2>2. CASE js[k] \notin some
    <3>1. g[k] = g[k - 1]
      BY <2>2 DEF Making
    <3>2. \A i \in 1 .. k : js[i] \in some => i \in 1 .. k - 1
      BY <1>0, <2>2
    <3>3. \A i \in 1 .. k - 1 : i \in 1 .. k
      BY <1>0
    <3> SUFFICES ASSUME NEW f PROVE f \in g[k] <=> MadeBy(bank, js, k, B, some, outs, start, f)
      OBVIOUS
    <3>4. MadeBy(bank, js, k, B, some, outs, start, f) <=> MadeBy(bank, js, k - 1, B, some, outs, start, f)
      BY <3>2, <3>3 DEF MadeBy
    <3> QED
      BY <1>2, <3>1, <3>4
  <2> QED
    BY <2>1, <2>2
<1> HIDE DEF Good
<1>3. \A k \in 0 .. n : Good(k)
  <2> DEFINE N == {k \in 0 .. n : ~ Good(k)}
  <2> SUFFICES ASSUME N # {} PROVE FALSE
    OBVIOUS
  <2>1. PICK k \in N : \A l \in N : k <= l
    <3>1. N \in SUBSET Nat
      BY <1>0
    <3> HIDE DEF N
    <3> QED
      BY <3>1, LeastNumber
  <2>2. k # 0
    BY <1>1
  <2>3. k \in 1 .. n /\ k - 1 \in 0 .. n /\ ~ (k <= k - 1)
    BY <1>0, <2>2
  <2> QED
    BY <1>2, <2>1, <2>3
<1>4. n \in 0 .. n
  BY <1>0
<1> QED
  BY <1>3, <1>4 DEF Good

\* A row that some joins make of one there was.
Made(bank, B, some, outs, start, f) ==
  /\ f \in [Tables -> Nat] /\ Cut(f, B) \in start
  /\ \A t \in Tables \ B : f[t] # 0 => \E s \in some : s.to = t
  /\ \A s \in some : Extends(bank, f, s, s \in outs)

LEMMA MadeAre ==
  ASSUME NEW bank \in Warehouses, NEW js, NEW B, NEW some \in SUBSET ToSet(js), Lined(js, B, some), NEW outs,
         NEW start \in Rows, \A e \in start : \A t \in Tables \ B : e[t] = 0,
         NEW g, Making(g, bank, js, some, outs, start), NEW f
  PROVE  f \in g[Len(js)] <=> Made(bank, B, some, outs, start, f)
<1>1. f \in g[Len(js)] <=> MadeBy(bank, js, Len(js), B, some, outs, start, f)
  BY MadeAll
<1>2. DOMAIN js = 1 .. Len(js)
  BY DEF Lined
<1>3. \A s \in some : \E i \in 1 .. Len(js) : js[i] = s
  BY <1>2 DEF ToSet
<1>4. MadeBy(bank, js, Len(js), B, some, outs, start, f) <=> Made(bank, B, some, outs, start, f)
  <2>1. \A t : (\E i \in 1 .. Len(js) : js[i] \in some /\ js[i].to = t) <=> \E s \in some : s.to = t
    BY <1>3
  <2>2. (\A i \in 1 .. Len(js) : js[i] \in some => Extends(bank, f, js[i], js[i] \in outs))
        <=> \A s \in some : Extends(bank, f, s, s \in outs)
    BY <1>3, Zenon
  <2> QED
    BY <2>1, <2>2 DEF MadeBy, Made
<1> QED
  BY <1>1, <1>4

LEMMA MatchedAre ==
  ASSUME NEW bank \in Warehouses, NEW js, NEW B, NEW some \in SUBSET ToSet(js), Lined(js, B, some),
         NEW optional \in BOOLEAN, NEW start \in Rows, \A e \in start : \A t \in Tables \ B : e[t] = 0, NEW f
  PROVE  f \in Matched(bank, start, js, some, optional) <=>
           Made(bank, B, some, IF optional THEN some ELSE {}, start, f)
<1> DEFINE outs == IF optional THEN some ELSE {}
<1>1. js \in Seq(Steps)
  BY DEF Lined
<1>2. PICK g : /\ g[0] = start
               /\ \A k \in 1 .. Len(js) : g[k] = MatchOne(bank, g[k - 1], js[k], some, optional)
               /\ \A k \in 0 .. Len(js) : g[k] \in Rows
               /\ Matched(bank, start, js, some, optional) = g[Len(js)]
  BY <1>1, MatchedFold
<1>3. \A s \in some : optional <=> s \in outs
  OBVIOUS
<1> HIDE DEF outs
<1>4. Making(g, bank, js, some, outs, start)
  BY <1>2, <1>3 DEF Making, MatchOne
<1>5. f \in g[Len(js)] <=> Made(bank, B, some, outs, start, f)
  BY <1>4, MadeAre
<1> QED
  BY <1>2, <1>5 DEF outs

OuterOf(b) == {s \in ToSet(b.joins) : Outer(s)}

LEMMA JoinedAre ==
  ASSUME NEW bank \in Warehouses, NEW b, Ordered(b), NEW f
  PROVE  f \in JoinedRows(bank, b) <=> Made(bank, {b.fact}, ToSet(b.joins), OuterOf(b), FactRows(bank, b), f)
<1> DEFINE js == b.joins
           some == ToSet(js)
           outs == OuterOf(b)
           start == FactRows(bank, b)
<1>0. js \in Seq(Steps) /\ b.fact \in Tables /\ DOMAIN js = 1 .. Len(js) /\ Len(js) \in Nat
  BY DEF Ordered
<1>1. PICK g : /\ g[0] = start
               /\ \A k \in 1 .. Len(js) : g[k] = JoinStep(bank, g[k - 1], js[k])
               /\ JoinedRows(bank, b) = g[Len(js)]
  BY <1>0, RowsFold
<1>2. start \in Rows
  BY <1>0, FactRowsIn
<1>3. \A k \in 1 .. Len(js) : js[k] \in some /\ js[k] \in Steps /\ (js[k] \in outs <=> Outer(js[k]))
  BY <1>0 DEF ToSet, OuterOf
<1>4. \A k \in 0 .. Len(js) : g[k] \in Rows
  <2> DEFINE N == {k \in 0 .. Len(js) : g[k] \notin Rows}
  <2> SUFFICES ASSUME N # {} PROVE FALSE
    OBVIOUS
  <2>1. PICK k \in N : \A l \in N : k <= l
    <3>1. N \in SUBSET Nat
      BY <1>0
    <3> HIDE DEF N
    <3> QED
      BY <3>1, LeastNumber
  <2>2. k # 0
    BY <1>1, <1>2
  <2>3. k \in 1 .. Len(js) /\ k - 1 \in 0 .. Len(js) /\ ~ (k <= k - 1)
    BY <1>0, <2>2
  <2>4. g[k - 1] \in Rows
    BY <2>1, <2>3
  <2>5. JoinStep(bank, g[k - 1], js[k]) \in Rows
    BY <1>3, <2>3, <2>4, ExtendedRows
  <2> QED
    BY <1>1, <2>1, <2>3, <2>5
<1>5. \A e \in start : \A t \in Tables \ {b.fact} : e[t] = 0
  BY DEF FactRows
<1>6. Lined(js, {b.fact}, some)
  <2>1. Distinctly(js) /\ {b.fact} \subseteq Tables /\ \A i \in DOMAIN js : js[i].to # b.fact
    BY <1>0, <1>3 DEF Ordered
  <2>2. ASSUME NEW i \in DOMAIN js
        PROVE  js[i].from \in {b.fact} \/ \E q \in 1 .. i - 1 : js[q] \in some /\ js[q].to = js[i].from
    <3>1. js[i].from = b.fact \/ \E q \in 1 .. i - 1 : js[q].to = js[i].from
      BY DEF Ordered, Chained
    <3>2. \A q \in 1 .. i - 1 : js[q] \in some
      BY <1>0, <1>3
    <3> QED
      BY <3>1, <3>2
  <2> HIDE DEF some
  <2> QED
    BY <1>0, <2>1, <2>2 DEF Lined
<1>7. Making(g, bank, js, some, outs, start)
  <2>1. \A k \in 1 .. Len(js) : \E outer \in BOOLEAN : (outer <=> js[k] \in outs) /\ g[k] = Extended(bank, g[k - 1], js[k], outer)
    <3> SUFFICES ASSUME NEW k \in 1 .. Len(js)
                 PROVE  \E outer \in BOOLEAN : (outer <=> js[k] \in outs) /\ g[k] = Extended(bank, g[k - 1], js[k], outer)
      OBVIOUS
    <3>1. Outer(js[k]) \in BOOLEAN
      BY DEF Outer
    <3> QED
      BY <1>1, <1>3, <3>1 DEF JoinStep
  <2> QED
    BY <1>1, <1>3, <1>4, <2>1 DEF Making
<1> HIDE DEF outs, start
<1>8. some \in SUBSET ToSet(js)
  OBVIOUS
<1> HIDE DEF some
<1>9. f \in g[Len(js)] <=> Made(bank, {b.fact}, some, outs, start, f)
  BY <1>2, <1>5, <1>6, <1>7, <1>8, MadeAre
<1> QED
  BY <1>1, <1>9 DEF outs, start, some

-----------------------------------------------------------------------------
(* What is read of a joined row is what is read of it where Pointing says *)

\* What an outer join reaches is there for every key that points at it.
Met(bank, b) ==
  \A s \in ToSet(b.joins) : Outer(s) => \A i \in DOMAIN bank[s.from] :
    bank[s.from][i][s.mine] = Nil \/ Matches(bank, s, bank[s.from][i][s.mine]) # {}

LEMMA JoinedIs ==
  ASSUME NEW bank \in Warehouses, NEW b, Ordered(b), NEW e \in JoinedRows(bank, b)
  PROVE  /\ e \in [Tables -> Nat] /\ e[b.fact] \in DOMAIN bank[b.fact] /\ Cut(e, {b.fact}) \in FactRows(bank, b)
         /\ \A t \in Tables : t # b.fact /\ e[t] # 0 => \E s \in ToSet(b.joins) : s.to = t
         /\ \A s \in ToSet(b.joins) : Extends(bank, e, s, Outer(s))
         /\ \A t \in Tables : e[t] = 0 \/ e[t] \in DOMAIN bank[t]
<1>1. Made(bank, {b.fact}, ToSet(b.joins), OuterOf(b), FactRows(bank, b), e)
  BY JoinedAre
<1>2. /\ e \in [Tables -> Nat] /\ Cut(e, {b.fact}) \in FactRows(bank, b)
      /\ \A t \in Tables : t # b.fact /\ e[t] # 0 => \E s \in ToSet(b.joins) : s.to = t
  BY <1>1 DEF Made
<1>3. \A s \in ToSet(b.joins) : Extends(bank, e, s, Outer(s))
  <2> SUFFICES ASSUME NEW s \in ToSet(b.joins) PROVE Extends(bank, e, s, Outer(s))
    OBVIOUS
  <2>1. Extends(bank, e, s, s \in OuterOf(b))
    BY <1>1 DEF Made
  <2>2. s \in OuterOf(b) <=> Outer(s)
    BY DEF OuterOf
  <2> QED
    BY <2>1, <2>2 DEF Extends
<1>4. e[b.fact] \in DOMAIN bank[b.fact]
  <2>1. b.fact \in Tables
    BY DEF Ordered
  <2>2. Cut(e, {b.fact})[b.fact] = e[b.fact]
    BY <2>1 DEF Cut
  <2>3. PICK i \in DOMAIN bank[b.fact] : Cut(e, {b.fact}) = [t \in Tables |-> IF t = b.fact THEN i ELSE 0]
    BY <1>2 DEF FactRows
  <2> QED
    BY <2>1, <2>2, <2>3
<1>5. ASSUME NEW t \in Tables, e[t] # 0 PROVE e[t] \in DOMAIN bank[t]
  <2>1. CASE t = b.fact
    BY <1>4, <2>1
  <2>2. CASE t # b.fact
    <3>1. PICK s \in ToSet(b.joins) : s.to = t
      BY <1>2, <1>5, <2>2
    <3>2. e[s.to] \in Matches(bank, s, Value(bank, e, <<s.from, s.mine>>))
      BY <1>3, <1>5, <3>1 DEF Extends
    <3> QED
      BY <3>1, <3>2 DEF Matches
  <2> QED
    BY <2>1, <2>2
<1> QED
  BY <1>2, <1>3, <1>4, <1>5

LEMMA RowsFinite ==
  ASSUME NEW bank \in Warehouses, NEW b, Ordered(b), SingleJoins(bank, b)
  PROVE  /\ IsFiniteSet(JoinedRows(bank, b)) /\ Once(JoinedRows(bank, b), b.fact)
         /\ \A e \in JoinedRows(bank, b) : e[b.fact] # 0
<1> DEFINE P == JoinedRows(bank, b)
           t == b.fact
           D == DOMAIN bank[t]
<1>1. t \in Tables /\ b.joins \in Seq(Steps)
  BY DEF Ordered
<1>2. FactKept(bank, b, P)
  BY <1>1, JoinsKeepFact
<1>3. D = 1 .. Len(bank[t]) /\ Len(bank[t]) \in Nat
  BY <1>1 DEF Warehouses
<1>4. Once(P, t) /\ \A e \in P : e[t] \in D /\ e[t] # 0
  BY <1>2, <1>3 DEF FactKept
<1>5. IsFiniteSet(D)
  BY <1>3, Interval
<1> HIDE DEF P, D, t
<1>6. IsFiniteSet(P)
  <2> DEFINE S == {e[t] : e \in P}
             g == [i \in S |-> CHOOSE e \in P : e[t] = i]
  <2>1. S \subseteq D
    BY <1>4
  <2>2. IsFiniteSet(S)
    BY <1>5, <2>1, FS_Subset
  <2>3. \A i \in S : g[i] \in P /\ g[i][t] = i
    OBVIOUS
  <2>4. \A e \in P : e[t] \in S
    OBVIOUS
  <2>5. g = [i \in S |-> g[i]]
    OBVIOUS
  <2> HIDE DEF S, g
  <2>6. \A e \in P : \E i \in S : g[i] = e
    <3> SUFFICES ASSUME NEW e \in P PROVE g[e[t]] = e
      BY <2>4
    <3>1. g[e[t]] \in P /\ g[e[t]][t] = e[t] /\ e[t] # 0
      BY <1>4, <2>3, <2>4
    <3> QED
      BY <1>4, <3>1 DEF Once
  <2>7. g \in Surjection(S, P)
    BY <2>3, <2>5, <2>6 DEF Surjection
  <2> QED
    BY <2>2, <2>7, FS_Surjection
<1> QED
  BY <1>4, <1>6 DEF P, t

LEMMA ValueNumber ==
  ASSUME NEW bank \in Warehouses, NEW e, NEW r \in Refs, e[r[1]] = 0 \/ e[r[1]] \in DOMAIN bank[r[1]]
  PROVE  Value(bank, e, r) \in Nat \cup {Nil}
<1>1. r[1] \in Tables /\ r[2] \in Columns
  BY DEF Refs
<1>2. bank[r[1]] \in Seq([Columns -> Nat \cup {Nil}])
  BY <1>1 DEF Warehouses
<1>3. CASE e[r[1]] = 0
  BY <1>3 DEF Value
<1>4. CASE e[r[1]] # 0
  <2>1. bank[r[1]][e[r[1]]] \in [Columns -> Nat \cup {Nil}]
    BY <1>2, <1>4
  <2> QED
    BY <1>1, <1>4, <2>1 DEF Value
<1> QED
  BY <1>3, <1>4

LEMMA ValuePointed ==
  ASSUME NEW bank \in Warehouses, NEW b, Ordered(b), Met(bank, b), NEW e \in JoinedRows(bank, b), NEW r \in Refs
  PROVE  Value(bank, e, Pointing(b)[r]) = Value(bank, e, r)
<1> DEFINE G == {x \in Refs : Value(bank, e, Pointing(b)[x]) = Value(bank, e, x)}
<1>1. \A x \in Refs : Pointing(b)[x] = x => x \in G
  OBVIOUS
<1>2. ASSUME NEW s \in ToSet(b.joins), Outer(s), Pointing(b)[ToRef(s)] = Pointing(b)[FromRef(s)], FromRef(s) \in G
      PROVE  ToRef(s) \in G
  <2>1. s \in Steps
    BY DEF Ordered, ToSet
  <2>2. s.from \in Tables /\ s.to \in Tables /\ ToRef(s) \in Refs /\ ToRef(s)[1] = s.to /\ ToRef(s)[2] = s.theirs
    BY <2>1, StepTables DEF ToRef, Refs
  <2>3. Extends(bank, e, s, TRUE)
    <3>1. Extends(bank, e, s, Outer(s))
      BY JoinedIs
    <3> QED
      BY <1>2, <3>1 DEF Extends
  <2> DEFINE x == Value(bank, e, <<s.from, s.mine>>)
  <2>4. Value(bank, e, ToRef(s)) = x
    <3>1. CASE e[s.to] \in Matches(bank, s, x)
      <4>1. e[s.to] \in Nat \ {0}
        BY <2>1, <3>1, MatchesIn
      <4>2. bank[s.to][e[s.to]][s.theirs] = x
        BY <3>1 DEF Matches
      <4> HIDE DEF x
      <4> QED
        BY <2>2, <4>1, <4>2 DEF Value
    <3>2. CASE Matches(bank, s, x) = {} /\ e[s.to] = 0
      <4>1. Value(bank, e, ToRef(s)) = Nil
        BY <2>2, <3>2 DEF Value
      <4>2. x = Nil
        <5>1. CASE e[s.from] = 0
          BY <5>1 DEF Value
        <5>2. CASE e[s.from] # 0
          <6>1. e[s.from] \in DOMAIN bank[s.from]
            BY <2>2, <5>2, JoinedIs
          <6>2. x = bank[s.from][e[s.from]][s.mine]
            BY <5>2 DEF Value
          <6> HIDE DEF x
          <6> QED
            BY <1>2, <3>2, <6>1, <6>2 DEF Met
        <5> QED
          BY <5>1, <5>2
      <4> QED
        BY <4>1, <4>2
    <3> QED
      BY <2>3, <3>1, <3>2 DEF Extends
  <2> QED
    BY <1>2, <2>2, <2>4 DEF FromRef
<1> HIDE DEF G
<1>3. Refs \subseteq G
  BY <1>1, <1>2, PointingInduces
<1> QED
  BY <1>3 DEF G

-----------------------------------------------------------------------------
(* What a block reads, and the joins it is across *)

LEMMA ReadsIs ==
  ASSUME NEW b, NEW r
  PROVE  r \in Reads(b) <=>
           \/ r \in ToSet(b.dims) \/ r \in ToSet(b.per)
           \/ \E c \in b.where : r \in ReadsOf(c)
           \/ \E m \in ToSet(b.measures) : \/ \E c \in m.only \cup m.filters : r \in ReadsOf(c)
                                           \/ m.table # Nil /\ r = <<m.table, m.col>>
<1> DEFINE M(m) == UNION {ReadsOf(c) : c \in m.only \cup m.filters}
           V(m) == IF m.table = Nil THEN {} ELSE {<<m.table, m.col>>}
           W == UNION {ReadsOf(c) : c \in b.where}
           U == UNION {M(m) \cup V(m) : m \in ToSet(b.measures)}
<1>1. Reads(b) = ToSet(b.dims) \cup ToSet(b.per) \cup W \cup U
  BY DEF Reads
<1>2. r \in W <=> \E c \in b.where : r \in ReadsOf(c)
  OBVIOUS
<1>3. \A m : r \in M(m) <=> \E c \in m.only \cup m.filters : r \in ReadsOf(c)
  OBVIOUS
<1>4. \A m : r \in V(m) <=> m.table # Nil /\ r = <<m.table, m.col>>
  OBVIOUS
<1> HIDE DEF M, V
<1>5. r \in U <=> \E m \in ToSet(b.measures) : r \in M(m) \/ r \in V(m)
  OBVIOUS
<1> QED
  BY <1>1, <1>2, <1>3, <1>4, <1>5

LEMMA ConditionRefs ==
  ASSUME NEW x \in Condition
  PROVE  ReadsOf(x) \subseteq Refs
<1>1. x.table \in Tables /\ x.col \in Columns /\ x.other \in Refs \cup {Nil}
  BY DEF Condition
<1> QED
  BY <1>1 DEF ReadsOf, RefOf, Refs

LEMMA SinceReads ==
  ASSUME NEW t \in Tables, NEW request \in Request, NEW unique,
         Nil \notin ToSet(DimsAt(t, request, unique)) \cup PeriodAt(t, request, unique),
         NEW x
  PROVE  /\ x \in SinceAt(t, request, unique) => ReadsOf(x) \subseteq Refs
         /\ \A r \in PeriodAt(t, request, unique) : \E y \in SinceAt(t, request, unique) : r \in ReadsOf(y)
<1>1. \A r \in PeriodAt(t, request, unique) : r \in Refs /\ r = <<r[1], r[2]>>
  BY NamedAre DEF Refs
<1> DEFINE since(r) == [table |-> r[1], col |-> r[2], op |-> ">=", value |-> FromOf(request), other |-> Nil]
<1>2. \A r : RefOf(since(r)) = <<r[1], r[2]>> /\ since(r).other = Nil
  BY DEF RefOf
<1>3. SinceAt(t, request, unique) = {since(r) : r \in PeriodAt(t, request, unique)}
  BY DEF SinceAt
<1> HIDE DEF since
<1>4. \A r \in PeriodAt(t, request, unique) : ReadsOf(since(r)) = {r}
  BY <1>1, <1>2 DEF ReadsOf
<1> QED
  BY <1>1, <1>3, <1>4

ShapedFor(b, t, g, filters, request, unique) ==
  /\ t \in Tables /\ g \in Group /\ filters \subseteq Condition /\ request \in Request
  /\ Shaped(b, t, g, filters, request, unique)

LEMMA ShapedReads ==
  ASSUME NEW b, NEW t, NEW g, NEW filters, NEW request, NEW unique, ShapedFor(b, t, g, filters, request, unique)
  PROVE  /\ Reads(b) \subseteq Refs /\ b.measures \in Seq(Measure)
         /\ \A u \in UsedAt(t, g, filters, request, unique) : \E r \in Reads(b) : r[1] = u
<1> USE DEF ShapedFor
<1>0. Nil \notin ToSet(DimsAt(t, request, unique)) \cup PeriodAt(t, request, unique)
  BY DEF Shaped
<1>1. /\ b.dims = DimsAt(t, request, unique) /\ b.measures = g.measures /\ b.per = g.per
      /\ b.where = Shared(g.measures) \cup filters \cup SinceAt(t, request, unique)
  BY DEF Shaped
<1>2. /\ g.measures \in Seq(Measure) /\ g.per \in Seq(Refs)
      /\ \A m \in ToSet(g.measures) : m \in Measure /\ m.per = g.per
  <2>1. g.measures \in Seq(Measure) /\ g.per \in Seq(Refs) /\ \A m \in ToSet(g.measures) : m.per = g.per
    BY DEF Group
  <2> QED
    BY <2>1 DEF ToSet
<1>3. \A m \in ToSet(g.measures) : m.only \subseteq Condition /\ m.filters \subseteq Condition /\ (m.table # Nil => m.table \in Tables /\ m.col \in Columns)
  <2> SUFFICES ASSUME NEW m \in ToSet(g.measures)
               PROVE  m.only \subseteq Condition /\ m.filters \subseteq Condition /\ (m.table # Nil => m.table \in Tables /\ m.col \in Columns)
    OBVIOUS
  <2>1. m \in Measure
    BY <1>2
  <2> QED
    BY <2>1 DEF Measure
<1>4. \A x \in b.where : ReadsOf(x) \subseteq Refs
  <2> SUFFICES ASSUME NEW x \in b.where PROVE ReadsOf(x) \subseteq Refs
    OBVIOUS
  <2>1. CASE x \in filters
    BY <2>1, ConditionRefs
  <2>2. CASE x \in Shared(g.measures)
    <3>1. \E m \in ToSet(g.measures) : x \in m.filters
      BY <2>2 DEF Shared
    <3> QED
      BY <1>3, <3>1, ConditionRefs
  <2>3. CASE x \in SinceAt(t, request, unique)
    BY <1>0, <2>3, SinceReads
  <2> QED
    BY <1>1, <2>1, <2>2, <2>3
<1>5. ToSet(b.dims) \subseteq Refs /\ ToSet(b.per) \subseteq Refs
  <2>1. ToSet(b.dims) \subseteq Refs
    BY <1>0, <1>1, NamedAre
  <2>2. ToSet(b.per) \subseteq Refs
    BY <1>1, <1>2 DEF ToSet
  <2> QED
    BY <2>1, <2>2
<1>6. Reads(b) \subseteq Refs
  <2> SUFFICES ASSUME NEW r \in Reads(b) PROVE r \in Refs
    OBVIOUS
  <2>1. CASE \E m \in ToSet(b.measures) : \/ \E c \in m.only \cup m.filters : r \in ReadsOf(c)
                                          \/ m.table # Nil /\ r = <<m.table, m.col>>
    <3>1. PICK m \in ToSet(g.measures) : \/ \E c \in m.only \cup m.filters : r \in ReadsOf(c)
                                         \/ m.table # Nil /\ r = <<m.table, m.col>>
      BY <1>1, <2>1
    <3>2. CASE \E c \in m.only \cup m.filters : r \in ReadsOf(c)
      <4>1. PICK c \in m.only \cup m.filters : r \in ReadsOf(c)
        BY <3>2
      <4>2. c \in Condition
        BY <1>3
      <4> QED
        BY <4>1, <4>2, ConditionRefs
    <3>3. CASE m.table # Nil /\ r = <<m.table, m.col>>
      BY <1>3, <3>3 DEF Refs
    <3> QED
      BY <3>1, <3>2, <3>3
  <2> QED
    BY <1>4, <1>5, <2>1, ReadsIs
<1>7. ASSUME NEW C, \A x \in C : ReadsOf(x) \subseteq Reads(b), NEW u \in TablesOf(C) PROVE \E r \in Reads(b) : r[1] = u
  <2>1. PICK r \in UNION {ReadsOf(c) : c \in C} : u = r[1]
    BY <1>7 DEF TablesOf
  <2> QED
    BY <1>7, <2>1
<1>8. ASSUME NEW u \in TablesOf(filters) PROVE \E r \in Reads(b) : r[1] = u
  <2>1. \A x \in filters : ReadsOf(x) \subseteq Reads(b)
    BY <1>1, ReadsIs
  <2> QED
    BY <1>7, <2>1
<1>9. ASSUME NEW m \in ToSet(g.measures), NEW u \in MeasureTables(m) PROVE \E r \in Reads(b) : r[1] = u
  <2>1. CASE u \in {m.table} \ {Nil}
    <3>1. <<m.table, m.col>> \in Reads(b)
      BY <1>1, <2>1, ReadsIs
    <3> QED
      BY <2>1, <3>1
  <2>2. CASE u \in TablesOf(m.only \cup m.filters)
    <3>1. \A x \in m.only \cup m.filters : ReadsOf(x) \subseteq Reads(b)
      BY <1>1, ReadsIs
    <3> QED
      BY <1>7, <2>2, <3>1
  <2>3. CASE u \in {r[1] : r \in ToSet(m.per)}
    <3>1. ToSet(m.per) \subseteq Reads(b)
      BY <1>1, <1>2, ReadsIs
    <3> QED
      BY <2>3, <3>1
  <2> QED
    BY <1>9, <2>1, <2>2, <2>3 DEF MeasureTables
<1>10. ASSUME NEW u \in NamedAt(t, request, unique) PROVE \E r \in Reads(b) : r[1] = u
  <2>1. PICK r \in ToSet(DimsAt(t, request, unique)) \cup PeriodAt(t, request, unique) : u = r[1]
    BY <1>10 DEF NamedAt
  <2>2. r \in Reads(b)
    <3>1. CASE r \in ToSet(DimsAt(t, request, unique))
      BY <1>1, <3>1, ReadsIs
    <3>2. CASE r \in PeriodAt(t, request, unique)
      <4>1. \E y \in SinceAt(t, request, unique) : r \in ReadsOf(y)
        BY <1>0, <3>2, SinceReads
      <4> QED
        BY <1>1, <4>1, ReadsIs
    <3> QED
      BY <3>1, <3>2
  <2> QED
    BY <2>1, <2>2
<1> QED
  BY <1>1, <1>2, <1>6, <1>8, <1>9, <1>10, NeededIs DEF UsedAt

\* What is read, and of which tables, when the joins are taken back to.
LEMMA NeededHas ==
  ASSUME NEW b, Ordered(b), Reads(b) \subseteq Refs
  PROVE  /\ Needed(b) \subseteq Tables /\ b.fact \in Needed(b)
         /\ \A r \in Reads(b) : Pointing(b)[r][1] \in Needed(b)
         /\ \A s \in ToSet(b.joins) : s.to \in Needed(b) => s.from \in Needed(b)
         /\ \A s : s \in Walked(b) <=> s \in ToSet(b.joins) /\ s.to \in Needed(b)
<1> DEFINE base == {b.fact} \cup {Pointing(b)[r][1] : r \in Reads(b)}
<1>1. base \in SUBSET Tables
  <2>1. \A r \in Reads(b) : Pointing(b)[r] \in Refs
    BY PointingIs
  <2> QED
    BY <2>1 DEF Refs, Ordered
<1>2. Needed(b) = NeededFrom(base, Reverse(b.joins))
  BY DEF Needed, NeededFrom, NeedOne
<1>3. b.fact \in base /\ \A r \in Reads(b) : Pointing(b)[r][1] \in base
  OBVIOUS
<1> HIDE DEF base
<1>4. /\ base \subseteq Needed(b) /\ Needed(b) \subseteq Tables
      /\ \A s \in ToSet(b.joins) : s.to \in Needed(b) => s.from \in Needed(b)
  BY <1>1, <1>2, NeededBack
<1>5. \A s : s \in Walked(b) <=> s \in ToSet(b.joins) /\ s.to \in Needed(b)
  BY DEF Walked
<1> QED
  BY <1>3, <1>4, <1>5

\* A column read past an inner join is read there, or past it: the join is walked.
LEMMA InnerWalked ==
  ASSUME NEW b, Ordered(b), Reads(b) \subseteq Refs, NEW unique, NEW u, u # b.fact, Reaches(b.fact, u, unique),
         NEW r \in Reads(b), r[1] = u,
         \A x \in ToSet(Route(b.fact, u, unique)) : x \in ToSet(b.joins),
         NEW s \in ToSet(Route(b.fact, u, unique)), ~ Outer(s)
  PROVE  s \in Walked(b)
<1> DEFINE at == Pointing(b)
           p == Route(b.fact, u, unique)
<1>1. PICK n \in Nat : /\ p \in [1 .. n -> Steps] /\ Len(p) = n
                       /\ Within(p, b.fact, unique) /\ p[n].to = u /\ n \in 1 .. Hops
  BY RouteFound, RouteIs
<1>2. DOMAIN p = 1 .. n /\ n \in 1 .. n
  BY <1>1, CatalogueAssumption
<1>3. at \in [Refs -> Refs] /\ PointedTo(b, Len(b.joins), at)
  BY PointingIs
<1>4. b.joins \in Seq(Steps) /\ DOMAIN b.joins = 1 .. Len(b.joins) /\ Distinctly(b.joins)
  BY DEF Ordered
<1> HIDE DEF at, p
<1>5. \A i \in 1 .. n : p[i] \in ToSet(b.joins) /\ p[i] \in Steps
  BY <1>1, <1>2 DEF p, ToSet
<1>6. \A i \in 1 .. n : i # 1 => (i - 1 \in 1 .. n /\ p[i - 1].to = p[i].from)
  <2> SUFFICES ASSUME NEW i \in 1 .. n, i # 1 PROVE i - 1 \in 1 .. n /\ p[i - 1].to = p[i].from
    OBVIOUS
  <2>1. i - 1 \in 1 .. n /\ i - 1 \in 1 .. Len(p) - 1 /\ (i - 1) + 1 = i
    BY <1>1
  <2> QED
    BY <1>1, <2>1 DEF Within
<1>7. p[1].from = b.fact
  BY <1>1 DEF Within
<1>8. \A x, y \in ToSet(b.joins) : x.to = y.to => x = y
  BY <1>4 DEF Distinctly, ToSet
<1>9. PICK i \in 1 .. n : p[i] = s
  BY <1>2 DEF p, ToSet
<1>10. \A x \in Refs : \/ at[x] = x
                       \/ \E q \in ToSet(b.joins) : Outer(q) /\ x = ToRef(q) /\ at[x] = at[FromRef(q)]
  <2> SUFFICES ASSUME NEW x \in Refs, at[x] # x
               PROVE  \E q \in ToSet(b.joins) : Outer(q) /\ x = ToRef(q) /\ at[x] = at[FromRef(q)]
    OBVIOUS
  <2>1. PICK k \in 1 .. Len(b.joins) : Outer(b.joins[k]) /\ x = ToRef(b.joins[k]) /\ at[x] = at[FromRef(b.joins[k])]
    BY <1>3 DEF PointedTo
  <2>2. b.joins[k] \in ToSet(b.joins)
    BY <1>4 DEF ToSet
  <2> QED
    BY <2>1, <2>2
<1> DEFINE T == {j \in i .. n : \E x \in Refs : x[1] = p[j].to /\ at[x][1] \in Needed(b)}
<1>11. n \in T
  <2>1. r \in Refs /\ at[r][1] \in Needed(b)
    BY NeededHas DEF at
  <2>2. n \in i .. n
    BY <1>2
  <2> QED
    BY <1>1, <2>1, <2>2
<1>12. PICK j \in T : \A l \in T : j <= l
  <2>1. T \in SUBSET Nat /\ T # {}
    BY <1>11
  <2> HIDE DEF T
  <2> QED
    BY <2>1, LeastNumber
<1>13. j \in i .. n /\ j \in 1 .. n
  OBVIOUS
<1>14. p[j].to \in Needed(b)
  <2>1. PICK x \in Refs : x[1] = p[j].to /\ at[x][1] \in Needed(b)
    BY <1>12
  <2>2. CASE at[x] = x
    BY <2>1, <2>2
  <2>3. CASE at[x] # x
    <3>1. PICK q \in ToSet(b.joins) : Outer(q) /\ x = ToRef(q) /\ at[x] = at[FromRef(q)]
      BY <1>10, <2>3
    <3>2. q \in Steps
      BY <1>4, <3>1 DEF ToSet
    <3>3. x[1] = q.to /\ FromRef(q) \in Refs /\ FromRef(q)[1] = q.from
      BY <3>1, <3>2, StepTables DEF ToRef, FromRef, Refs
    <3>4. q = p[j]
      BY <1>5, <1>8, <1>13, <2>1, <3>3
    <3>5. j # i
      BY <1>9, <3>1, <3>4
    <3>6. j # 1 /\ j - 1 \in i .. n /\ ~ (j <= j - 1)
      BY <1>9, <1>13, <3>5
    <3>7. p[j - 1].to = q.from
      BY <1>6, <1>13, <3>4, <3>6
    <3>8. j - 1 \in T
      BY <2>1, <3>1, <3>3, <3>6, <3>7
    <3> QED
      BY <1>12, <3>6, <3>8
  <2> QED
    BY <2>2, <2>3
<1> HIDE DEF T
<1> DEFINE S == {l \in i .. j : p[l].to \in Needed(b)}
<1>15. PICK l \in S : \A k \in S : l <= k
  <2>1. S \in SUBSET Nat /\ j \in S
    BY <1>13, <1>14
  <2> HIDE DEF S
  <2> QED
    BY <2>1, LeastNumber
<1>16. l \in i .. j /\ l \in 1 .. n /\ p[l].to \in Needed(b)
  BY <1>13
<1> HIDE DEF S
<1>17. l = i
  <2> SUFFICES ASSUME l # i PROVE FALSE
    OBVIOUS
  <2>1. l # 1 /\ l - 1 \in i .. j /\ ~ (l <= l - 1)
    BY <1>9, <1>13, <1>16
  <2>2. p[l].from \in Needed(b)
    BY <1>5, <1>16, NeededHas
  <2>3. p[l - 1].to \in Needed(b)
    BY <1>6, <1>16, <2>1, <2>2
  <2>4. l - 1 \in S
    BY <2>1, <2>3 DEF S
  <2> QED
    BY <1>15, <2>1, <2>4
<1> QED
  BY <1>5, <1>9, <1>16, <1>17, NeededHas

-----------------------------------------------------------------------------
(* Blocks whose Cypher can give what their SQL gives *)

\* What every compiled block is: its joins in order, the inner ones all walked.
Ready(b) ==
  /\ Ordered(b) /\ Reads(b) \subseteq Refs /\ b.measures \in Seq(Measure)
  /\ \A s \in ToSet(b.joins) : ~ Outer(s) => s \in Walked(b)

LEMMA BlockReady ==
  ASSUME AskInv, NEW v \in Visitors, NEW b \in Compiled(v)
  PROVE  Ready(b)
<1>1. PICK request : request = work[v].request
  OBVIOUS
<1>2. PICK unique : unique = True(work[v].known)
  OBVIOUS
<1>3. PICK t : t = b.fact
  OBVIOUS
<1>4. /\ request \in Request /\ t \in Tables
      /\ \E g \in Group : \E others : \E several :
           Shaped(b, t, g, FiltersAt(t, request, others, several, unique), request, unique)
  BY <1>1, <1>2, <1>3, BlockOf
<1>5. PICK g \in Group : \E others : \E several :
           Shaped(b, t, g, FiltersAt(t, request, others, several, unique), request, unique)
  BY <1>4
<1>6. PICK others : \E several : Shaped(b, t, g, FiltersAt(t, request, others, several, unique), request, unique)
  BY <1>5
<1>7. PICK several : Shaped(b, t, g, FiltersAt(t, request, others, several, unique), request, unique)
  BY <1>6
<1>8. PICK filters : filters = FiltersAt(t, request, others, several, unique)
  OBVIOUS
<1>9. filters \subseteq Condition
  <2>1. request.filters \in Seq(Condition)
    BY <1>4 DEF Request
  <2>2. ToSet(request.filters) \subseteq Condition
    BY <2>1 DEF ToSet
  <2>3. FiltersAt(t, request, others, several, unique) \subseteq ToSet(request.filters)
    BY Zenon DEF FiltersAt
  <2> QED
    BY <1>8, <2>2, <2>3
<1>10. PICK used : used = UsedAt(t, g, filters, request, unique)
  OBVIOUS
<1>11. Shaped(b, t, g, filters, request, unique)
  BY <1>7, <1>8
<1>12. /\ Reads(b) \subseteq Refs /\ b.measures \in Seq(Measure)
       /\ \A u \in used : \E r \in Reads(b) : r[1] = u
  <2>1. /\ Reads(b) \subseteq Refs /\ b.measures \in Seq(Measure)
        /\ \A u \in UsedAt(t, g, filters, request, unique) : \E r \in Reads(b) : r[1] = u
    <3>1. ShapedFor(b, t, g, filters, request, unique)
      BY <1>4, <1>5, <1>9, <1>11 DEF ShapedFor
    <3> QED
      BY <3>1, ShapedReads
  <2> QED
    BY <1>10, <2>1, Zenon
<1>13. Ordered(b) /\ RoutesTo(b.joins, t, used, unique)
  <2>1. /\ Ordered(b) /\ b.fact = t
        /\ RoutesTo(b.joins, t, UsedAt(t, g, filters, request, unique), unique)
        /\ \A r \in Refs : r[1] \in UsedAt(t, g, filters, request, unique) => r \in JoinedRefs(b)
    BY <1>4, <1>11, ShapedJoins, Zenon
  <2> QED
    BY <1>10, <2>1, Zenon
<1>14. \A u \in used : Reaches(t, u, unique)
  <2>1. \A u \in NamedAt(t, request, unique) : Reaches(t, u, unique)
    BY <1>4, <1>11, NamedAre DEF Shaped, NamedAt
  <2> QED
    BY <1>10, <1>11, <2>1 DEF Shaped, UsedAt
<1>15. ASSUME NEW s \in ToSet(b.joins), ~ Outer(s) PROVE s \in Walked(b)
  <2>1. PICK u \in used \ {t} : s \in ToSet(Route(t, u, unique))
    BY <1>13 DEF RoutesTo
  <2>2. PICK r \in Reads(b) : r[1] = u
    BY <1>12, <2>1
  <2>3. \A x \in ToSet(Route(t, u, unique)) : x \in ToSet(b.joins)
    BY <1>13, <2>1 DEF RoutesTo
  <2> QED
    BY <1>3, <1>12, <1>13, <1>14, <1>15, <2>1, <2>2, <2>3, InnerWalked
<1> QED
  BY <1>12, <1>13, <1>15 DEF Ready

\* What Plain says of the joins and filters of a block.
Settled(b) ==
  /\ \A s, t \in ToSet(b.joins) : s.to = t.from /\ Outer(s) => Outer(t)
  /\ \A s \in ToSet(b.joins) : Outer(s) => \A c \in b.where : \A r \in ReadsOf(c) :
       Pointing(b)[r][1] = s.to => s.from = b.fact /\ c.op # "IS NULL"

LEMMA PlainSettled == ASSUME NEW b, Plain(b) PROVE Settled(b) /\ Met(data, b)
<1> DEFINE outer == {s \in ToSet(b.joins) : Outer(s)}
<1>1. \A s : s \in outer <=> s \in ToSet(b.joins) /\ Outer(s)
  OBVIOUS
<1>2. /\ \A s \in outer : \A i \in DOMAIN data[s.from] :
           LET k == data[s.from][i][s.mine] IN k = Nil \/ Matches(data, s, k) # {}
      /\ \A s, t \in ToSet(b.joins) : (s.to = t.from /\ s \in outer) => t \in outer
      /\ \A s \in outer, c \in b.where :
           s.to \in {Pointing(b)[r][1] : r \in ReadsOf(c)} => (s.from = b.fact /\ c.op # "IS NULL")
  BY Zenon DEF Plain
<1> HIDE DEF outer
<1>3. Met(data, b)
  BY <1>1, <1>2 DEF Met
<1>4. \A s, t \in ToSet(b.joins) : s.to = t.from /\ Outer(s) => Outer(t)
  BY <1>1, <1>2
<1>5. ASSUME NEW s \in ToSet(b.joins), Outer(s), NEW c \in b.where, NEW r \in ReadsOf(c), Pointing(b)[r][1] = s.to
      PROVE  s.from = b.fact /\ c.op # "IS NULL"
  BY <1>1, <1>2, <1>5
<1> QED
  BY <1>3, <1>4, <1>5 DEF Settled

\* The filtered rows a row of the Cypher is in: those no optional join adds.
LEMMA OptionalOuter ==
  ASSUME NEW b, Ordered(b), Settled(b), NEW O, O = Optional(b)
  PROVE  /\ \A s \in ToSet(b.joins) : s.to \in O => Outer(s) /\ s \in Walked(b)
         /\ b.fact \notin O /\ FilteredOn(b) \cap O = {}
         /\ \A s \in Walked(b) : s.to \notin O =>
              /\ s.from \notin O
              /\ ~ Outer(s) \/ \E c \in b.where : c.op # "IS NULL" /\ \E r \in ReadsOf(c) : Pointing(b)[r][1] = s.to
<1> DEFINE js == b.joins
           n == Len(b.joins)
<1>0. n \in Nat /\ js \in Seq(Steps) /\ DOMAIN js = 1 .. n
  BY DEF Ordered
<1>1. /\ \A t \in O : \E s \in ToSet(js) : s.to = t
      /\ \A s \in ToSet(js) : s.to \in O <=> s \in Walked(b) /\ (s.from \in O \/ (Outer(s) /\ s.to \notin FilteredOn(b)))
  BY OptionalIs
<1>2. b.fact \notin O
  BY <1>1 DEF Ordered
<1>3. \A r : (\E c \in b.where : r \in ReadsOf(c)) <=> r \in UNION {ReadsOf(c) : c \in b.where}
  OBVIOUS
<1>4. \A t : t \in FilteredOn(b) <=> \E c \in b.where : \E r \in ReadsOf(c) : Pointing(b)[r][1] = t
  BY <1>3 DEF FilteredOn
<1>5. \A s \in Walked(b) : s \in ToSet(js)
  BY DEF Walked
<1> HIDE DEF n, js
<1>6. \A k \in 1 .. n : js[k] \in ToSet(js)
  BY <1>0 DEF ToSet
<1>7. \A k \in 1 .. n : js[k].to \in O => Outer(js[k])
  <2> DEFINE N == {k \in 1 .. n : js[k].to \in O /\ ~ Outer(js[k])}
  <2> SUFFICES ASSUME N # {} PROVE FALSE
    OBVIOUS
  <2>1. PICK k \in N : \A l \in N : k <= l
    <3>1. N \in SUBSET Nat
      BY <1>0
    <3> HIDE DEF N
    <3> QED
      BY <3>1, LeastNumber
  <2>2. k \in 1 .. n /\ js[k].to \in O /\ ~ Outer(js[k])
    OBVIOUS
  <2>3. js[k].from \in O
    BY <1>1, <1>6, <2>2
  <2>4. PICK q \in 1 .. k - 1 : js[q].to = js[k].from
    <3>1. js[k].from # b.fact
      BY <1>2, <2>3
    <3> QED
      BY <1>0, <2>2, <3>1 DEF Ordered, Chained, js
  <2>5. q \in 1 .. n /\ ~ (k <= q)
    BY <1>0, <2>2
  <2>6. Outer(js[q])
    BY <2>1, <2>3, <2>4, <2>5
  <2>7. Outer(js[k])
    BY <1>6, <2>2, <2>4, <2>5, <2>6 DEF Settled, js
  <2> QED
    BY <2>2, <2>7
<1>8. \A s \in ToSet(js) : s.to \in O => Outer(s) /\ s \in Walked(b)
  <2>1. \A s \in ToSet(js) : \E k \in 1 .. n : js[k] = s
    BY <1>0 DEF ToSet
  <2> QED
    BY <1>1, <1>7, <2>1
<1>9. ASSUME NEW t \in FilteredOn(b), t \in O PROVE FALSE
  <2>1. PICK s \in ToSet(js) : s.to = t
    BY <1>1, <1>9
  <2>2. s.from \in O /\ Outer(s)
    BY <1>1, <1>8, <1>9, <2>1
  <2>3. PICK c \in b.where : \E r \in ReadsOf(c) : Pointing(b)[r][1] = t
    BY <1>4, <1>9
  <2>4. s.from = b.fact
    BY <2>1, <2>2, <2>3 DEF Settled, js
  <2> QED
    BY <1>2, <2>2, <2>4
<1>10. ASSUME NEW s \in Walked(b), s.to \notin O
       PROVE  /\ s.from \notin O
              /\ ~ Outer(s) \/ \E c \in b.where : c.op # "IS NULL" /\ \E r \in ReadsOf(c) : Pointing(b)[r][1] = s.to
  <2>1. s.from \notin O /\ (Outer(s) => s.to \in FilteredOn(b))
    BY <1>1, <1>5, <1>10
  <2>2. ASSUME Outer(s) PROVE \E c \in b.where : c.op # "IS NULL" /\ \E r \in ReadsOf(c) : Pointing(b)[r][1] = s.to
    <3>1. PICK c \in b.where : \E r \in ReadsOf(c) : Pointing(b)[r][1] = s.to
      BY <1>4, <2>1, <2>2
    <3>2. c.op # "IS NULL"
      BY <1>5, <2>2, <3>1 DEF Settled, js
    <3> QED
      BY <3>1, <3>2
  <2> QED
    BY <2>1, <2>2
<1> QED
  BY <1>2, <1>8, <1>9, <1>10 DEF js

-----------------------------------------------------------------------------
(* The rows a block's Cypher aggregates *)

Inner(b) == {s \in Walked(b) : s.to \notin Optional(b)}
InnerTo(b) == {b.fact} \cup {s.to : s \in Inner(b)}
WalkedTo(b) == {b.fact} \cup {s.to : s \in Walked(b)}
ReadAt(bank, b, rows) == [e \in rows |-> [r \in Refs |-> Value(bank, e, Pointing(b)[r])]]
RowAt(bank, b, e) == [r \in Refs |-> Value(bank, e, Pointing(b)[r])]
InnerRows(bank, b) == Matched(bank, FactRows(bank, b), b.joins, Inner(b), FALSE)
KeptInner(bank, b) == {e \in InnerRows(bank, b) : \A c \in b.where : Holds(c, ReadAt(bank, b, InnerRows(bank, b))[e])}
CypherRows(bank, b) == Matched(bank, KeptInner(bank, b), b.joins, Walked(b) \ Inner(b), TRUE)

LEMMA OnMemoryIs ==
  ASSUME NEW bank, NEW b, FilteredOn(b) \cap Optional(b) = {}
  PROVE  OnMemory(bank, b) = Grouped(b, CypherRows(bank, b), ReadAt(bank, b, CypherRows(bank, b)), 0)
BY Zenon DEF OnMemory, CypherRows, KeptInner, InnerRows, Inner, ReadAt

LEMMA WalkedLined ==
  ASSUME NEW b, Ready(b), Settled(b)
  PROVE  /\ Inner(b) \subseteq Walked(b) /\ Walked(b) \subseteq ToSet(b.joins) /\ InnerTo(b) \subseteq Tables
         /\ Lined(b.joins, {b.fact}, Inner(b)) /\ Lined(b.joins, InnerTo(b), Walked(b) \ Inner(b))
         /\ \A s \in Inner(b) : s.from \in InnerTo(b) /\ s.to \in InnerTo(b)
         /\ \A s \in Walked(b) : s.from \in WalkedTo(b) /\ s.to \in WalkedTo(b)
<1> DEFINE js == b.joins
           W == Walked(b)
           O == Optional(b)
           I == Inner(b)
<1>0. /\ Ordered(b) /\ Reads(b) \subseteq Refs
      /\ js \in Seq(Steps) /\ DOMAIN js = 1 .. Len(js) /\ Len(js) \in Nat /\ b.fact \in Tables
  BY DEF Ready, Ordered
<1>1. I \subseteq W /\ W \subseteq ToSet(js)
  BY DEF Inner, Walked
<1>2. \A s \in ToSet(js) : s \in Steps /\ s.to \in Tables /\ s.to # b.fact
  <2>1. \A s \in ToSet(js) : s \in Steps /\ s.to # b.fact
    BY <1>0 DEF ToSet, Ordered
  <2> QED
    BY <2>1, StepTables
<1>3. \A s \in ToSet(js) : s \in W <=> s.to \in Needed(b)
  BY <1>0, NeededHas
<1>4. \A s \in W : s.from \in Needed(b) /\ (s \in I <=> s.to \notin O) /\ (s.to \notin O => s.from \notin O)
  <2>1. \A s \in W : s.to \notin O => s.from \notin O
    BY <1>0, OptionalOuter
  <2>2. \A s \in W : s.from \in Needed(b)
    BY <1>0, <1>1, <1>3, NeededHas
  <2> QED
    BY <2>1, <2>2 DEF Inner
<1> HIDE DEF W, O, I
<1>5. \A i \in DOMAIN js : js[i] \in ToSet(js)
  BY DEF ToSet
<1>6. \A i \in DOMAIN js : js[i] \in W =>
        js[i].from = b.fact \/ \E q \in 1 .. i - 1 : js[q] \in W /\ js[q].to = js[i].from /\ (js[i] \in I => js[q] \in I)
  <2> SUFFICES ASSUME NEW i \in DOMAIN js, js[i] \in W, js[i].from # b.fact
               PROVE  \E q \in 1 .. i - 1 : js[q] \in W /\ js[q].to = js[i].from /\ (js[i] \in I => js[q] \in I)
    OBVIOUS
  <2>1. PICK q \in 1 .. i - 1 : js[q].to = js[i].from
    BY <1>0 DEF Ordered, Chained
  <2>2. q \in DOMAIN js
    BY <1>0
  <2>3. js[q] \in W
    BY <1>3, <1>4, <1>5, <2>1, <2>2
  <2> QED
    BY <1>4, <2>1, <2>3
<1>7. \A x, y \in ToSet(js) : x.to = y.to => x = y
  BY <1>0 DEF Ordered, Distinctly, ToSet
<1>8. InnerTo(b) \subseteq Tables /\ \A t : t \in InnerTo(b) <=> t = b.fact \/ \E s \in I : s.to = t
  <2>1. \A t : t \in InnerTo(b) <=> t = b.fact \/ \E s \in I : s.to = t
    BY DEF InnerTo, I
  <2> QED
    BY <1>0, <1>1, <1>2, <2>1
<1>9. Distinctly(js)
  BY <1>0 DEF Ordered
<1>10. Lined(js, {b.fact}, I)
  <2>1. \A i \in DOMAIN js : js[i] \in I =>
          /\ js[i].to \notin {b.fact}
          /\ js[i].from \in {b.fact} \/ \E q \in 1 .. i - 1 : js[q] \in I /\ js[q].to = js[i].from
    BY <1>1, <1>2, <1>6
  <2> QED
    BY <1>0, <1>9, <2>1 DEF Lined
<1>11. Lined(js, InnerTo(b), W \ I)
  <2>1. ASSUME NEW i \in DOMAIN js, js[i] \in W \ I
        PROVE  /\ js[i].to \notin InnerTo(b)
               /\ js[i].from \in InnerTo(b) \/ \E q \in 1 .. i - 1 : js[q] \in W \ I /\ js[q].to = js[i].from
    <3>1. js[i].to \notin InnerTo(b)
      BY <1>1, <1>2, <1>5, <1>7, <1>8, <2>1
    <3>2. CASE js[i].from = b.fact
      BY <1>8, <3>1, <3>2
    <3>3. CASE js[i].from # b.fact
      <4>1. PICK q \in 1 .. i - 1 : js[q] \in W /\ js[q].to = js[i].from
        BY <1>6, <2>1, <3>3
      <4> QED
        BY <1>8, <3>1, <4>1
    <3> QED
      BY <3>2, <3>3
  <2> QED
    BY <1>0, <1>8, <1>9, <2>1 DEF Lined
<1>12. \A s \in W : \E i \in DOMAIN js : js[i] = s
  BY <1>1 DEF ToSet
<1>13. ASSUME NEW s \in W
       PROVE  /\ s.from \in WalkedTo(b) /\ s.to \in WalkedTo(b)
              /\ s \in I => s.from \in InnerTo(b) /\ s.to \in InnerTo(b)
  <2>1. PICK i \in DOMAIN js : js[i] = s
    BY <1>12
  <2>2. s.from = b.fact \/ \E x \in W : x.to = s.from /\ (s \in I => x \in I)
    BY <1>6, <2>1
  <2>3. \A t : t \in WalkedTo(b) <=> t = b.fact \/ \E x \in W : x.to = t
    BY DEF WalkedTo, W
  <2> QED
    BY <1>8, <2>2, <2>3
<1> QED
  BY <1>1, <1>8, <1>10, <1>11, <1>13 DEF W, I, js

LEMMA CutKeeps ==
  ASSUME NEW bank, NEW s, NEW f, NEW B, s.from \in Tables, s.to \in Tables, s.from \in B, s.to \in B, NEW outer
  PROVE  Extends(bank, Cut(f, B), s, outer) <=> Extends(bank, f, s, outer)
<1>1. Cut(f, B)[s.from] = f[s.from] /\ Cut(f, B)[s.to] = f[s.to]
  BY DEF Cut
<1> QED
  BY <1>1 DEF Extends, Value

LEMMA InnerAre ==
  ASSUME NEW bank \in Warehouses, NEW b, Ready(b), Settled(b), NEW e
  PROVE  e \in InnerRows(bank, b) <=> Made(bank, {b.fact}, Inner(b), {}, FactRows(bank, b), e)
<1>1. b.fact \in Tables
  BY DEF Ready, Ordered
<1>2. FactRows(bank, b) \in Rows /\ \A x \in FactRows(bank, b) : \A t \in Tables \ {b.fact} : x[t] = 0
  BY <1>1, FactRowsIn DEF FactRows
<1>3. Inner(b) \in SUBSET ToSet(b.joins) /\ Lined(b.joins, {b.fact}, Inner(b))
  BY WalkedLined
<1>4. e \in Matched(bank, FactRows(bank, b), b.joins, Inner(b), FALSE)
        <=> Made(bank, {b.fact}, Inner(b), IF FALSE THEN Inner(b) ELSE {}, FactRows(bank, b), e)
  BY <1>2, <1>3, MatchedAre
<1> QED
  BY <1>4 DEF InnerRows

\* A row of the Cypher: of a fact's row, whatever its joins reach, and kept.
Cyphered(bank, b, f) ==
  /\ f \in [Tables -> Nat] /\ Cut(f, {b.fact}) \in FactRows(bank, b)
  /\ \A t \in Tables \ WalkedTo(b) : f[t] = 0
  /\ \A s \in Walked(b) : Extends(bank, f, s, s.to \in Optional(b))
  /\ \A c \in b.where : Holds(c, RowAt(bank, b, f))

LEMMA FilterReads ==
  ASSUME NEW b, NEW c \in b.where
  PROVE  ReadOn(c, {r \in Reads(b) : Pointing(b)[r][1] \in FilteredOn(b)})
<1>1. \A r : (\E x \in b.where : r \in ReadsOf(x)) <=> r \in UNION {ReadsOf(x) : x \in b.where}
  OBVIOUS
<1>2. \A r \in ReadsOf(c) : r \in Reads(b) /\ Pointing(b)[r][1] \in FilteredOn(b)
  BY <1>1, ReadsIs DEF FilteredOn
<1>3. RefOf(c) \in ReadsOf(c) /\ (c.other # Nil => c.other \in ReadsOf(c))
  BY DEF ReadsOf
<1> QED
  BY <1>2, <1>3 DEF ReadOn

LEMMA CutFilters ==
  ASSUME NEW bank \in Warehouses, NEW b, Ready(b), Settled(b), NEW f \in [Tables -> Nat],
         \A t \in Tables \ WalkedTo(b) : f[t] = 0, NEW c \in b.where
  PROVE  Holds(c, RowAt(bank, b, Cut(f, InnerTo(b)))) <=> Holds(c, RowAt(bank, b, f))
<1> DEFINE B == InnerTo(b)
           R == {r \in Reads(b) : Pointing(b)[r][1] \in FilteredOn(b)}
<1>0. Ordered(b) /\ Reads(b) \subseteq Refs
  BY DEF Ready
<1>1. ASSUME NEW r \in R PROVE RowAt(bank, b, Cut(f, B))[r] = RowAt(bank, b, f)[r]
  <2>1. r \in Refs /\ Pointing(b)[r] \in Refs
    BY <1>0, PointingIs
  <2>2. PICK t \in Tables : t = Pointing(b)[r][1] /\ t \in FilteredOn(b)
    BY <2>1 DEF Refs
  <2>3. Cut(f, B)[t] = f[t]
    <3>1. CASE t \in B
      BY <3>1 DEF Cut
    <3>2. CASE t \notin B
      <4>1. t \notin Optional(b)
        <5>1. FilteredOn(b) \cap Optional(b) = {}
          BY <1>0, OptionalOuter
        <5> QED
          BY <2>2, <5>1
      <4>2. t \notin WalkedTo(b)
        BY <3>2, <4>1 DEF WalkedTo, InnerTo, Inner
      <4> QED
        BY <3>2, <4>2 DEF Cut
    <3> QED
      BY <3>1, <3>2
  <2>4. Value(bank, Cut(f, B), Pointing(b)[r]) = Value(bank, f, Pointing(b)[r])
    BY <2>2, <2>3 DEF Value
  <2> QED
    BY <2>1, <2>4 DEF RowAt
<1>2. ReadOn(c, R)
  BY FilterReads
<1> HIDE DEF R, B
<1>3. Holds(c, RowAt(bank, b, f)) <=> Holds(c, RowAt(bank, b, Cut(f, B)))
  BY <1>1, <1>2, HoldsAlike
<1> QED
  BY <1>3 DEF B

LEMMA CypherAre ==
  ASSUME NEW bank \in Warehouses, NEW b, Ready(b), Settled(b), NEW f
  PROVE  f \in CypherRows(bank, b) <=> Cyphered(bank, b, f)
<1> DEFINE B == InnerTo(b)
           I == Inner(b)
           W == Walked(b)
           K == KeptInner(bank, b)
           F == FactRows(bank, b)
           js == b.joins
<1>1. /\ I \subseteq W /\ W \subseteq ToSet(js) /\ B \subseteq Tables /\ b.fact \in Tables
      /\ Lined(js, B, W \ I) /\ js \in Seq(Steps)
      /\ \A s \in I : s.from \in B /\ s.to \in B
      /\ \A s \in W : s.from \in WalkedTo(b) /\ s.to \in WalkedTo(b)
  BY WalkedLined DEF Ready, Ordered
<1>2. \A e : e \in InnerRows(bank, b) <=> Made(bank, {b.fact}, I, {}, F, e)
  BY InnerAre
<1>3. \A s \in W : s \in Steps /\ s.from \in Tables /\ s.to \in Tables
  <2>1. \A s \in ToSet(js) : s \in Steps
    BY <1>1 DEF ToSet
  <2> QED
    BY <1>1, <2>1, StepTables
<1>4. /\ \A t : t \in B <=> t = b.fact \/ \E s \in I : s.to = t
      /\ \A t : t \in WalkedTo(b) <=> t = b.fact \/ \E s \in W : s.to = t
      /\ \A s \in W : s \in I <=> s.to \notin Optional(b)
  <2>1. \A t : t \in B <=> t = b.fact \/ \E s \in I : s.to = t
    BY DEF InnerTo
  <2>2. \A t : t \in WalkedTo(b) <=> t = b.fact \/ \E s \in W : s.to = t
    BY DEF WalkedTo
  <2> QED
    BY <2>1, <2>2 DEF Inner
<1>5. \A e : e \in K <=> Made(bank, {b.fact}, I, {}, F, e) /\ \A c \in b.where : Holds(c, RowAt(bank, b, e))
  <2>1. \A e \in InnerRows(bank, b) : ReadAt(bank, b, InnerRows(bank, b))[e] = RowAt(bank, b, e)
    BY DEF ReadAt, RowAt
  <2>2. \A e : e \in K <=> /\ e \in InnerRows(bank, b)
                           /\ \A c \in b.where : Holds(c, ReadAt(bank, b, InnerRows(bank, b))[e])
    BY DEF KeptInner
  <2> HIDE DEF K, I, F
  <2> QED
    BY <1>2, <2>1, <2>2
<1>6. K \in Rows /\ \A e \in K : \A t \in Tables \ B : e[t] = 0
  <2>1. \A e \in K : e \in [Tables -> Nat]
    BY <1>5 DEF Made
  <2>2. \A e \in K : \A t \in Tables \ B : e[t] = 0
    <3> SUFFICES ASSUME NEW e \in K, NEW t \in Tables \ B, e[t] # 0 PROVE FALSE
      OBVIOUS
    <3>1. t \notin {b.fact}
      BY <1>4
    <3>2. \E s \in I : s.to = t
      BY <1>5, <3>1 DEF Made
    <3> QED
      BY <1>4, <3>2
  <2> QED
    BY <2>1, <2>2 DEF Rows
<1>7. W \ I \in SUBSET ToSet(js)
  BY <1>1
<1>8. f \in CypherRows(bank, b) <=> Made(bank, B, W \ I, W \ I, K, f)
  <2> HIDE DEF B, I, W, K, js
  <2>1. f \in Matched(bank, K, js, W \ I, TRUE) <=> Made(bank, B, W \ I, IF TRUE THEN W \ I ELSE {}, K, f)
    BY <1>1, <1>6, <1>7, MatchedAre
  <2> QED
    BY <2>1 DEF CypherRows, I, W, K, js
<1> HIDE DEF B, I, W, K, F, js
<1>9. ASSUME f \in [Tables -> Nat]
      PROVE  Made(bank, {b.fact}, I, {}, F, Cut(f, B)) <=> Cut(f, {b.fact}) \in F /\ \A s \in I : Extends(bank, f, s, FALSE)
  <2>1. Cut(f, B) \in [Tables -> Nat]
    BY <1>9 DEF Cut
  <2>2. Cut(Cut(f, B), {b.fact}) = Cut(f, {b.fact})
    <3>1. b.fact \in B
      BY <1>4
    <3> QED
      BY <3>1 DEF Cut
  <2>3. \A t \in Tables \ {b.fact} : Cut(f, B)[t] # 0 => \E s \in I : s.to = t
    BY <1>4 DEF Cut
  <2>4. \A s \in I : Extends(bank, Cut(f, B), s, s \in {}) <=> Extends(bank, f, s, FALSE)
    <3> SUFFICES ASSUME NEW s \in I PROVE Extends(bank, Cut(f, B), s, s \in {}) <=> Extends(bank, f, s, FALSE)
      OBVIOUS
    <3>1. Extends(bank, Cut(f, B), s, FALSE) <=> Extends(bank, f, s, FALSE)
      BY <1>1, <1>3, CutKeeps
    <3> QED
      BY <3>1 DEF Extends
  <2> QED
    BY <2>1, <2>2, <2>3, <2>4 DEF Made
<1>10. ASSUME f \in [Tables -> Nat]
       PROVE  (\A t \in Tables \ B : f[t] # 0 => \E s \in W \ I : s.to = t) <=> \A t \in Tables \ WalkedTo(b) : f[t] = 0
  BY <1>1, <1>4
<1>11. (\A s \in I : Extends(bank, f, s, FALSE)) /\ (\A s \in W \ I : Extends(bank, f, s, s \in W \ I))
        <=> \A s \in W : Extends(bank, f, s, s.to \in Optional(b))
  <2>1. \A s \in I : s \in W /\ (Extends(bank, f, s, s.to \in Optional(b)) <=> Extends(bank, f, s, FALSE))
    BY <1>1, <1>4 DEF Extends
  <2>2. \A s \in W \ I : Extends(bank, f, s, s.to \in Optional(b)) <=> Extends(bank, f, s, s \in W \ I)
    BY <1>4 DEF Extends
  <2> QED
    BY <2>1, <2>2
<1>12. ASSUME f \in [Tables -> Nat], \A t \in Tables \ WalkedTo(b) : f[t] = 0
       PROVE  (\A c \in b.where : Holds(c, RowAt(bank, b, Cut(f, B)))) <=> \A c \in b.where : Holds(c, RowAt(bank, b, f))
  BY <1>12, CutFilters DEF B
<1>13. Made(bank, B, W \ I, W \ I, K, f) <=>
         /\ f \in [Tables -> Nat] /\ Cut(f, B) \in K
         /\ \A t \in Tables \ B : f[t] # 0 => \E s \in W \ I : s.to = t
         /\ \A s \in W \ I : Extends(bank, f, s, s \in W \ I)
  BY DEF Made
<1>14. Cyphered(bank, b, f) <=>
         /\ f \in [Tables -> Nat] /\ Cut(f, {b.fact}) \in F
         /\ \A t \in Tables \ WalkedTo(b) : f[t] = 0
         /\ \A s \in W : Extends(bank, f, s, s.to \in Optional(b))
         /\ \A c \in b.where : Holds(c, RowAt(bank, b, f))
  BY DEF Cyphered, F, W
<1> QED
  BY <1>5, <1>8, <1>9, <1>10, <1>11, <1>12, <1>13, <1>14

-----------------------------------------------------------------------------
(* Each row the SQL keeps is one of the Cypher's, and each of those is one *)

LEMMA ReadsSame ==
  ASSUME NEW bank \in Warehouses, NEW b, Ready(b), Settled(b), Met(bank, b), NEW e \in JoinedRows(bank, b), NEW r \in Reads(b)
  PROVE  RowAt(bank, b, Cut(e, WalkedTo(b)))[r] = Value(bank, e, r)
<1>0. Ordered(b) /\ Reads(b) \subseteq Refs /\ Met(bank, b)
  BY DEF Ready
<1>1. r \in Refs /\ Pointing(b)[r] \in Refs
  BY <1>0, PointingIs
<1>2. PICK t \in Tables : t = Pointing(b)[r][1]
  BY <1>1 DEF Refs
<1>3. t \in Needed(b)
  BY <1>0, <1>2, NeededHas
<1>4. Cut(e, WalkedTo(b))[t] = e[t]
  <2>1. CASE t \in WalkedTo(b)
    BY <2>1 DEF Cut
  <2>2. CASE t \notin WalkedTo(b)
    <3>1. e[t] = 0
      <4> SUFFICES ASSUME e[t] # 0 PROVE FALSE
        OBVIOUS
      <4>1. t # b.fact
        BY <2>2 DEF WalkedTo
      <4>2. PICK s \in ToSet(b.joins) : s.to = t
        BY <1>0, <4>1, JoinedIs
      <4>3. s \in Walked(b)
        BY <1>0, <1>3, <4>2, NeededHas
      <4> QED
        BY <2>2, <4>2, <4>3 DEF WalkedTo
    <3> QED
      BY <2>2, <3>1 DEF Cut
  <2> QED
    BY <2>1, <2>2
<1>5. Value(bank, Cut(e, WalkedTo(b)), Pointing(b)[r]) = Value(bank, e, Pointing(b)[r])
  BY <1>2, <1>4 DEF Value
<1>6. Value(bank, e, Pointing(b)[r]) = Value(bank, e, r)
  BY <1>0, <1>1, ValuePointed
<1> QED
  BY <1>1, <1>5, <1>6 DEF RowAt

LEMMA HoldsSame ==
  ASSUME NEW bank \in Warehouses, NEW b, Ready(b), Settled(b), Met(bank, b), NEW e \in JoinedRows(bank, b), NEW c \in b.where
  PROVE  Holds(c, RowAt(bank, b, Cut(e, WalkedTo(b)))) <=> Holds(c, ReadOf(bank, JoinedRows(bank, b))[e])
<1> DEFINE row == ReadOf(bank, JoinedRows(bank, b))[e]
           sow == RowAt(bank, b, Cut(e, WalkedTo(b)))
<1>1. ReadOn(c, Reads(b))
  BY ReadsIs DEF ReadOn, ReadsOf
<1>2. ASSUME NEW r \in Reads(b) PROVE sow[r] = row[r]
  <2>1. r \in Refs
    BY DEF Ready
  <2>2. row[r] = Value(bank, e, r)
    BY <2>1 DEF ReadOf
  <2> QED
    BY <2>2, ReadsSame
<1> HIDE DEF row, sow
<1>3. Holds(c, sow) <=> Holds(c, row)
  BY <1>1, <1>2, HoldsAlike
<1> QED
  BY <1>3 DEF row, sow

\* The rows the SQL aggregates.
SqlRows(bank, b) == Kept(b, JoinedRows(bank, b), ReadOf(bank, JoinedRows(bank, b)))

LEMMA SqlIsCyphered ==
  ASSUME NEW bank \in Warehouses, NEW b, Ready(b), Settled(b), Met(bank, b), NEW e \in SqlRows(bank, b)
  PROVE  Cyphered(bank, b, Cut(e, WalkedTo(b)))
<1> DEFINE f == Cut(e, WalkedTo(b))
<1>0. /\ Ordered(b) /\ Reads(b) \subseteq Refs /\ b.joins \in Seq(Steps) /\ b.fact \in Tables
  BY DEF Ready, Ordered
<1>1. e \in JoinedRows(bank, b) /\ \A c \in b.where : Holds(c, ReadOf(bank, JoinedRows(bank, b))[e])
  BY DEF SqlRows, Kept
<1>2. /\ e \in [Tables -> Nat] /\ Cut(e, {b.fact}) \in FactRows(bank, b)
      /\ \A s \in ToSet(b.joins) : Extends(bank, e, s, Outer(s))
  BY <1>0, <1>1, JoinedIs
<1>3. f \in [Tables -> Nat] /\ \A t \in Tables \ WalkedTo(b) : f[t] = 0
  BY <1>2 DEF Cut
<1>4. Cut(f, {b.fact}) = Cut(e, {b.fact})
  <2>1. b.fact \in WalkedTo(b)
    BY DEF WalkedTo
  <2> QED
    BY <2>1 DEF Cut
<1>5. \A c \in b.where : Holds(c, RowAt(bank, b, f))
  BY <1>1, HoldsSame
<1>6. ASSUME NEW s \in Walked(b) PROVE Extends(bank, f, s, s.to \in Optional(b))
  <2>1. s \in ToSet(b.joins) /\ s.from \in WalkedTo(b) /\ s.to \in WalkedTo(b)
    BY WalkedLined
  <2>2. s \in Steps
    BY <1>0, <2>1 DEF ToSet
  <2>3. s.from \in Tables /\ s.to \in Tables
    BY <2>2, StepTables
  <2>4. Extends(bank, e, s, s.to \in Optional(b))
    <3>1. Extends(bank, e, s, Outer(s))
      BY <1>2, <2>1
    <3>2. CASE s.to \in Optional(b)
      BY <3>1, <3>2 DEF Extends
    <3>3. CASE s.to \notin Optional(b) /\ ~ Outer(s)
      BY <3>1, <3>3 DEF Extends
    <3>4. CASE s.to \notin Optional(b) /\ Outer(s)
      <4>1. PICK c \in b.where : c.op # "IS NULL" /\ \E r \in ReadsOf(c) : Pointing(b)[r][1] = s.to
        BY <1>0, <3>4, OptionalOuter
      <4>2. PICK r \in ReadsOf(c) : Pointing(b)[r][1] = s.to
        BY <4>1
      <4>3. r \in Reads(b) /\ r \in Refs
        BY <1>0, ReadsIs
      <4> DEFINE row == RowAt(bank, b, f)
      <4>4. row[r] # Nil
        <5>1. Holds(c, row)
          BY <1>5
        <5>2. r = RefOf(c) \/ (c.other # Nil /\ r = c.other)
          BY <4>2 DEF ReadsOf
        <5> HIDE DEF row
        <5>3. Nil \notin {row[RefOf(c)], IF c.other = Nil THEN c.value ELSE row[c.other]}
          BY <4>1, <5>1, Zenon DEF Holds
        <5> QED
          BY <5>2, <5>3
      <4>5. f[s.to] # 0
        <5>1. row[r] = Value(bank, f, Pointing(b)[r])
          BY <4>3 DEF RowAt
        <5> HIDE DEF row, f
        <5> QED
          BY <4>2, <4>4, <5>1 DEF Value
      <4>6. e[s.to] # 0
        BY <2>1, <2>3, <4>5 DEF Cut
      <4> QED
        BY <3>1, <4>6 DEF Extends
    <3> QED
      BY <3>2, <3>3, <3>4
  <2> QED
    BY <2>1, <2>3, <2>4, CutKeeps
<1> QED
  BY <1>2, <1>3, <1>4, <1>5, <1>6 DEF Cyphered

\* In the tables B a row is as the joins that go there make it: all inner ones do.
Grows(bank, b, B, f) ==
  /\ f \in [Tables -> Nat] /\ Cut(f, {b.fact}) \in FactRows(bank, b) /\ b.fact \in B /\ B \subseteq Tables
  /\ \A s \in ToSet(b.joins) : s.to \in B => s.from \in B /\ Extends(bank, f, s, Outer(s))
  /\ \A s \in ToSet(b.joins) : s.to \notin B => Outer(s)
  /\ \A t \in B : t = b.fact \/ \E s \in ToSet(b.joins) : s.to = t

\* A row that the first k joins make, as f is there.
BuiltTo(bank, b, k, B, f, e) ==
  /\ e \in [Tables -> Nat] /\ Cut(e, {b.fact}) \in FactRows(bank, b)
  /\ \A t \in Tables : e[t] # 0 => t \in Upto(b, k)
  /\ \A i \in 1 .. k : Extends(bank, e, b.joins[i], Outer(b.joins[i]))
  /\ \A t \in B : t \in Upto(b, k) => e[t] = f[t]

LEMMA BuiltOneMore ==
  ASSUME NEW bank \in Warehouses, NEW b, Ordered(b), NEW B, NEW f, Grows(bank, b, B, f),
         NEW k \in 1 .. Len(b.joins), NEW e, BuiltTo(bank, b, k - 1, B, f, e)
  PROVE  \E x : BuiltTo(bank, b, k, B, f, x)
<1>0. Ordered(b) /\ b.joins \in Seq(Steps) /\ DOMAIN b.joins = 1 .. Len(b.joins) /\ Len(b.joins) \in Nat /\ k \in Nat
  BY DEF Ordered
<1>1. PICK s \in Steps : s = b.joins[k]
  BY <1>0
<1>2. /\ s.from \in Upto(b, k - 1) /\ s.to \notin Upto(b, k - 1)
      /\ Upto(b, k) = Upto(b, k - 1) \cup {s.to}
      /\ s \in ToSet(b.joins) /\ s.from \in Tables /\ s.to \in Tables
  <2>1. b.joins[k] \in ToSet(b.joins)
    BY <1>0 DEF ToSet
  <2> QED
    BY <1>0, <1>1, <2>1, JoinIsNew, StepTables
<1>3. e \in [Tables -> Nat] /\ f \in [Tables -> Nat] /\ e[s.to] = 0
  BY <1>2 DEF BuiltTo, Grows
<1> DEFINE found == Matches(bank, s, Value(bank, e, <<s.from, s.mine>>))
<1>4. \E v \in Nat : (v \in found \/ (found = {} /\ Outer(s) /\ v = 0)) /\ (s.to \in B => v = f[s.to])
  <2>1. CASE s.to \in B
    <3>1. s.from \in B /\ Extends(bank, f, s, Outer(s))
      BY <1>2, <2>1 DEF Grows
    <3>2. e[s.from] = f[s.from]
      BY <1>2, <3>1 DEF BuiltTo
    <3>3. Value(bank, e, <<s.from, s.mine>>) = Value(bank, f, <<s.from, s.mine>>)
      BY <3>2 DEF Value
    <3>4. f[s.to] \in found \/ (found = {} /\ Outer(s) /\ f[s.to] = 0)
      BY <3>1, <3>3 DEF Extends
    <3>5. f[s.to] \in Nat
      BY <1>2, <1>3
    <3> HIDE DEF found
    <3> QED
      BY <3>4, <3>5
  <2>2. CASE s.to \notin B
    <3>1. Outer(s)
      BY <1>2, <2>2 DEF Grows
    <3>2. found \subseteq Nat \ {0}
      BY MatchesIn
    <3> HIDE DEF found
    <3>3. CASE found = {}
      BY <2>2, <3>1, <3>3
    <3>4. CASE found # {}
      BY <2>2, <3>2, <3>4
    <3> QED
      BY <3>3, <3>4
  <2> QED
    BY <2>1, <2>2
<1>5. PICK v \in Nat : (v \in found \/ (found = {} /\ Outer(s) /\ v = 0)) /\ (s.to \in B => v = f[s.to])
  BY <1>4
<1> HIDE DEF found
<1> DEFINE x == [e EXCEPT ![s.to] = v]
<1>6. x \in [Tables -> Nat] /\ x[s.to] = v /\ \A t \in Tables : t # s.to => x[t] = e[t]
  BY <1>2, <1>3
<1> HIDE DEF x
<1>7. b.fact \in Upto(b, k - 1) /\ b.fact \in Tables /\ b.fact # s.to
  BY <1>0, <1>2 DEF Upto, Ordered
<1>8. Cut(x, {b.fact}) = Cut(e, {b.fact})
  BY <1>6, <1>7 DEF Cut
<1>9. \A t \in Tables : x[t] # 0 => t \in Upto(b, k)
  BY <1>2, <1>6 DEF BuiltTo
<1>10. \A t \in B : t \in Upto(b, k) => x[t] = f[t]
  BY <1>2, <1>5, <1>6 DEF BuiltTo, Grows
<1>11. ASSUME NEW i \in 1 .. k PROVE Extends(bank, x, b.joins[i], Outer(b.joins[i]))
  <2>1. CASE i = k
    <3>1. s.from # s.to
      BY <1>2
    <3>2. Value(bank, x, <<s.from, s.mine>>) = Value(bank, e, <<s.from, s.mine>>)
      BY <1>2, <1>6, <3>1 DEF Value
    <3>3. Extends(bank, x, s, Outer(s))
      BY <1>5, <1>6, <3>2 DEF Extends, found
    <3> QED
      BY <1>1, <2>1, <3>3
  <2>2. CASE i # k
    <3>1. i \in 1 .. k - 1 /\ i \in 1 .. Len(b.joins)
      BY <1>0, <2>2
    <3>2. PICK z \in Steps : z = b.joins[i]
      BY <1>0, <3>1
    <3>3. z.from \in Upto(b, i - 1) /\ z.to \in Upto(b, k - 1) /\ z.from \in Tables /\ z.to \in Tables
      BY <1>0, <3>1, <3>2, JoinIsNew, StepTables DEF Upto
    <3>4. Upto(b, i - 1) \subseteq Upto(b, k - 1)
      <4>1. \A q \in 1 .. i - 1 : q \in 1 .. k - 1
        BY <1>0, <3>1
      <4> QED
        BY <4>1 DEF Upto
    <3>5. x[z.from] = e[z.from] /\ x[z.to] = e[z.to]
      BY <1>2, <1>6, <3>3, <3>4
    <3>6. Extends(bank, e, z, Outer(z))
      BY <3>1, <3>2 DEF BuiltTo
    <3>7. Extends(bank, x, z, Outer(z))
      BY <3>5, <3>6 DEF Extends, Value
    <3> QED
      BY <3>2, <3>7
  <2> QED
    BY <2>1, <2>2
<1>12. BuiltTo(bank, b, k, B, f, x)
  BY <1>6, <1>8, <1>9, <1>10, <1>11 DEF BuiltTo
<1> QED
  BY <1>12

LEMMA RowGrown ==
  ASSUME NEW bank \in Warehouses, NEW b, Ordered(b), NEW B, NEW f, Grows(bank, b, B, f)
  PROVE  \E e \in JoinedRows(bank, b) : Cut(e, B) = Cut(f, B)
<1> DEFINE n == Len(b.joins)
<1>0. Ordered(b) /\ b.joins \in Seq(Steps) /\ DOMAIN b.joins = 1 .. n /\ n \in Nat /\ b.fact \in Tables
  BY DEF Ordered
<1>1. \E e : BuiltTo(bank, b, 0, B, f, e)
  <2> DEFINE e == Cut(f, {b.fact})
  <2>1. f \in [Tables -> Nat] /\ e \in FactRows(bank, b)
    BY DEF Grows
  <2>2. e \in [Tables -> Nat] /\ Cut(e, {b.fact}) = e
    BY <2>1 DEF Cut
  <2>3. \A t : t \in Upto(b, 0) <=> t = b.fact
    BY DEF Upto
  <2>4. \A t \in Tables : e[t] # 0 => t = b.fact
    BY DEF Cut
  <2>5. e[b.fact] = f[b.fact]
    BY <1>0 DEF Cut
  <2> HIDE DEF e
  <2>6. BuiltTo(bank, b, 0, B, f, e)
    BY <2>1, <2>2, <2>3, <2>4, <2>5 DEF BuiltTo
  <2> QED
    BY <2>6
<1>2. ASSUME NEW k \in 1 .. n, \E e : BuiltTo(bank, b, k - 1, B, f, e) PROVE \E e : BuiltTo(bank, b, k, B, f, e)
  <2>1. PICK e : BuiltTo(bank, b, k - 1, B, f, e)
    BY <1>2
  <2> QED
    BY <2>1, BuiltOneMore
<1> DEFINE N == {k \in 0 .. n : ~ \E e : BuiltTo(bank, b, k, B, f, e)}
<1> HIDE DEF n
<1>3. N = {}
  <2> SUFFICES ASSUME N # {} PROVE FALSE
    OBVIOUS
  <2>1. PICK k \in N : \A l \in N : k <= l
    <3>1. N \in SUBSET Nat
      BY <1>0
    <3> HIDE DEF N
    <3> QED
      BY <3>1, LeastNumber
  <2>2. k # 0
    BY <1>1
  <2>3. k \in 1 .. n /\ k - 1 \in 0 .. n /\ ~ (k <= k - 1)
    BY <1>0, <2>2
  <2>4. \E e : BuiltTo(bank, b, k - 1, B, f, e)
    BY <2>1, <2>3
  <2> QED
    BY <1>2, <2>3, <2>4
<1>4. PICK e : BuiltTo(bank, b, n, B, f, e)
  <2>1. n \in 0 .. n
    BY <1>0
  <2> QED
    BY <1>3, <2>1
<1>5. /\ e \in [Tables -> Nat] /\ Cut(e, {b.fact}) \in FactRows(bank, b)
      /\ \A t \in Tables : e[t] # 0 => t \in Upto(b, n)
      /\ \A i \in 1 .. n : Extends(bank, e, b.joins[i], Outer(b.joins[i]))
      /\ \A t \in B : t \in Upto(b, n) => e[t] = f[t]
  BY <1>4 DEF BuiltTo
<1>6. \A s : s \in ToSet(b.joins) <=> \E i \in 1 .. n : b.joins[i] = s
  BY <1>0 DEF ToSet
<1>7. \A t : t \in Upto(b, n) <=> t = b.fact \/ \E s \in ToSet(b.joins) : s.to = t
  <2>1. \A t : t \in Upto(b, n) <=> t = b.fact \/ \E i \in 1 .. n : b.joins[i].to = t
    BY DEF Upto
  <2> QED
    BY <1>6, <2>1
<1>8. e \in JoinedRows(bank, b)
  <2>1. ASSUME NEW s \in ToSet(b.joins) PROVE Extends(bank, e, s, s \in OuterOf(b))
    <3>1. Extends(bank, e, s, Outer(s))
      BY <1>5, <1>6
    <3>2. s \in OuterOf(b) <=> Outer(s)
      BY DEF OuterOf
    <3> QED
      BY <3>1, <3>2 DEF Extends
  <2>2. \A t \in Tables \ {b.fact} : e[t] # 0 => \E s \in ToSet(b.joins) : s.to = t
    BY <1>5, <1>7
  <2>3. Made(bank, {b.fact}, ToSet(b.joins), OuterOf(b), FactRows(bank, b), e)
    BY <1>5, <2>1, <2>2 DEF Made
  <2> QED
    BY <1>0, <2>3, JoinedAre
<1>9. \A t \in B : e[t] = f[t]
  <2>1. \A t \in B : t \in Upto(b, n)
    BY <1>7 DEF Grows
  <2> QED
    BY <1>5, <2>1
<1>10. Cut(e, B) = Cut(f, B)
  BY <1>9 DEF Cut
<1> QED
  BY <1>8, <1>10

LEMMA WalkedIs ==
  ASSUME NEW b, Ready(b), NEW s \in ToSet(b.joins)
  PROVE  s \in Walked(b) <=> s.to \in WalkedTo(b)
<1>1. Ordered(b) /\ \A w \in Walked(b) : w \in ToSet(b.joins)
  BY DEF Ready, Walked
<1>2. \A w \in ToSet(b.joins) : w.to = s.to => w = s
  BY <1>1 DEF Ordered, Distinctly, ToSet
<1>3. s.to # b.fact
  BY <1>1 DEF Ordered
<1> QED
  BY <1>1, <1>2, <1>3 DEF WalkedTo

-----------------------------------------------------------------------------
(* An aggregate over rows that are alike *)

\* What an aggregate takes, of rows where it has no column as well.
TakenOf(m, inside, rows, read) ==
  {e \in rows : (\A c \in inside : Holds(c, read[e])) /\ (m.table # Nil => read[e][<<m.table, m.col>>] # Nil)}
ValuesOf(m, rows, read) == [e \in rows |-> IF m.table = Nil THEN 1 ELSE read[e][<<m.table, m.col>>]]

LEMMA AggregateOfRows ==
  ASSUME NEW m, NEW inside, NEW rows, NEW read, m.table = Nil
  PROVE  Aggregate(m, inside, rows, read) = Agged(m.agg, TakenOf(m, inside, rows, read), [e \in rows |-> 1])
<1> DEFINE kept == {e \in rows : \A c \in inside : Holds(c, read[e])}
           of(e) == IF m.table = Nil THEN 1 ELSE read[e][<<m.table, m.col>>]
           taken == {e \in kept : of(e) # Nil}
           v == [e \in rows |-> 1]
           T == TakenOf(m, inside, rows, read)
<1>1. taken = T
  BY CatalogueAssumption DEF TakenOf
<1>2. T \in SUBSET rows /\ \A e \in T : of(e) = v[e]
  BY DEF TakenOf
<1>3. {of(e) : e \in taken} = {v[e] : e \in T}
  <2> HIDE DEF taken, T, of, v
  <2> QED
    BY <1>1, <1>2
<1>4. MapThenSumSet(of, taken) = Sum(v, T)
  <2>1. MapThenSumSet(of, T) = (CHOOSE g : AddsOne(g, T))[T]
    <3>1. MapThenSumSet(of, T) = (CHOOSE g :
            g = [U \in SUBSET T |-> IF U = {} THEN 0 ELSE of(Some(U)) + g[U \ {Some(U)}]])[T]
      <4> HIDE DEF T
      <4> QED
        BY Zenon DEF MapThenSumSet, MapThenFoldSet, Some
    <3>2. \A e : of(e) = 1
      OBVIOUS
    <3> QED
      BY <3>1, <3>2, Zenon DEF AddsOne
  <2>2. Sum(v, T) = (CHOOSE g : Adds(g, v, T))[T]
    BY SumIsFold
  <2>3. \A g : AddsOne(g, T) <=> Adds(g, v, T)
    <3> HIDE DEF T
    <3> QED
      BY <1>2, OnesAdd DEF v
  <2>4. (CHOOSE g : AddsOne(g, T)) = (CHOOSE g : Adds(g, v, T))
    BY <2>3
  <2> QED
    BY <1>1, <2>1, <2>2, <2>4
<1>5. Aggregate(m, inside, rows, read) =
        CASE m.agg = "COUNT" -> Cardinality(taken)
          [] m.agg = "COUNT_DISTINCT" -> Cardinality({of(e) : e \in taken})
          [] m.agg = "SUM" /\ taken # {} -> MapThenSumSet(of, taken)
          [] m.agg = "MAX" /\ taken # {} -> Max({of(e) : e \in taken})
          [] OTHER -> Nil
  BY Zenon DEF Aggregate
<1> HIDE DEF taken, T, of, v, kept
<1>6. Aggregate(m, inside, rows, read) = Agged(m.agg, T, v)
  BY <1>1, <1>3, <1>4, <1>5, Zenon DEF Agged
<1> QED
  BY <1>6 DEF T, v

LEMMA AggregateOf ==
  ASSUME NEW m, NEW inside, NEW rows, NEW read
  PROVE  Aggregate(m, inside, rows, read) = Agged(m.agg, TakenOf(m, inside, rows, read), ValuesOf(m, rows, read))
<1>1. CASE m.table = Nil
  <2>1. ValuesOf(m, rows, read) = [e \in rows |-> 1]
    BY <1>1 DEF ValuesOf
  <2> QED
    BY <1>1, <2>1, AggregateOfRows
<1>2. CASE m.table # Nil
  <2>1. ValuesOf(m, rows, read) = OfEach(m, rows, read)
    BY <1>2 DEF ValuesOf, OfEach
  <2>2. TakenOf(m, inside, rows, read) = Taken(m, inside, rows, read)
    BY <1>2 DEF TakenOf, Taken
  <2> QED
    BY <1>2, <2>1, <2>2, AggregateIs
<1> QED
  BY <1>1, <1>2

\* The columns that a measure reads are among R.
ReadIn(m, inside, R) ==
  (\A c \in inside : ReadOn(c, R)) /\ (m.table # Nil => <<m.table, m.col>> \in R)

LEMMA AggregateSame ==
  ASSUME NEW m, NEW inside, NEW R, ReadIn(m, inside, R), NEW h, NEW S, NEW p, NEW T, NEW q, Alike(h, S, p, T, q, R),
         IsFiniteSet(S), m.table # Nil => Numbered(m, S, p)
  PROVE  /\ Aggregate(m, inside, S, p) = Aggregate(m, inside, T, q)
         /\ m.agg = "COUNT" => Aggregate(m, inside, S, p) \in Nat
<1> DEFINE X == TakenOf(m, inside, S, p)
           Y == TakenOf(m, inside, T, q)
           v == ValuesOf(m, S, p)
           w == ValuesOf(m, T, q)
<1>1. OneToOne(h, S, T) /\ \A e \in S : h[e] \in T /\ \A r \in R : q[h[e]][r] = p[e][r]
  BY DEF Alike, OneToOne
<1>2. X \in SUBSET S /\ Y \in SUBSET T /\ IsFiniteSet(X)
  BY FS_Subset DEF TakenOf
<1>3. ASSUME NEW e \in S PROVE e \in X <=> h[e] \in Y
  <2> DEFINE row == p[e]
             sow == q[h[e]]
  <2>1. \A r \in R : sow[r] = row[r]
    BY <1>1
  <2>2. m.table # Nil => sow[<<m.table, m.col>>] = row[<<m.table, m.col>>]
    BY <2>1 DEF ReadIn
  <2> HIDE DEF row, sow
  <2>3. \A c \in inside : Holds(c, sow) <=> Holds(c, row)
    BY <2>1, HoldsAlike DEF ReadIn
  <2> QED
    BY <1>1, <2>2, <2>3 DEF TakenOf, row, sow
<1>4. OneToOne(h, X, Y)
  BY <1>1, <1>2, <1>3, OneToOnePart
<1>5. \A e \in X : v[e] \in Nat /\ w[h[e]] = v[e]
  <2> SUFFICES ASSUME NEW e \in X PROVE v[e] \in Nat /\ w[h[e]] = v[e]
    OBVIOUS
  <2>1. e \in S /\ h[e] \in T
    BY <1>1, <1>2
  <2>2. CASE m.table = Nil
    BY <2>1, <2>2 DEF ValuesOf
  <2>3. CASE m.table # Nil
    <3>1. p[e][<<m.table, m.col>>] \in Nat
      BY <2>1, <2>3 DEF Numbered, TakenOf
    <3>2. q[h[e]][<<m.table, m.col>>] = p[e][<<m.table, m.col>>]
      BY <1>1, <2>1, <2>3 DEF ReadIn
    <3> QED
      BY <2>1, <2>3, <3>1, <3>2 DEF ValuesOf
  <2> QED
    BY <2>2, <2>3
<1> HIDE DEF X, Y, v, w
<1>6. Agged(m.agg, X, v) = Agged(m.agg, Y, w)
  BY <1>2, <1>4, <1>5, AggedSame
<1>7. m.agg = "COUNT" => Agged(m.agg, X, v) \in Nat
  <2> SUFFICES ASSUME m.agg = "COUNT" PROVE Agged(m.agg, X, v) \in Nat
    OBVIOUS
  <2>1. \A e \in X : v[e] \in Nat
    BY <1>5
  <2> QED
    BY <1>2, <2>1, AggedIs
<1> QED
  BY <1>6, <1>7, AggregateOf DEF X, Y, v, w

-----------------------------------------------------------------------------
(* What a block gives over rows that are alike *)

SummedOr(parts, none) == IF parts = {} THEN none ELSE MapThenSumSet(LAMBDA p : p[2], parts)
MeasuredOr(b, m, group, read, none) ==
  IF b.per = <<>> THEN Aggregate(m, Inside(b, m), group, read)
  ELSE SummedOr({p \in EachOf(b, m, group, read) : p[2] # Nil}, none)
KeysOf(b, rows, read) == IF b.dims = <<>> THEN {<<>>} ELSE {KeyOf(b, read, e) : e \in rows}

LEMMA GroupedOr ==
  ASSUME NEW b, NEW rows, NEW read, NEW none
  PROVE  Grouped(b, rows, read, none) =
           [k \in KeysOf(b, rows, read) |-> [i \in DOMAIN b.measures |->
              MeasuredOr(b, b.measures[i], InGroup(b, rows, read, k), read, none)]]
BY Zenon DEF Grouped, KeysOf, MeasuredOr, SummedOr, EachOf, Inside, Entities0, OfEntity, InGroup, EntityOf, KeyOf

\* The columns a block groups, counts per entity and measures by are among R.
GroupsIn(b, R) ==
  /\ \A i \in DOMAIN b.dims : b.dims[i] \in R
  /\ \A i \in DOMAIN b.per : b.per[i] \in R
  /\ \A i \in DOMAIN b.measures : ReadIn(b.measures[i], Inside(b, b.measures[i]), R)

LEMMA AlikePart ==
  ASSUME NEW h, NEW P, NEW p, NEW Q, NEW q, NEW R, Alike(h, P, p, Q, q, R), NEW S \in SUBSET P, NEW T \in SUBSET Q,
         \A e \in P : e \in S <=> h[e] \in T
  PROVE  Alike(h, S, p, T, q, R) /\ (S = {} <=> T = {})
<1>1. OneToOne(h, S, T)
  BY OneToOnePart DEF Alike
<1> QED
  BY <1>1 DEF Alike, OneToOne

LEMMA KeyAlike ==
  ASSUME NEW b, NEW R, GroupsIn(b, R), NEW row, NEW sow, \A r \in R : sow[r] = row[r]
  PROVE  /\ [i \in DOMAIN b.dims |-> sow[b.dims[i]]] = [i \in DOMAIN b.dims |-> row[b.dims[i]]]
         /\ [i \in DOMAIN b.per |-> sow[b.per[i]]] = [i \in DOMAIN b.per |-> row[b.per[i]]]
BY DEF GroupsIn

\* What is counted per entity, of some rows: each entity has its count.
LEMMA CountedSame ==
  ASSUME NEW b, NEW R, GroupsIn(b, R), NEW i \in DOMAIN b.measures, NEW m, m = b.measures[i], m.agg = "COUNT",
         NEW h, NEW S, NEW p, NEW T, NEW q, Alike(h, S, p, T, q, R), IsFiniteSet(S), S # {},
         m.table # Nil => Numbered(m, S, p)
  PROVE  LET parts(group, read) == {z \in EachOf(b, m, group, read) : z[2] # Nil} IN
         parts(S, p) = parts(T, q) /\ parts(S, p) # {}
<1> DEFINE a == [x \in Entities0(b, S, p) |-> Aggregate(m, Inside(b, m), OfEntity(b, S, p, x), p)]
           E == Entities0(b, S, p)
<1>1. \A e \in S : h[e] \in T /\ EntityOf(b, q, h[e]) = EntityOf(b, p, e)
  <2> SUFFICES ASSUME NEW e \in S PROVE h[e] \in T /\ EntityOf(b, q, h[e]) = EntityOf(b, p, e)
    OBVIOUS
  <2>1. h[e] \in T /\ \A r \in R : q[h[e]][r] = p[e][r]
    BY DEF Alike, OneToOne
  <2> QED
    BY <2>1, KeyAlike DEF EntityOf
<1>2. \A f \in T : \E e \in S : h[e] = f
  BY DEF Alike, OneToOne
<1>3. Entities0(b, T, q) = E
  <2>1. \A x \in E : x \in Entities0(b, T, q)
    BY <1>1 DEF Entities0
  <2>2. \A x \in Entities0(b, T, q) : x \in E
    BY <1>1, <1>2 DEF Entities0
  <2> QED
    BY <2>1, <2>2
<1>4. ASSUME NEW x
      PROVE  /\ Aggregate(m, Inside(b, m), OfEntity(b, S, p, x), p) = Aggregate(m, Inside(b, m), OfEntity(b, T, q, x), q)
             /\ Aggregate(m, Inside(b, m), OfEntity(b, S, p, x), p) \in Nat
  <2> DEFINE X == OfEntity(b, S, p, x)
             Y == OfEntity(b, T, q, x)
  <2>1. X \in SUBSET S /\ Y \in SUBSET T /\ \A e \in S : e \in X <=> h[e] \in Y
    BY <1>1 DEF OfEntity
  <2> HIDE DEF X, Y
  <2>2. Alike(h, X, p, Y, q, R) /\ IsFiniteSet(X) /\ (m.table # Nil => Numbered(m, X, p))
    <3>1. X \in SUBSET S /\ Y \in SUBSET T
      BY <2>1
    <3>2. OneToOne(h, S, T)
      BY DEF Alike
    <3>3. OneToOne(h, X, Y)
      BY <2>1, <3>1, <3>2, OneToOnePart
    <3>4. Alike(h, X, p, Y, q, R)
      BY <3>1, <3>3 DEF Alike
    <3> QED
      BY <3>1, <3>4, FS_Subset DEF Numbered
  <2>3. ReadIn(m, Inside(b, m), R)
    BY DEF GroupsIn
  <2>4. Aggregate(m, Inside(b, m), X, p) = Aggregate(m, Inside(b, m), Y, q)
        /\ Aggregate(m, Inside(b, m), X, p) \in Nat
    BY <2>2, <2>3, AggregateSame
  <2> QED
    BY <2>4 DEF X, Y
<1>5. \A x \in E : a[x] \in Nat
  BY <1>4
<1>6. EachOf(b, m, S, p) = {<<x, a[x]>> : x \in E}
  BY DEF EachOf
<1>7. EachOf(b, m, T, q) = {<<x, a[x]>> : x \in E}
  <2>1. \A x \in E : Aggregate(m, Inside(b, m), OfEntity(b, T, q, x), q) = a[x]
    BY <1>4
  <2> HIDE DEF a, E
  <2> QED
    BY <1>3, <2>1 DEF EachOf
<1>8. E # {}
  BY DEF Entities0
<1> HIDE DEF a, E
<1>9. PICK x \in E : TRUE
  BY <1>8
<1>10. <<x, a[x]>> \in EachOf(b, m, S, p) /\ <<x, a[x]>>[2] # Nil
  BY <1>5, <1>6, CatalogueAssumption
<1>11. \E z \in EachOf(b, m, S, p) : z[2] # Nil
  BY <1>10
<1> QED
  BY <1>6, <1>7, <1>11

LEMMA GroupedSame ==
  ASSUME NEW b, NEW R, GroupsIn(b, R), NEW h, NEW P, NEW p, NEW Q, NEW q, Alike(h, P, p, Q, q, R), IsFiniteSet(P),
         \A i \in DOMAIN b.measures : b.measures[i].table # Nil => Numbered(b.measures[i], P, p),
         b.per # <<>> => b.dims # <<>> /\ \A i \in DOMAIN b.measures : b.measures[i].agg = "COUNT",
         NEW none, NEW nil
  PROVE  Grouped(b, P, p, none) = Grouped(b, Q, q, nil)
<1>1. \A e \in P : h[e] \in Q /\ KeyOf(b, q, h[e]) = KeyOf(b, p, e)
  <2> SUFFICES ASSUME NEW e \in P PROVE h[e] \in Q /\ KeyOf(b, q, h[e]) = KeyOf(b, p, e)
    OBVIOUS
  <2>1. h[e] \in Q /\ \A r \in R : q[h[e]][r] = p[e][r]
    BY DEF Alike, OneToOne
  <2> QED
    BY <2>1, KeyAlike DEF KeyOf
<1>2. \A f \in Q : \E e \in P : h[e] = f
  BY DEF Alike, OneToOne
<1>3. KeysOf(b, P, p) = KeysOf(b, Q, q)
  <2>1. \A k : (\E e \in P : KeyOf(b, p, e) = k) <=> \E f \in Q : KeyOf(b, q, f) = k
    BY <1>1, <1>2
  <2>2. {KeyOf(b, p, e) : e \in P} = {KeyOf(b, q, f) : f \in Q}
    BY <2>1
  <2> QED
    BY <2>2, Zenon DEF KeysOf
<1>4. ASSUME NEW k \in KeysOf(b, P, p), NEW i \in DOMAIN b.measures, NEW m, m = b.measures[i]
      PROVE  MeasuredOr(b, m, InGroup(b, P, p, k), p, none) = MeasuredOr(b, m, InGroup(b, Q, q, k), q, nil)
  <2> DEFINE S == InGroup(b, P, p, k)
             T == InGroup(b, Q, q, k)
  <2>1. S \in SUBSET P /\ T \in SUBSET Q /\ \A e \in P : e \in S <=> h[e] \in T
    BY <1>1 DEF InGroup
  <2>2. b.dims # <<>> => S # {}
    <3> SUFFICES ASSUME b.dims # <<>> PROVE S # {}
      OBVIOUS
    <3>1. PICK e \in P : k = KeyOf(b, p, e)
      BY <1>4 DEF KeysOf
    <3>2. e \in S
      BY <3>1 DEF InGroup
    <3> QED
      BY <3>2
  <2> HIDE DEF S, T
  <2>3. Alike(h, S, p, T, q, R) /\ IsFiniteSet(S) /\ (m.table # Nil => Numbered(m, S, p))
    BY <1>4, <2>1, AlikePart, FS_Subset DEF Numbered
  <2>4. CASE b.per = <<>>
    <3>1. ReadIn(m, Inside(b, m), R)
      BY <1>4 DEF GroupsIn
    <3>2. Aggregate(m, Inside(b, m), S, p) = Aggregate(m, Inside(b, m), T, q)
      BY <2>3, <3>1, AggregateSame
    <3> QED
      BY <2>4, <3>2, Zenon DEF MeasuredOr, S, T
  <2>5. CASE b.per # <<>>
    <3> DEFINE U == {z \in EachOf(b, m, S, p) : z[2] # Nil}
               V == {z \in EachOf(b, m, T, q) : z[2] # Nil}
    <3>1. m.agg = "COUNT" /\ S # {}
      BY <1>4, <2>2, <2>5
    <3>2. U = V /\ U # {}
      BY <1>4, <2>3, <3>1, CountedSame
    <3> HIDE DEF U, V
    <3>3. SummedOr(U, none) = SummedOr(V, nil)
      BY <3>2, Zenon DEF SummedOr
    <3> QED
      BY <2>5, <3>3, Zenon DEF MeasuredOr, U, V, S, T
  <2> QED
    BY <2>4, <2>5
<1>5. /\ Grouped(b, P, p, none) = [k \in KeysOf(b, P, p) |-> [i \in DOMAIN b.measures |->
              MeasuredOr(b, b.measures[i], InGroup(b, P, p, k), p, none)]]
      /\ Grouped(b, Q, q, nil) = [k \in KeysOf(b, Q, q) |-> [i \in DOMAIN b.measures |->
              MeasuredOr(b, b.measures[i], InGroup(b, Q, q, k), q, nil)]]
  BY GroupedOr
<1> QED
  BY <1>3, <1>4, <1>5

LEMMA GroupsRead ==
  ASSUME NEW b
  PROVE  GroupsIn(b, Reads(b))
<1>1. \A i \in DOMAIN b.dims : b.dims[i] \in ToSet(b.dims)
  BY DEF ToSet
<1>2. \A i \in DOMAIN b.per : b.per[i] \in ToSet(b.per)
  BY DEF ToSet
<1>3. ASSUME NEW i \in DOMAIN b.measures, NEW m, m = b.measures[i] PROVE ReadIn(m, Inside(b, m), Reads(b))
  <2>1. m \in ToSet(b.measures) /\ Inside(b, m) \subseteq m.only \cup m.filters
    BY <1>3 DEF ToSet, Inside
  <2>2. \A c \in m.only \cup m.filters : \A r \in ReadsOf(c) : r \in Reads(b)
    BY <2>1, ReadsIs
  <2>3. \A c : RefOf(c) \in ReadsOf(c) /\ (c.other # Nil => c.other \in ReadsOf(c))
    BY DEF ReadsOf
  <2>4. m.table # Nil => <<m.table, m.col>> \in Reads(b)
    BY <2>1, ReadsIs
  <2> QED
    BY <2>1, <2>2, <2>3, <2>4 DEF ReadIn, ReadOn
<1>4. \A r \in ToSet(b.dims) \cup ToSet(b.per) : r \in Reads(b)
  BY ReadsIs
<1> QED
  BY <1>1, <1>2, <1>3, <1>4 DEF GroupsIn

LEMMA NumbersRead ==
  ASSUME NEW bank \in Warehouses, NEW b, Ready(b), NEW P \in SUBSET JoinedRows(bank, b),
         NEW m, m.table # Nil, <<m.table, m.col>> \in Reads(b)
  PROVE  Numbered(m, P, ReadOf(bank, JoinedRows(bank, b)))
<1> DEFINE r == <<m.table, m.col>>
           J == JoinedRows(bank, b)
<1>1. r \in Refs /\ Ordered(b)
  BY DEF Ready
<1>2. r[1] \in Tables
  BY <1>1 DEF Refs
<1> HIDE DEF r, J
<1>3. ASSUME NEW e \in J PROVE ReadOf(bank, J)[e][r] \in Nat \cup {Nil}
  <2>1. e[r[1]] = 0 \/ e[r[1]] \in DOMAIN bank[r[1]]
    BY <1>1, <1>2, <1>3, JoinedIs DEF J
  <2>2. Value(bank, e, r) \in Nat \cup {Nil}
    BY <1>1, <2>1, ValueNumber
  <2> QED
    BY <1>1, <2>2 DEF ReadOf
<1> QED
  BY <1>3 DEF Numbered, r, J

\* What is summed per entity: a count, in groups.
CountsPer(b) == b.per # <<>> => b.dims # <<>> /\ \A m \in ToSet(b.measures) : m.agg = "COUNT"

\* What is walked to is a table.
LEMMA WalkedToTables ==
  ASSUME NEW b, Ordered(b), NEW t \in WalkedTo(b)
  PROVE  t \in Tables
<1>1. b.fact \in Tables /\ b.joins \in Seq(Steps)
  BY DEF Ordered
<1>2. t = b.fact \/ \E s \in ToSet(b.joins) : t = s.to
  BY DEF WalkedTo, Walked
<1>3. \A s \in ToSet(b.joins) : s \in Steps
  BY <1>1 DEF ToSet
<1> QED
  BY <1>1, <1>2, <1>3, StepTables

-----------------------------------------------------------------------------
(* Rows copied elsewhere, and what a block's joins make of the copies *)

\* Each of the rows is a copy of one of the bank's, none of them twice.
Copies(bank, held, rows) ==
  \A t \in Tables :
    /\ \A n \in DOMAIN rows[t] : held[t][n] \in DOMAIN bank[t] /\ rows[t][n] = bank[t][held[t][n]]
    /\ \A n, k \in DOMAIN rows[t] : held[t][n] = held[t][k] => n = k
\* A joined row g of the copies is of what f is a joined row of.
Copied(rows, held, g, f) ==
  /\ g \in [Tables -> Nat]
  /\ \A t \in Tables : \/ g[t] = 0 /\ f[t] = 0
                       \/ g[t] \in DOMAIN rows[t] /\ held[t][g[t]] = f[t] /\ g[t] # 0 /\ f[t] # 0

LEMMA BankRows ==
  ASSUME NEW bank \in Warehouses, NEW t \in Tables
  PROVE  DOMAIN bank[t] \subseteq Nat \ {0}
<1>1. \A n \in DOMAIN bank[t] : n \in Nat /\ n # 0
  BY DEF Warehouses
<1> QED
  BY <1>1

LEMMA CopyExists ==
  ASSUME NEW bank \in Warehouses, NEW rows \in Warehouses, NEW held, Copies(bank, held, rows), NEW f \in [Tables -> Nat],
         \A t \in Tables : f[t] # 0 => \E n \in DOMAIN rows[t] : held[t][n] = f[t]
  PROVE  \E g : Copied(rows, held, g, f)
<1> DEFINE at(t) == IF f[t] = 0 THEN 0 ELSE CHOOSE n \in DOMAIN rows[t] : held[t][n] = f[t]
           g == [t \in Tables |-> at(t)]
<1>1. ASSUME NEW t \in Tables
      PROVE  \/ at(t) = 0 /\ f[t] = 0
             \/ at(t) \in DOMAIN rows[t] /\ held[t][at(t)] = f[t] /\ at(t) # 0 /\ f[t] # 0
  <2>1. f[t] # 0 => at(t) \in DOMAIN rows[t] /\ held[t][at(t)] = f[t]
    OBVIOUS
  <2>2. f[t] = 0 => at(t) = 0
    OBVIOUS
  <2> HIDE DEF at
  <2>3. DOMAIN rows[t] \subseteq Nat \ {0}
    BY BankRows
  <2> QED
    BY <2>1, <2>2, <2>3
<1>2. \A t \in Tables : at(t) \in Nat
  <2> SUFFICES ASSUME NEW t \in Tables PROVE at(t) \in Nat
    OBVIOUS
  <2>1. at(t) = 0 \/ at(t) \in DOMAIN rows[t]
    BY <1>1
  <2> HIDE DEF at
  <2> QED
    BY <2>1, BankRows
<1> HIDE DEF at
<1>3. Copied(rows, held, g, f)
  BY <1>1, <1>2 DEF Copied
<1> QED
  BY <1>3

LEMMA CopyUp ==
  ASSUME NEW bank \in Warehouses, NEW rows \in Warehouses, NEW held, Copies(bank, held, rows), NEW g \in [Tables -> Nat],
         \A t \in Tables : g[t] = 0 \/ g[t] \in DOMAIN rows[t]
  PROVE  \E f \in [Tables -> Nat] : Copied(rows, held, g, f)
<1> DEFINE f == [t \in Tables |-> IF g[t] = 0 THEN 0 ELSE held[t][g[t]]]
<1>1. ASSUME NEW t \in Tables, g[t] # 0 PROVE g[t] \in DOMAIN rows[t] /\ f[t] = held[t][g[t]] /\ f[t] \in Nat \ {0}
  <2>1. g[t] \in DOMAIN rows[t]
    BY <1>1
  <2>2. held[t][g[t]] \in DOMAIN bank[t]
    BY <2>1 DEF Copies
  <2>3. held[t][g[t]] \in Nat \ {0}
    BY <2>2, BankRows
  <2> QED
    BY <1>1, <2>1, <2>3
<1>2. \A t \in Tables : g[t] = 0 => f[t] = 0
  OBVIOUS
<1>3. f = [t \in Tables |-> f[t]]
  OBVIOUS
<1> HIDE DEF f
<1>4. f \in [Tables -> Nat]
  BY <1>1, <1>2, <1>3
<1>5. Copied(rows, held, g, f)
  BY <1>1, <1>2 DEF Copied
<1> QED
  BY <1>4, <1>5

LEMMA CopyValue ==
  ASSUME NEW bank \in Warehouses, NEW rows \in Warehouses, NEW held, Copies(bank, held, rows),
         NEW g, NEW f, Copied(rows, held, g, f), NEW r \in Refs
  PROVE  Value(rows, g, r) = Value(bank, f, r)
<1>1. r[1] \in Tables
  BY DEF Refs
<1> QED
  BY <1>1 DEF Value, Copied, Copies

LEMMA CopyRow ==
  ASSUME NEW bank \in Warehouses, NEW rows \in Warehouses, NEW held, Copies(bank, held, rows),
         NEW g, NEW f, Copied(rows, held, g, f), NEW b, Ordered(b)
  PROVE  RowAt(rows, b, g) = RowAt(bank, b, f)
<1>1. \A r \in Refs : Pointing(b)[r] \in Refs
  BY PointingIs
<1>2. \A r \in Refs : Value(rows, g, Pointing(b)[r]) = Value(bank, f, Pointing(b)[r])
  BY <1>1, CopyValue
<1> QED
  BY <1>2 DEF RowAt

\* A join that finds a copy finds what it is of, and one that finds what a
\* copy there is of finds it.
LEMMA CopyExtends ==
  ASSUME NEW bank \in Warehouses, NEW rows \in Warehouses, NEW held, Copies(bank, held, rows),
         NEW g, NEW f, Copied(rows, held, g, f), NEW s \in Steps, NEW outer
  PROVE  /\ Extends(bank, f, s, outer) => Extends(rows, g, s, outer)
         /\ Extends(rows, g, s, FALSE) => Extends(bank, f, s, outer)
<1>1. s.from \in Tables /\ s.to \in Tables /\ <<s.from, s.mine>> \in Refs
  BY StepTables DEF Refs
<1>2. PICK v : v = Value(bank, f, <<s.from, s.mine>>) /\ v = Value(rows, g, <<s.from, s.mine>>)
  BY <1>1, CopyValue
<1>3. \A n \in DOMAIN rows[s.to] : n \in Matches(rows, s, v) <=> held[s.to][n] \in Matches(bank, s, v)
  BY <1>1 DEF Matches, Copies
<1>4. \A n \in Matches(rows, s, v) : n \in DOMAIN rows[s.to]
  BY DEF Matches
<1>5. 0 \notin Matches(bank, s, v) /\ 0 \notin Matches(rows, s, v)
  BY MatchesIn
<1>6. \/ g[s.to] = 0 /\ f[s.to] = 0
      \/ g[s.to] \in DOMAIN rows[s.to] /\ held[s.to][g[s.to]] = f[s.to]
  BY <1>1 DEF Copied
<1>7. g[s.to] \in Matches(rows, s, v) <=> f[s.to] \in Matches(bank, s, v)
  BY <1>3, <1>5, <1>6, <1>4
<1>8. Matches(bank, s, v) = {} => Matches(rows, s, v) = {}
  BY <1>3, <1>4
<1>9. f[s.to] = 0 => g[s.to] = 0
  BY <1>1 DEF Copied
<1> QED
  BY <1>2, <1>7, <1>8, <1>9 DEF Extends

LEMMA CutFact ==
  ASSUME NEW bank, NEW b, b.fact \in Tables, NEW f \in [Tables -> Nat]
  PROVE  Cut(f, {b.fact}) \in FactRows(bank, b) <=> f[b.fact] \in DOMAIN bank[b.fact]
<1>1. ASSUME NEW i, Cut(f, {b.fact}) = [t \in Tables |-> IF t = b.fact THEN i ELSE 0] PROVE f[b.fact] = i
  <2>1. Cut(f, {b.fact})[b.fact] = f[b.fact] /\ [t \in Tables |-> IF t = b.fact THEN i ELSE 0][b.fact] = i
    BY DEF Cut
  <2> QED
    BY <1>1, <2>1
<1>2. Cut(f, {b.fact}) = [t \in Tables |-> IF t = b.fact THEN f[b.fact] ELSE 0]
  BY DEF Cut
<1> QED
  BY <1>1, <1>2 DEF FactRows

\* So a row of the Cypher on the bank, if it is copied, is one on the copies.
LEMMA CopyCyphered ==
  ASSUME NEW bank \in Warehouses, NEW rows \in Warehouses, NEW held, Copies(bank, held, rows),
         NEW b, Ready(b), NEW f, Cyphered(bank, b, f), NEW g, Copied(rows, held, g, f)
  PROVE  Cyphered(rows, b, g)
<1>0. Ordered(b) /\ b.fact \in Tables /\ \A s \in Walked(b) : s \in Steps
  BY DEF Ready, Ordered, Walked, ToSet
<1>1. g \in [Tables -> Nat] /\ \A t \in Tables : \/ g[t] = 0 /\ f[t] = 0
                                                 \/ g[t] \in DOMAIN rows[t] /\ f[t] # 0
  BY DEF Copied
<1>2. f \in [Tables -> Nat] /\ f[b.fact] \in DOMAIN bank[b.fact]
  BY <1>0, CutFact DEF Cyphered
<1>3. f[b.fact] # 0
  BY <1>0, <1>2, BankRows
<1>4. Cut(g, {b.fact}) \in FactRows(rows, b)
  BY <1>0, <1>1, <1>3, CutFact
<1>5. \A t \in Tables \ WalkedTo(b) : g[t] = 0
  BY <1>1 DEF Cyphered
<1>6. ASSUME NEW s \in Walked(b) PROVE Extends(rows, g, s, s.to \in Optional(b))
  <2>1. s \in Steps
    BY <1>0
  <2>2. Extends(bank, f, s, s.to \in Optional(b))
    BY DEF Cyphered
  <2>3. PICK optional : optional = (s.to \in Optional(b))
    OBVIOUS
  <2>4. Extends(bank, f, s, optional)
    BY <2>2, <2>3, Zenon
  <2>5. Extends(rows, g, s, optional)
    BY <2>1, <2>4, CopyExtends
  <2> QED
    BY <2>3, <2>5, Zenon
<1>7. RowAt(rows, b, g) = RowAt(bank, b, f)
  BY <1>0, CopyRow
<1> QED
  BY <1>1, <1>4, <1>5, <1>6, <1>7 DEF Cyphered

LEMMA CypheredIn ==
  ASSUME NEW rows \in Warehouses, NEW b, Ready(b), NEW g, Cyphered(rows, b, g)
  PROVE  \A t \in Tables : g[t] = 0 \/ g[t] \in DOMAIN rows[t]
<1>0. b.fact \in Tables /\ g \in [Tables -> Nat]
  BY DEF Ready, Ordered, Cyphered
<1>1. g[b.fact] \in DOMAIN rows[b.fact]
  BY <1>0, CutFact DEF Cyphered
<1>2. ASSUME NEW s \in Walked(b) PROVE g[s.to] = 0 \/ g[s.to] \in DOMAIN rows[s.to]
  BY DEF Cyphered, Extends, Matches
<1>3. \A t \in Tables \ WalkedTo(b) : g[t] = 0
  BY DEF Cyphered
<1> QED
  BY <1>1, <1>2, <1>3 DEF WalkedTo

\* Each value is joined to one row at most.
OneEach(rows, b) == \A s \in Walked(b) : \A v : \A i, k \in Matches(rows, s, v) : i = k

LEMMA CopiesOneEach ==
  ASSUME NEW bank \in Warehouses, NEW rows \in Warehouses, NEW held, Copies(bank, held, rows),
         NEW b, Ready(b), SingleJoins(bank, b)
  PROVE  OneEach(rows, b)
<1> SUFFICES ASSUME NEW s \in Walked(b), NEW v, NEW i \in Matches(rows, s, v), NEW k \in Matches(rows, s, v) PROVE i = k
  BY DEF OneEach
<1>1. s \in ToSet(b.joins) /\ s \in Steps
  BY DEF Ready, Ordered, Walked, ToSet
<1>2. s.to \in Tables /\ IsUnique(bank, <<s.to, s.theirs>>)
  BY <1>1, StepTables DEF SingleJoins
<1>3. i \in DOMAIN rows[s.to] /\ k \in DOMAIN rows[s.to]
  BY DEF Matches
<1>4. held[s.to][i] \in Matches(bank, s, v) /\ held[s.to][k] \in Matches(bank, s, v)
  BY <1>2, <1>3 DEF Matches, Copies
<1>5. held[s.to][i] = held[s.to][k]
  BY <1>1, <1>2, <1>4, AtMostOneMatch
<1> QED
  BY <1>2, <1>3, <1>5 DEF Copies

\* Then a row of the Cypher is the one of its fact's row.
LEMMA CypherOnce ==
  ASSUME NEW rows \in Warehouses, NEW b, Ready(b), Settled(b), OneEach(rows, b), NEW x, NEW y,
         Cyphered(rows, b, x), Cyphered(rows, b, y), x[b.fact] = y[b.fact]
  PROVE  x = y
<1> DEFINE n == Len(b.joins)
           N == {i \in 1 .. n : b.joins[i] \in Walked(b) /\ x[b.joins[i].to] # y[b.joins[i].to]}
<1>0. Ordered(b) /\ b.joins \in Seq(Steps) /\ DOMAIN b.joins = 1 .. n /\ n \in Nat
  BY DEF Ready, Ordered
<1>1. N = {}
  <2> SUFFICES ASSUME N # {} PROVE FALSE
    OBVIOUS
  <2>1. PICK i \in N : \A k \in N : i <= k
    <3>1. N \in SUBSET Nat
      BY <1>0
    <3> HIDE DEF N
    <3> QED
      BY <3>1, LeastNumber
  <2>2. PICK s \in Walked(b) : s = b.joins[i]
    OBVIOUS
  <2>3. i \in DOMAIN b.joins /\ x[s.to] # y[s.to]
    BY <1>0, <2>2
  <2>4. x[s.from] = y[s.from]
    <3>1. CASE s.from = b.fact
      BY <3>1
    <3>2. CASE s.from # b.fact
      <4>1. PICK q \in 1 .. i - 1 : b.joins[q].to = s.from
        BY <1>0, <2>2, <2>3, <3>2, StepsLater
      <4>2. q \in 1 .. n /\ ~ (i <= q) /\ b.joins[q] \in ToSet(b.joins)
        BY <1>0, <2>3 DEF ToSet
      <4>3. s.from \in WalkedTo(b)
        BY WalkedLined
      <4>4. b.joins[q] \in Walked(b)
        BY <4>1, <4>2, <4>3, WalkedIs
      <4>5. q \notin N
        BY <2>1, <4>2
      <4> QED
        BY <4>1, <4>2, <4>4, <4>5
    <3> QED
      BY <3>1, <3>2
  <2>5. PICK v : v = Value(rows, x, <<s.from, s.mine>>) /\ v = Value(rows, y, <<s.from, s.mine>>)
    BY <2>4 DEF Value
  <2>6. \A i1, k1 \in Matches(rows, s, v) : i1 = k1
    BY DEF OneEach
  <2>7. Extends(rows, x, s, s.to \in Optional(b)) /\ Extends(rows, y, s, s.to \in Optional(b))
    BY DEF Cyphered
  <2>8. /\ x[s.to] \in Matches(rows, s, v) \/ (Matches(rows, s, v) = {} /\ x[s.to] = 0)
        /\ y[s.to] \in Matches(rows, s, v) \/ (Matches(rows, s, v) = {} /\ y[s.to] = 0)
    BY <2>5, <2>7 DEF Extends
  <2> QED
    BY <2>3, <2>6, <2>8
<1>2. \A s \in Walked(b) : x[s.to] = y[s.to]
  <2> SUFFICES ASSUME NEW s \in Walked(b) PROVE x[s.to] = y[s.to]
    OBVIOUS
  <2>1. PICK i \in 1 .. n : b.joins[i] = s
    BY <1>0 DEF Walked, ToSet
  <2> QED
    BY <1>1, <2>1
<1>3. \A t \in Tables : x[t] = y[t]
  BY <1>2 DEF Cyphered, WalkedTo
<1>4. x \in [Tables -> Nat] /\ y \in [Tables -> Nat]
  BY DEF Cyphered
<1> QED
  BY <1>3, <1>4

\* Every row the SQL aggregates is of rows there are copies of.
RowsHeld(bank, b, rows, held) ==
  \A e \in SqlRows(bank, b) : \A t \in WalkedTo(b) : e[t] # 0 => \E n \in DOMAIN rows[t] : held[t][n] = e[t]

\* What inner joins make of copies is in a row the SQL aggregates.
LEMMA RowFromCopies ==
  ASSUME NEW bank \in Warehouses, NEW rows \in Warehouses, NEW held, Copies(bank, held, rows),
         NEW b, Ready(b), Settled(b), Met(bank, b), NEW g, Cyphered(rows, b, g)
  PROVE  \E e \in SqlRows(bank, b) : g[b.fact] \in DOMAIN rows[b.fact] /\ e[b.fact] = held[b.fact][g[b.fact]]
<1> DEFINE B == InnerTo(b)
<1>0. /\ Ordered(b) /\ b.fact \in Tables /\ \A s \in ToSet(b.joins) : s \in Steps
      /\ Walked(b) \subseteq ToSet(b.joins)
  BY DEF Ready, Ordered, ToSet, Walked
<1>1. PICK f \in [Tables -> Nat] : Copied(rows, held, g, f)
  BY CypheredIn, CopyUp DEF Cyphered
<1>2. g[b.fact] \in DOMAIN rows[b.fact] /\ g[b.fact] # 0 /\ f[b.fact] = held[b.fact][g[b.fact]]
  <2>1. g[b.fact] \in DOMAIN rows[b.fact]
    BY <1>0, CutFact DEF Cyphered
  <2>2. g[b.fact] # 0
    BY <1>0, <2>1, BankRows
  <2> QED
    BY <1>0, <1>1, <2>1, <2>2 DEF Copied
<1>3. Cut(f, {b.fact}) \in FactRows(bank, b)
  <2>1. f[b.fact] \in DOMAIN bank[b.fact]
    BY <1>0, <1>2 DEF Copies
  <2> QED
    BY <1>0, <1>1, <2>1, CutFact
<1>4. b.fact \in B /\ B \subseteq Tables /\ \A t \in B : t = b.fact \/ \E s \in ToSet(b.joins) : s.to = t
  BY <1>0, WalkedLined DEF InnerTo, Inner
<1>5. ASSUME NEW s \in ToSet(b.joins), s.to \in B PROVE s.from \in B /\ Extends(bank, f, s, Outer(s))
  <2>1. PICK w \in Inner(b) : w.to = s.to
    BY <1>0, <1>5 DEF InnerTo, Ordered
  <2>2. w = s
    BY <1>0, <2>1 DEF Inner, Ordered, Distinctly, ToSet
  <2>3. s \in Walked(b) /\ s.to \notin Optional(b)
    BY <2>1, <2>2 DEF Inner
  <2>4. Extends(rows, g, s, FALSE)
    BY <2>3, Zenon DEF Cyphered, Extends
  <2>5. PICK outer : outer = Outer(s)
    OBVIOUS
  <2>6. Extends(bank, f, s, outer)
    BY <1>0, <1>1, <2>4, CopyExtends
  <2> QED
    BY <2>1, <2>2, <2>5, <2>6, WalkedLined, Zenon
<1>6. ASSUME NEW s \in ToSet(b.joins), s.to \notin B PROVE Outer(s)
  <2> SUFFICES ASSUME ~ Outer(s) PROVE FALSE
    OBVIOUS
  <2>1. s \in Walked(b)
    BY DEF Ready
  <2>2. s.to \in Optional(b)
    BY <1>6, <2>1 DEF InnerTo, Inner
  <2>3. PICK O : O = Optional(b)
    OBVIOUS
  <2>4. Outer(s)
    BY <1>0, <2>2, <2>3, OptionalOuter
  <2> QED
    BY <2>4
<1>7. Grows(bank, b, B, f)
  <2> HIDE DEF B
  <2> QED
    BY <1>1, <1>3, <1>4, <1>5, <1>6 DEF Grows
<1>8. PICK e \in JoinedRows(bank, b) : Cut(e, B) = Cut(f, B)
  BY <1>0, <1>7, RowGrown
<1>9. e \in [Tables -> Nat] /\ e[b.fact] = f[b.fact]
  <2>1. e \in [Tables -> Nat]
    BY <1>0, JoinedIs
  <2>2. Cut(e, B)[b.fact] = e[b.fact] /\ Cut(f, B)[b.fact] = f[b.fact]
    BY <1>0, <1>4 DEF Cut
  <2> QED
    BY <1>8, <2>1, <2>2
<1>10. ASSUME NEW c \in b.where PROVE Holds(c, ReadOf(bank, JoinedRows(bank, b))[e])
  <2> DEFINE x == Cut(e, WalkedTo(b))
             y == Cut(f, WalkedTo(b))
  <2>1. x \in [Tables -> Nat] /\ \A t \in Tables \ WalkedTo(b) : x[t] = 0
    BY <1>9 DEF Cut
  <2>2. y = f
    <3>1. \A t \in Tables \ WalkedTo(b) : f[t] = 0
      BY <1>1 DEF Cyphered, Copied
    <3> QED
      BY <3>1 DEF Cut
  <2>3. B \subseteq WalkedTo(b)
    BY DEF InnerTo, WalkedTo, Inner
  <2>4. Cut(x, B) = Cut(f, B)
    <3>1. Cut(x, B) = Cut(e, B)
      BY <2>3 DEF Cut
    <3> QED
      BY <1>8, <3>1
  <2>5. Holds(c, RowAt(bank, b, f))
    BY <1>0, <1>1, CopyRow DEF Cyphered
  <2>6. Holds(c, RowAt(bank, b, Cut(f, B)))
    <3>1. \A t \in Tables \ WalkedTo(b) : f[t] = 0
      BY <1>1 DEF Cyphered, Copied
    <3> QED
      BY <2>5, <3>1, CutFilters
  <2> HIDE DEF x, y, B
  <2>7. Holds(c, RowAt(bank, b, x))
    BY <2>1, <2>4, <2>6, CutFilters DEF B
  <2> QED
    BY <2>7, HoldsSame DEF x
<1>11. e \in SqlRows(bank, b)
  BY <1>10 DEF SqlRows, Kept
<1> QED
  BY <1>2, <1>9, <1>11

\* Read where it says, each row of the one is a row of the other, copied.
LEMMA RowsCopied ==
  ASSUME NEW bank \in Warehouses, NEW rows \in Warehouses, NEW held, Copies(bank, held, rows),
         NEW b, Ready(b), Settled(b), Met(bank, b), SingleJoins(bank, b), RowsHeld(bank, b, rows, held),
         NEW P, P = SqlRows(bank, b), NEW Q, Q = CypherRows(rows, b)
  PROVE  \E h : Alike(h, P, ReadOf(bank, JoinedRows(bank, b)), Q, ReadAt(rows, b, Q), Reads(b))
<1> DEFINE J == JoinedRows(bank, b)
           copy(e) == CHOOSE g : Copied(rows, held, g, Cut(e, WalkedTo(b)))
           h == [e \in P |-> copy(e)]
<1>0. Ordered(b) /\ b.fact \in Tables /\ Reads(b) \subseteq Refs /\ b.fact \in WalkedTo(b)
  BY DEF Ready, Ordered, WalkedTo
<1>1. P \subseteq J /\ \A e \in P : e \in SqlRows(bank, b)
  BY DEF SqlRows, Kept
<1>2. ASSUME NEW e \in P PROVE Copied(rows, held, h[e], Cut(e, WalkedTo(b)))
  <2>1. Cut(e, WalkedTo(b)) \in [Tables -> Nat]
    <3>1. e \in [Tables -> Nat]
      BY <1>0, <1>1, JoinedIs
    <3> QED
      BY <3>1 DEF Cut
  <2>2. ASSUME NEW t \in Tables, Cut(e, WalkedTo(b))[t] # 0
        PROVE  \E n \in DOMAIN rows[t] : held[t][n] = Cut(e, WalkedTo(b))[t]
    <3>1. t \in WalkedTo(b) /\ Cut(e, WalkedTo(b))[t] = e[t]
      BY <2>2 DEF Cut
    <3> QED
      BY <2>2, <3>1, <1>1 DEF RowsHeld
  <2>3. \E g : Copied(rows, held, g, Cut(e, WalkedTo(b)))
    <3> DEFINE f == Cut(e, WalkedTo(b))
    <3>1. f \in [Tables -> Nat] /\ \A t \in Tables : f[t] # 0 => \E n \in DOMAIN rows[t] : held[t][n] = f[t]
      BY <2>1, <2>2
    <3> HIDE DEF f
    <3>2. \E g : Copied(rows, held, g, f)
      BY <3>1, CopyExists
    <3> QED
      BY <3>2 DEF f
  <2>4. Copied(rows, held, copy(e), Cut(e, WalkedTo(b)))
    BY <2>3, Zenon
  <2> QED
    BY <2>4
<1> HIDE DEF h
<1>3. \A g : g \in Q <=> Cyphered(rows, b, g)
  BY CypherAre
<1>4. ASSUME NEW e \in P PROVE h[e] \in Q
  <2>1. Cyphered(bank, b, Cut(e, WalkedTo(b)))
    BY <1>1, SqlIsCyphered
  <2>2. Cyphered(rows, b, h[e])
    BY <1>2, <2>1, CopyCyphered
  <2> QED
    BY <1>3, <2>2
<1>5. ASSUME NEW e \in P PROVE /\ e[b.fact] # 0 /\ h[e][b.fact] \in DOMAIN rows[b.fact]
                              /\ held[b.fact][h[e][b.fact]] = e[b.fact]
  <2>1. Cut(e, WalkedTo(b))[b.fact] = e[b.fact]
    BY <1>0 DEF Cut
  <2>2. e[b.fact] # 0
    BY <1>0, <1>1, RowsFinite
  <2> QED
    BY <1>0, <1>2, <2>1, <2>2 DEF Copied
<1>6. ASSUME NEW x \in P, NEW y \in P, h[x] = h[y] PROVE x = y
  <2>1. x[b.fact] = y[b.fact] /\ x[b.fact] # 0
    BY <1>5, <1>6
  <2>2. x \in J /\ y \in J /\ Once(J, b.fact)
    BY <1>0, <1>1, RowsFinite
  <2> QED
    BY <2>1, <2>2 DEF Once
<1>7. ASSUME NEW g \in Q PROVE \E e \in P : h[e] = g
  <2>1. Cyphered(rows, b, g)
    BY <1>3
  <2>2. PICK e \in P : g[b.fact] \in DOMAIN rows[b.fact] /\ e[b.fact] = held[b.fact][g[b.fact]]
    BY <2>1, RowFromCopies
  <2>3. g[b.fact] = h[e][b.fact]
    BY <1>0, <1>5, <2>2 DEF Copies
  <2>4. Cyphered(rows, b, h[e])
    BY <1>3, <1>4
  <2>5. OneEach(rows, b)
    BY CopiesOneEach
  <2>6. g = h[e]
    BY <2>1, <2>3, <2>4, <2>5, CypherOnce
  <2> QED
    BY <2>6
<1>8. ASSUME NEW e \in P, NEW r \in Reads(b) PROVE ReadAt(rows, b, Q)[h[e]][r] = ReadOf(bank, J)[e][r]
  <2>1. ReadAt(rows, b, Q)[h[e]] = RowAt(rows, b, h[e])
    BY <1>4 DEF ReadAt, RowAt
  <2>2. r \in Refs /\ e \in J
    BY <1>0, <1>1
  <2>3. ReadOf(bank, J)[e][r] = Value(bank, e, r)
    BY <2>2 DEF ReadOf
  <2>4. RowAt(bank, b, Cut(e, WalkedTo(b)))[r] = Value(bank, e, r)
    BY <2>2, ReadsSame
  <2>5. RowAt(rows, b, h[e]) = RowAt(bank, b, Cut(e, WalkedTo(b)))
    BY <1>0, <1>2, CopyRow
  <2> QED
    BY <2>1, <2>3, <2>4, <2>5
<1>9. OneToOne(h, P, Q)
  BY <1>4, <1>6, <1>7 DEF OneToOne
<1>10. Alike(h, P, ReadOf(bank, J), Q, ReadAt(rows, b, Q), Reads(b))
  BY <1>8, <1>9 DEF Alike
<1> QED
  BY <1>10

\* So the Cypher gives on the copies what the SQL gives.
LEMMA AlikeGroups ==
  ASSUME NEW bank \in Warehouses, NEW b, Ready(b), Settled(b), SingleJoins(bank, b), CountsPer(b),
         NEW rows, NEW P, P = SqlRows(bank, b), NEW Q, Q = CypherRows(rows, b),
         \E h : Alike(h, P, ReadOf(bank, JoinedRows(bank, b)), Q, ReadAt(rows, b, Q), Reads(b))
  PROVE  OnMemory(rows, b) = InSql(bank, b)
<1>3. PICK p : p = ReadOf(bank, JoinedRows(bank, b))
  OBVIOUS
<1>4. PICK q : q = ReadAt(rows, b, Q)
  OBVIOUS
<1>5. IsFiniteSet(P)
  <2>1. IsFiniteSet(JoinedRows(bank, b)) /\ P \in SUBSET JoinedRows(bank, b)
    BY RowsFinite DEF Ready, SqlRows, Kept
  <2> QED
    BY <2>1, FS_Subset
<1>6. PICK h : Alike(h, P, p, Q, q, Reads(b))
  BY <1>3, <1>4
<1>7. \A i \in DOMAIN b.measures : b.measures[i].table # Nil => Numbered(b.measures[i], P, p)
  <2> SUFFICES ASSUME NEW i \in DOMAIN b.measures, NEW m, m = b.measures[i], m.table # Nil PROVE Numbered(m, P, p)
    OBVIOUS
  <2>1. m \in ToSet(b.measures)
    BY DEF ToSet
  <2>2. <<m.table, m.col>> \in Reads(b)
    BY <2>1, ReadsIs
  <2>3. P \in SUBSET JoinedRows(bank, b)
    BY DEF SqlRows, Kept
  <2> QED
    BY <1>3, <2>2, <2>3, NumbersRead
<1>8. b.per # <<>> => b.dims # <<>> /\ \A i \in DOMAIN b.measures : b.measures[i].agg = "COUNT"
  BY DEF CountsPer, ToSet
<1>9. Grouped(b, P, p, Nil) = Grouped(b, Q, q, 0)
  BY <1>5, <1>6, <1>7, <1>8, GroupsRead, GroupedSame
<1>10. InSql(bank, b) = Grouped(b, P, p, Nil)
  BY <1>3, InSqlIs, Zenon DEF SqlRows
<1>11. OnMemory(rows, b) = Grouped(b, Q, q, 0)
  <2>1. FilteredOn(b) \cap Optional(b) = {}
    <3>1. PICK O : O = Optional(b)
      OBVIOUS
    <3>2. Ordered(b)
      BY DEF Ready
    <3>3. FilteredOn(b) \cap O = {}
      BY <3>1, <3>2, OptionalOuter
    <3> QED
      BY <3>1, <3>3
  <2> QED
    BY <1>4, <2>1, OnMemoryIs
<1> QED
  BY <1>9, <1>10, <1>11

LEMMA CopiesAnswer ==
  ASSUME NEW bank \in Warehouses, NEW rows \in Warehouses, NEW held, Copies(bank, held, rows),
         NEW b, Ready(b), Settled(b), Met(bank, b), SingleJoins(bank, b), CountsPer(b), RowsHeld(bank, b, rows, held)
  PROVE  OnMemory(rows, b) = InSql(bank, b)
  BY RowsCopied, AlikeGroups

-----------------------------------------------------------------------------
(* A block's Cypher and its SQL over the warehouse's own rows *)

LEMMA SameHere ==
  ASSUME NEW bank \in Warehouses, NEW b, Ready(b), Settled(b), Met(bank, b), SingleJoins(bank, b), CountsPer(b)
  PROVE  OnMemory(bank, b) = InSql(bank, b)
<1>1. PICK held : held = [t \in Tables |-> [n \in DOMAIN bank[t] |-> n]]
  OBVIOUS
<1>2. \A t \in Tables : DOMAIN held[t] = DOMAIN bank[t] /\ \A n \in DOMAIN bank[t] : held[t][n] = n
  BY <1>1
<1>3. Copies(bank, held, bank)
  BY <1>2 DEF Copies
<1>4. RowsHeld(bank, b, bank, held)
  <2> SUFFICES ASSUME NEW e \in SqlRows(bank, b), NEW t \in WalkedTo(b), e[t] # 0
               PROVE  \E n \in DOMAIN bank[t] : held[t][n] = e[t]
    BY DEF RowsHeld
  <2>1. t \in Tables
    BY WalkedToTables DEF Ready
  <2>2. e \in JoinedRows(bank, b)
    BY DEF SqlRows, Kept
  <2>3. e[t] \in DOMAIN bank[t]
    BY <2>1, <2>2, JoinedIs DEF Ready
  <2> QED
    BY <1>2, <2>1, <2>3
<1> QED
  BY <1>3, <1>4, CopiesAnswer

-----------------------------------------------------------------------------
(* What the reads of a template fetch, hop by hop *)

\* What a template is made of.
ReadsOn(a) ==
  {S \in SUBSET [rel : Points, inward : BOOLEAN, hop : 1 .. MemoryHops] : \A x \in S : x.hop = 1 => x \in Touching(a)}

LEMMA OnwardIs ==
  ASSUME NEW a, NEW S \in ReadsOn(a), NEW h \in 2 .. MemoryHops
  PROVE  Onward(S, h) \in ReadsOn(a)
<1> DEFINE more == {Read(r, FALSE, h) : r \in {p \in Points \ {x.rel : x \in S} :
                      p.start \in {Of(x) : x \in {y \in S : y.hop = h - 1}}}}
<1>1. Onward(S, h) = S \cup more
  BY DEF Onward
<1>2. ASSUME NEW x \in more PROVE x \in [rel : Points, inward : BOOLEAN, hop : 1 .. MemoryHops] /\ x.hop # 1
  <2>1. PICK r \in Points : x = Read(r, FALSE, h)
    OBVIOUS
  <2>2. h \in 1 .. MemoryHops /\ h # 1
    BY RecallAssumption
  <2> QED
    BY <2>1, <2>2 DEF Read
<1> HIDE DEF more
<1> QED
  BY <1>1, <1>2 DEF ReadsOn

LEMMA TemplateIs ==
  ASSUME NEW a
  PROVE  Template(a) \in ReadsOn(a)
<1> DEFINE n == MemoryHops - 1
           hops == [h \in 1 .. n |-> h + 1]
           base == Touching(a)
           A == ReadsOn(a)
           Is(h) == h = [T \in SUBSET (1 .. n) |->
                      IF T = {} THEN base ELSE Onward(h[T \ {Max(T)}], hops[Max(T)])]
           F == [x \in A \X (1 .. n) |-> Onward(x[1], hops[x[2]])]
<1>1. n \in Nat /\ DOMAIN hops = 1 .. n /\ Numbers(1 .. n) /\ IsFiniteSet(1 .. n)
  <2>1. n \in Nat
    BY RecallAssumption
  <2> QED
    BY <2>1, Interval
<1>2. Template(a) = (CHOOSE h : Is(h))[1 .. n]
  <2>1. Template(a) = (CHOOSE h : h = [T \in SUBSET (DOMAIN hops) |->
                      IF T = {} THEN base ELSE Onward(h[T \ {Max(T)}], hops[Max(T)])])[DOMAIN hops]
    BY Zenon DEF Template, FoldLeft, MapThenFoldSet
  <2> HIDE DEF n, hops, base
  <2> QED
    BY <1>1, <2>1, Zenon
<1>3. base \in A
  <2>1. \A r \in Points : Read(r, r.start # a, 1) \in [rel : Points, inward : BOOLEAN, hop : 1 .. MemoryHops]
    BY RecallAssumption DEF Read
  <2>2. base \in SUBSET [rel : Points, inward : BOOLEAN, hop : 1 .. MemoryHops]
    BY <2>1 DEF Touching
  <2> QED
    BY <2>2 DEF ReadsOn
<1>4. F \in [A \X (1 .. n) -> A]
  <2>1. \A i \in 1 .. n : hops[i] \in 2 .. MemoryHops
    BY RecallAssumption
  <2> HIDE DEF hops, A
  <2>2. \A S \in A, i \in 1 .. n : Onward(S, hops[i]) \in A
    BY <2>1, OnwardIs DEF A
  <2> QED
    BY <2>2
<1>5. PICK h0 : FoldIs(h0, F, base, 1 .. n, A)
  <2> DEFINE N == 1 .. n
  <2> HIDE DEF F, A, N, base
  <2>1. \E h0 : FoldIs(h0, F, base, N, A)
    BY <1>1, <1>3, <1>4, FoldIn DEF N
  <2> QED
    BY <2>1 DEF N
<1> HIDE DEF hops, base, A, n
<1>6. Is(h0)
  <2>1. ASSUME NEW T \in SUBSET (1 .. n), T # {} PROVE h0[T] = Onward(h0[T \ {Max(T)}], hops[Max(T)])
    BY <1>5, <2>1 DEF FoldIs
  <2>2. h0[{}] = base
    BY <1>5 DEF FoldIs
  <2>3. \A T \in SUBSET (1 .. n) : h0[T] = IF T = {} THEN base ELSE Onward(h0[T \ {Max(T)}], hops[Max(T)])
    BY <2>1, <2>2
  <2>4. h0 = [T \in SUBSET (1 .. n) |-> h0[T]]
    BY <1>5 DEF FoldIs
  <2> QED
    BY <2>3, <2>4, Zenon
<1>7. PICK h : h = CHOOSE f : Is(f)
  OBVIOUS
<1>8. Is(h)
  BY <1>6, <1>7, Zenon
<1>9. PICK g : FoldPrefixes(n, h, g) /\ g = [k \in 0 .. n |-> h[1 .. k]]
  BY <1>1, PrefixSteps, Zenon
<1>10. /\ g[0] = h[{}] /\ g[n] = h[1 .. n]
       /\ \A k \in 1 .. n : /\ g[k] = h[1 .. k] /\ g[k - 1] = h[(1 .. k) \ {Max(1 .. k)}]
                            /\ Max(1 .. k) = k /\ 1 .. k # {} /\ 1 .. k \in SUBSET (1 .. n)
  BY <1>9, Zenon DEF FoldPrefixes
<1>11. g[0] = base
  BY <1>8, <1>10, Zenon
<1>12. ASSUME NEW k \in 1 .. n PROVE g[k] = Onward(g[k - 1], hops[k])
  <2>1. h[1 .. k] = Onward(h[(1 .. k) \ {Max(1 .. k)}], hops[Max(1 .. k)])
    BY <1>8, <1>10, Zenon
  <2> QED
    BY <1>10, <2>1, Zenon
<1>13. \A k \in 0 .. n : g[k] \in A
  <2> SUFFICES ASSUME NEW k \in {i \in 0 .. n : g[i] \notin A}, \A i \in {j \in 0 .. n : g[j] \notin A} : k <= i PROVE FALSE
    <3>1. {i \in 0 .. n : g[i] \notin A} \in SUBSET Nat
      OBVIOUS
    <3> QED
      BY <3>1, LeastNumber
  <2>1. k # 0
    BY <1>3, <1>11
  <2>2. k \in 1 .. n /\ k - 1 \in 0 .. n /\ ~ (k <= k - 1)
    BY <1>1, <2>1
  <2>3. g[k - 1] \in A
    BY <2>2
  <2>4. g[k] = F[<<g[k - 1], k>>]
    BY <1>12, <2>2, <2>3
  <2> HIDE DEF F
  <2>5. F[<<g[k - 1], k>>] \in A
    BY <1>4, <2>2, <2>3
  <2> QED
    BY <2>4, <2>5
<1>14. Template(a) = g[n]
  BY <1>2, <1>7, <1>10, Zenon
<1> HIDE DEF F
<1> QED
  BY <1>1, <1>13, <1>14 DEF A

\* A context's rows after each hop.
Itself(bank, a, key) == {i \in DOMAIN bank[a] : bank[a][i][Key[a]] = key}
Starting(bank, a, key) == [t \in Tables |-> IF t = a THEN Itself(bank, a, key) ELSE {}]
Fetched(g, bank, a, key) ==
  /\ g[0] = Starting(bank, a, key)
  /\ \A k \in 1 .. MemoryHops : g[k] = Hop(bank, Template(a), g[k - 1], k)
  /\ Context(bank, a, key).rows = g[MemoryHops]

LEMMA ContextFetched ==
  ASSUME NEW bank \in Warehouses, NEW a, NEW key
  PROVE  /\ \E g : Fetched(g, bank, a, key)
         /\ Context(bank, a, key).table = a /\ Context(bank, a, key).key = key
         /\ \A x \in Template(a) : x.inward /\ x.rel \notin Context(bank, a, key).capped =>
              ~ (Cardinality(Sought(bank, x, Itself(bank, a, key))) > Cap)
<1> DEFINE reads == Template(a)
           start == Starting(bank, a, key)
           hops == [h \in 1 .. MemoryHops |-> h]
           itself == Itself(bank, a, key)
           capped == {x.rel : x \in {y \in reads : y.inward /\ Cardinality(Sought(bank, y, itself)) > Cap}}
<1>1. Context(bank, a, key) = [table |-> a, key |-> key, rows |-> RowsAfter(bank, reads, start, hops), capped |-> capped]
  BY Zenon DEF Context, RowsAfter, Starting, Itself
<1>2. start \in Fetchable(bank)
  <2>1. \A t \in Tables : DOMAIN bank[t] \subseteq Nat
    BY DEF Warehouses
  <2>2. \A t \in Tables : start[t] \subseteq DOMAIN bank[t]
    BY DEF Starting, Itself
  <2>3. start = [t \in Tables |-> start[t]]
    BY DEF Starting
  <2> HIDE DEF start
  <2> QED
    BY <2>1, <2>2, <2>3 DEF Fetchable
<1>3. hops \in Seq(Nat) /\ Len(hops) = MemoryHops /\ \A k \in 1 .. MemoryHops : hops[k] = k
  <2>1. MemoryHops \in Nat /\ hops \in [1 .. MemoryHops -> Nat] /\ \A k \in 1 .. MemoryHops : hops[k] = k
    BY RecallAssumption
  <2>2. DOMAIN hops = 1 .. MemoryHops
    OBVIOUS
  <2> HIDE DEF hops
  <2>3. hops \in Seq(Nat)
    BY <2>1, BySeq
  <2> QED
    BY <2>1, <2>2, <2>3
<1> HIDE DEF reads, start, hops
<1>4. PICK g : Hopped(g, bank, reads, start, hops)
  BY <1>2, <1>3, HopsFold
<1>5. /\ g[0] = start
      /\ \A k \in 1 .. MemoryHops : g[k] = Hop(bank, reads, g[k - 1], k)
      /\ RowsAfter(bank, reads, start, hops) = g[MemoryHops]
  BY <1>3, <1>4 DEF Hopped
<1> HIDE DEF capped, itself
<1>6. /\ Context(bank, a, key).rows = RowsAfter(bank, reads, start, hops) /\ Context(bank, a, key).table = a
      /\ Context(bank, a, key).key = key /\ Context(bank, a, key).capped = capped
  BY <1>1
<1>7. Fetched(g, bank, a, key)
  BY <1>5, <1>6 DEF Fetched, reads, start
<1>8. \A x \in reads : x.inward /\ x.rel \notin capped => ~ (Cardinality(Sought(bank, x, itself)) > Cap)
  BY DEF capped
<1> QED
  BY <1>6, <1>7, <1>8 DEF reads, itself

LEMMA HopAdds ==
  ASSUME NEW bank, NEW a, NEW key, NEW g, Fetched(g, bank, a, key), NEW k \in 1 .. MemoryHops, NEW t \in Tables
  PROVE  \A i : i \in g[k][t] <=> \/ i \in g[k - 1][t]
                                  \/ \E x \in Template(a) : x.hop = k /\ Of(x) = t /\ i \in Got(bank, x, g[k - 1][Via(x)])
<1>1. g[k] = Hop(bank, Template(a), g[k - 1], k)
  BY DEF Fetched
<1>2. g[k][t] = g[k - 1][t] \cup UNION {Got(bank, x, g[k - 1][Via(x)]) : x \in {y \in Template(a) : y.hop = k /\ Of(y) = t}}
  BY <1>1 DEF Hop
<1> QED
  BY <1>2

LEMMA FetchedMore ==
  ASSUME NEW bank, NEW a, NEW key, NEW g, Fetched(g, bank, a, key), NEW t \in Tables,
         NEW j \in 0 .. MemoryHops
  PROVE  \A k \in j .. MemoryHops : g[j][t] \subseteq g[k][t]
<1>0. MemoryHops \in Nat
  BY RecallAssumption
<1> DEFINE N == {k \in j .. MemoryHops : ~ (g[j][t] \subseteq g[k][t])}
<1>1. N = {}
  <2> SUFFICES ASSUME N # {} PROVE FALSE
    OBVIOUS
  <2>1. PICK k \in N : \A l \in N : k <= l
    <3>1. N \in SUBSET Nat
      BY <1>0
    <3> HIDE DEF N
    <3> QED
      BY <3>1, LeastNumber
  <2>2. k # j /\ k \in Nat
    BY <1>0
  <2>3. k - 1 \in j .. MemoryHops /\ ~ (k <= k - 1) /\ k \in 1 .. MemoryHops
    BY <1>0, <2>2
  <2>4. g[j][t] \subseteq g[k - 1][t]
    BY <2>1, <2>3
  <2>5. g[k - 1][t] \subseteq g[k][t]
    BY <2>3, HopAdds
  <2> QED
    BY <2>4, <2>5
<1> QED
  BY <1>1

\* A table that no read is of any more has its rows.
LEMMA FetchedLast ==
  ASSUME NEW bank, NEW a, NEW key, NEW g, Fetched(g, bank, a, key), NEW t \in Tables,
         NEW m \in 1 .. MemoryHops, \A y \in Template(a) : Of(y) = t => y.hop < m
  PROVE  g[MemoryHops][t] = g[m - 1][t]
<1>0. MemoryHops \in Nat /\ m \in Nat /\ m - 1 \in Nat
  BY RecallAssumption
<1> DEFINE N == {k \in m - 1 .. MemoryHops : g[k][t] # g[m - 1][t]}
<1>1. N = {}
  <2> SUFFICES ASSUME N # {} PROVE FALSE
    OBVIOUS
  <2>1. PICK k \in N : \A l \in N : k <= l
    <3>1. N \in SUBSET Nat
      BY <1>0
    <3> HIDE DEF N
    <3> QED
      BY <3>1, LeastNumber
  <2>2. k # m - 1 /\ k \in Nat
    BY <1>0
  <2>3. k - 1 \in m - 1 .. MemoryHops /\ ~ (k <= k - 1) /\ k \in 1 .. MemoryHops /\ ~ (k < m)
    BY <1>0, <2>2
  <2>4. g[k - 1][t] = g[m - 1][t]
    BY <2>1, <2>3
  <2>5. \A i : i \in g[k][t] <=> i \in g[k - 1][t]
    BY <2>3, HopAdds
  <2>6. g[k][t] = g[k - 1][t] \cup g[k][t]
    <3>1. g[k] = Hop(bank, Template(a), g[k - 1], k)
      BY <2>3 DEF Fetched
    <3> QED
      BY <3>1 DEF Hop
  <2> QED
    BY <2>4, <2>5, <2>6
<1>2. MemoryHops \in m - 1 .. MemoryHops
  BY <1>0
<1> QED
  BY <1>1, <1>2

\* An anchor that isn't there has nothing.
LEMMA FetchedNone ==
  ASSUME NEW bank, NEW a, NEW key, NEW g, Fetched(g, bank, a, key), Itself(bank, a, key) = {}
  PROVE  \A t \in Tables : g[MemoryHops][t] = {}
<1>0. MemoryHops \in Nat
  BY RecallAssumption
<1> DEFINE N == {k \in 0 .. MemoryHops : \E t \in Tables : g[k][t] # {}}
<1>1. N = {}
  <2> SUFFICES ASSUME N # {} PROVE FALSE
    OBVIOUS
  <2>1. PICK k \in N : \A l \in N : k <= l
    <3>1. N \in SUBSET Nat
      BY <1>0
    <3> HIDE DEF N
    <3> QED
      BY <3>1, LeastNumber
  <2>2. k # 0
    BY DEF Fetched, Starting
  <2>3. k - 1 \in 0 .. MemoryHops /\ ~ (k <= k - 1) /\ k \in 1 .. MemoryHops
    BY <1>0, <2>2
  <2>4. \A t \in Tables : g[k - 1][t] = {}
    BY <2>1, <2>3
  <2>5. PICK t \in Tables : g[k][t] # {}
    OBVIOUS
  <2>6. g[k][t] = g[k - 1][t] \cup UNION {Got(bank, x, g[k - 1][Via(x)]) : x \in {y \in Template(a) : y.hop = k /\ Of(y) = t}}
    <3>1. g[k] = Hop(bank, Template(a), g[k - 1], k)
      BY <2>3 DEF Fetched
    <3> QED
      BY <3>1 DEF Hop
  <2>7. PICK x \in Template(a) : Got(bank, x, g[k - 1][Via(x)]) # {}
    BY <2>4, <2>5, <2>6
  <2>8. Via(x) \in Tables
    <3>1. x.rel \in Points
      BY TemplateIs DEF ReadsOn
    <3> QED
      BY <3>1, RecallAssumption DEF Via
  <2>9. Got(bank, x, {}) # {}
    BY <2>4, <2>7, <2>8
  <2>10. Sought(bank, x, {}) = {}
    BY DEF Sought
  <2> QED
    BY <2>9, <2>10 DEF Got
<1>2. MemoryHops \in 0 .. MemoryHops
  BY <1>0
<1> QED
  BY <1>1, <1>2

-----------------------------------------------------------------------------
(* What is covered is held *)

\* What Covered starts from, and a step of it.
Reading(a, r, t) == \E x \in Template(a) : x.rel = r /\ Via(x) = t
PointsBy(t, col, u) == {p \in Points : p.start = t /\ p.col = col /\ p.end = u}
NamedBy(b, a) ==
  {IF n.by = Nil THEN a ELSE n.by.start : n \in {m \in Namings(b) : m.by = Nil \/ Read(m.by, TRUE, 1) \in Template(a)}}
CoverOne(a, ts, s) ==
  IF \/ s.from \in ts /\ \E r \in PointsBy(s.from, s.mine, s.to) : Reading(a, r, s.from) \/ (s.to = a /\ Reading(a, r, a))
  THEN ts \cup {s.to}
  ELSE IF s.to \in ts /\ \E r \in PointsBy(s.to, s.theirs, s.from) : Reading(a, r, s.to) THEN ts \cup {s.from}
  ELSE ts

LEMMA CoveredFold ==
  ASSUME NEW b, b.joins \in Seq(Steps), NEW a, NamedBy(b, a) \in SUBSET Tables
  PROVE  \E g : /\ g[0] = NamedBy(b, a)
                /\ \A k \in 1 .. Len(b.joins) : g[k] = CoverOne(a, g[k - 1], b.joins[k])
                /\ Covered(b, a) = g[Len(b.joins)]
<1> DEFINE n == Len(b.joins)
           base == NamedBy(b, a)
           Is(h) == h = [T \in SUBSET (1 .. n) |->
                      IF T = {} THEN base ELSE CoverOne(a, h[T \ {Max(T)}], b.joins[Max(T)])]
           A == SUBSET Tables
           F == [x \in A \X (1 .. n) |-> CoverOne(a, x[1], b.joins[x[2]])]
<1>1. n \in Nat /\ DOMAIN b.joins = 1 .. n /\ Numbers(1 .. n) /\ IsFiniteSet(1 .. n)
  BY Interval
<1>2. Covered(b, a) = (CHOOSE h : Is(h))[1 .. n]
  <2> HIDE DEF n
  <2>1. Covered(b, a) = (CHOOSE h : h = [T \in SUBSET (DOMAIN b.joins) |->
                      IF T = {} THEN base ELSE CoverOne(a, h[T \ {Max(T)}], b.joins[Max(T)])])[DOMAIN b.joins]
    BY Zenon DEF Covered, CoverOne, NamedBy, Reading, PointsBy, FoldLeft, MapThenFoldSet
  <2> HIDE DEF base
  <2> QED
    BY <1>1, <2>1, Zenon
<1>3. F \in [A \X (1 .. n) -> A] /\ base \in A
  <2>1. \A s \in Steps : s.to \in Tables /\ s.from \in Tables
    BY CatalogueAssumption DEF Steps
  <2>2. \A i \in 1 .. n : b.joins[i] \in Steps
    BY <1>1
  <2>3. \A ts \in A, s \in Steps : CoverOne(a, ts, s) \in A
    BY <2>1 DEF CoverOne
  <2> QED
    BY <2>2, <2>3
<1>4. PICK h0 : FoldIs(h0, F, base, 1 .. n, A)
  <2> DEFINE N == 1 .. n
  <2> HIDE DEF F, A, N, base
  <2>1. \E h0 : FoldIs(h0, F, base, N, A)
    BY <1>1, <1>3, FoldIn DEF N
  <2> QED
    BY <2>1 DEF N
<1> HIDE DEF base
<1>5. Is(h0)
  <2>1. ASSUME NEW T \in SUBSET (1 .. n), T # {} PROVE h0[T] = CoverOne(a, h0[T \ {Max(T)}], b.joins[Max(T)])
    BY <1>4, <2>1 DEF FoldIs
  <2>2. h0[{}] = base
    BY <1>4 DEF FoldIs
  <2>3. \A T \in SUBSET (1 .. n) : h0[T] = IF T = {} THEN base ELSE CoverOne(a, h0[T \ {Max(T)}], b.joins[Max(T)])
    BY <2>1, <2>2
  <2>4. h0 = [T \in SUBSET (1 .. n) |-> h0[T]]
    BY <1>4 DEF FoldIs
  <2> QED
    BY <2>3, <2>4, Zenon
<1>6. PICK h : h = CHOOSE f : Is(f)
  OBVIOUS
<1>7. Is(h)
  BY <1>5, <1>6, Zenon
<1>8. PICK g : FoldPrefixes(n, h, g)
  <2>1. \E g : FoldPrefixes(n, h, g) /\ g = [k \in 0 .. n |-> h[1 .. k]]
    BY <1>1, PrefixSteps, Zenon
  <2> QED
    BY <2>1, Zenon
<1>9. /\ g[0] = h[{}] /\ g[n] = h[1 .. n]
      /\ \A k \in 1 .. n : /\ g[k] = h[1 .. k] /\ g[k - 1] = h[(1 .. k) \ {Max(1 .. k)}]
                           /\ Max(1 .. k) = k /\ 1 .. k # {} /\ 1 .. k \in SUBSET (1 .. n)
  BY <1>8, Zenon DEF FoldPrefixes
<1>10. g[0] = base
  BY <1>7, <1>9, Zenon
<1>11. ASSUME NEW k \in 1 .. n PROVE g[k] = CoverOne(a, g[k - 1], b.joins[k])
  <2>1. h[1 .. k] = CoverOne(a, h[(1 .. k) \ {Max(1 .. k)}], b.joins[Max(1 .. k)])
    BY <1>7, <1>9, Zenon
  <2> QED
    BY <1>9, <2>1, Zenon
<1>12. Covered(b, a) = g[n]
  BY <1>2, <1>6, <1>9, Zenon
<1> QED
  BY <1>10, <1>11, <1>12 DEF base

\* What a naming is of.
LEMMA NamingIs ==
  ASSUME NEW b, Reads(b) \subseteq Refs, NEW n \in Namings(b)
  PROVE  \E c \in b.where :
           /\ c.op = "=" /\ c.other = Nil /\ c.value = n.key /\ RefOf(c) \in Refs /\ RefOf(c) = <<c.table, c.col>>
           /\ \/ n.by = Nil /\ n.table = c.table /\ c.col = Key[c.table]
              \/ n.by \in Points /\ n.by # Nil /\ n.by.start = c.table /\ n.by.col = c.col /\ n.table = n.by.end
<1>1. PICK c \in b.where : n \in Naming(c)
  BY DEF Namings
<1>2. c.op = "=" /\ c.other = Nil
  BY <1>1 DEF Naming
<1>3. RefOf(c) \in Refs /\ RefOf(c) = <<c.table, c.col>>
  <2>1. RefOf(c) \in Reads(b)
    BY ReadsIs DEF ReadsOf
  <2> QED
    BY <2>1 DEF RefOf
<1>4. CASE c.col = Key[c.table]
  <2>1. n = [table |-> c.table, key |-> c.value, by |-> Nil]
    BY <1>1, <1>2, <1>4 DEF Naming
  <2> QED
    BY <1>2, <1>3, <1>4, <2>1
<1>5. CASE c.col # Key[c.table]
  <2>1. PICK r \in Points : r.start = c.table /\ r.col = c.col /\ n = [table |-> r.end, key |-> c.value, by |-> r]
    BY <1>1, <1>2, <1>5 DEF Naming
  <2>2. r # Nil
    BY RecallAssumption
  <2> QED
    BY <1>2, <1>3, <2>1, <2>2
<1> QED
  BY <1>4, <1>5

\* What answerable and the properties' conditions say of a block and a context.
Whole(b, bank, a, key) ==
  /\ Entities(b) = {<<a, key>>}
  /\ \A n \in Namings(b) : n.by # Nil => n.by \notin Context(bank, a, key).capped /\ StartsInside(b, n.by)
  /\ TablesIn(b) \subseteq Covered(b, a)
  /\ Itself(bank, a, key) # {}
  /\ ByKey(b) /\ \A c \in b.where : c.op # "IS NULL" /\ c.other = Nil => c.value \in Nat
  /\ \A s \in Walked(b) : \A x \in Template(a) :
       x.rel.start = s.from /\ x.rel.col = s.mine /\ x.rel.end = s.to =>
         IF x.inward THEN \E n \in Namings(b) : n.by = x.rel ELSE \A y \in Template(a) : Of(y) = s.from => y.hop < x.hop

LEMMA WholeNames ==
  ASSUME NEW b, NEW bank, NEW a, NEW key, Whole(b, bank, a, key), Reads(b) \subseteq Refs
  PROVE  /\ a \in Tables /\ \A n \in Namings(b) : n.table = a /\ n.key = key
         /\ NamedBy(b, a) \in SUBSET Tables
<1>1. \A n \in Namings(b) : n.table = a /\ n.key = key
  <2> SUFFICES ASSUME NEW n \in Namings(b) PROVE n.table = a /\ n.key = key
    OBVIOUS
  <2>1. <<n.table, n.key>> \in Entities(b)
    BY DEF Entities
  <2>2. <<n.table, n.key>> = <<a, key>>
    BY <2>1 DEF Whole
  <2> QED
    BY <2>2
<1>2. \A n \in Namings(b) : n.table \in Tables /\ (n.by # Nil => n.by.start \in Tables)
  <2> SUFFICES ASSUME NEW n \in Namings(b) PROVE n.table \in Tables /\ (n.by # Nil => n.by.start \in Tables)
    OBVIOUS
  <2>1. PICK c \in b.where :
           /\ RefOf(c) \in Refs /\ RefOf(c) = <<c.table, c.col>>
           /\ \/ n.by = Nil /\ n.table = c.table
              \/ n.by \in Points /\ n.by # Nil /\ n.table = n.by.end
    BY NamingIs
  <2>2. c.table \in Tables
    BY <2>1 DEF Refs
  <2> QED
    BY <2>1, <2>2, RecallAssumption
<1>3. a \in Tables
  <2>1. <<a, key>> \in Entities(b)
    BY DEF Whole
  <2>2. PICK n \in Namings(b) : TRUE
    BY <2>1 DEF Entities
  <2> QED
    BY <1>1, <1>2, <2>2
<1>4. NamedBy(b, a) \in SUBSET Tables
  BY <1>2, <1>3 DEF NamedBy
<1> QED
  BY <1>1, <1>3, <1>4

\* What a kept row has where a condition names a value.
LEMMA SqlRowHolds ==
  ASSUME NEW bank \in Warehouses, NEW b, Ordered(b), NEW e \in SqlRows(bank, b)
  PROVE  /\ e \in JoinedRows(bank, b) /\ e \in [Tables -> Nat]
         /\ \A t \in Tables : e[t] = 0 \/ e[t] \in DOMAIN bank[t]
         /\ \A c \in b.where : Holds(c, [r \in Refs |-> Value(bank, e, r)])
<1>1. e \in JoinedRows(bank, b) /\ \A c \in b.where : Holds(c, ReadOf(bank, JoinedRows(bank, b))[e])
  BY DEF SqlRows, Kept
<1>2. ReadOf(bank, JoinedRows(bank, b))[e] = [r \in Refs |-> Value(bank, e, r)]
  BY <1>1 DEF ReadOf
<1> QED
  BY <1>1, <1>2, JoinedIs

LEMMA NamedValue ==
  ASSUME NEW bank, NEW e, NEW c, c.op = "=", c.other = Nil, RefOf(c) \in Refs, RefOf(c) = <<c.table, c.col>>,
         Holds(c, [r \in Refs |-> Value(bank, e, r)])
  PROVE  e[c.table] # 0 /\ bank[c.table][e[c.table]][c.col] = c.value /\ c.value # Nil
<1> DEFINE row == [r \in Refs |-> Value(bank, e, r)]
<1>1. row[RefOf(c)] = Value(bank, e, <<c.table, c.col>>)
  OBVIOUS
<1> HIDE DEF row
<1>2. row[RefOf(c)] = c.value /\ row[RefOf(c)] # Nil
  BY DEF Holds, row
<1> QED
  BY <1>1, <1>2 DEF Value

LEMMA NotLess ==
  ASSUME NEW x \in Nat, NEW y \in Nat, NEW z \in Nat, x >= y, y >= z
  PROVE  x >= z
  OBVIOUS

LEMMA InsideWindow ==
  ASSUME NEW bank \in Warehouses, NEW b, Ordered(b), NEW e \in SqlRows(bank, b), NEW r \in Points, StartsInside(b, r),
         \A c \in b.where : c.op # "IS NULL" /\ c.other = Nil => c.value \in Nat,
         e[r.start] \in DOMAIN bank[r.start]
  PROVE  InWindow(bank, r.start, e[r.start])
<1>0. r.start \in Tables /\ Since \in Nat
  BY RecallAssumption
<1>1. CASE Partition[r.start] = Nil
  BY <1>1 DEF InWindow
<1>2. CASE Partition[r.start] # Nil
  <2>1. PICK c \in b.where : RefOf(c) = <<r.start, Partition[r.start]>> /\ c.op = ">=" /\ c.other = Nil /\ c.value >= Since
    BY <1>2 DEF StartsInside
  <2>2. <<r.start, Partition[r.start]>> \in Refs
    BY <1>0, <1>2, RecallAssumption DEF Refs
  <2> DEFINE row == [q \in Refs |-> Value(bank, e, q)]
  <2>3. Holds(c, row)
    BY SqlRowHolds
  <2>4. row[RefOf(c)] = Value(bank, e, <<r.start, Partition[r.start]>>)
    BY <2>1, <2>2
  <2> HIDE DEF row
  <2>5. row[RefOf(c)] # Nil /\ row[RefOf(c)] >= c.value /\ c.value \in Nat
    BY <2>1, <2>3 DEF Holds
  <2>6. row[RefOf(c)] = bank[r.start][e[r.start]][Partition[r.start]]
    BY <2>4, <2>5 DEF Value
  <2>7. row[RefOf(c)] \in Nat
    <3>1. PICK q \in Refs : q = <<r.start, Partition[r.start]>>
      BY <2>2
    <3>2. q[1] = r.start
      BY <3>1
    <3>3. Value(bank, e, q) \in Nat \cup {Nil}
      BY <3>2, ValueNumber
    <3> QED
      BY <2>4, <2>5, <3>1, <3>3
  <2>8. row[RefOf(c)] >= Since
    <3>1. PICK v \in Nat : v = row[RefOf(c)]
      BY <2>7
    <3>2. PICK w \in Nat : w = c.value
      BY <2>5
    <3>3. v >= w /\ w >= Since
      BY <2>1, <2>5, <3>1, <3>2
    <3>4. v >= Since
      BY <1>0, <3>3, NotLess
    <3> QED
      BY <3>1, <3>4
  <2> QED
    BY <2>5, <2>6, <2>8 DEF InWindow
<1> QED
  BY <1>1, <1>2

\* A read of no more rows than the cap has them all.
LEMMA GotAll ==
  ASSUME NEW bank \in Warehouses, NEW x, Of(x) \in Tables, NEW keyed,
         ~ (Cardinality(Sought(bank, x, keyed)) > Cap)
  PROVE  Got(bank, x, keyed) = Sought(bank, x, keyed)
<1>1. PICK rows : rows = Sought(bank, x, keyed)
  OBVIOUS
<1>2. IsFiniteSet(rows)
  <2>1. rows \in SUBSET DOMAIN bank[Of(x)]
    BY <1>1 DEF Sought, Of
  <2>2. DOMAIN bank[Of(x)] = 1 .. Len(bank[Of(x)]) /\ Len(bank[Of(x)]) \in Nat
    BY DEF Warehouses
  <2>3. IsFiniteSet(1 .. Len(bank[Of(x)]))
    BY <2>2, FS_Interval
  <2> QED
    BY <2>1, <2>2, <2>3, FS_Subset
<1>3. ASSUME NEW i \in rows PROVE Cardinality({k \in rows \ {i} : Recent(bank, Of(x), k, i)}) < Cap
  <2>1. PICK before : before = {k \in rows \ {i} : Recent(bank, Of(x), k, i)}
    OBVIOUS
  <2>2. before \in SUBSET (rows \ {i})
    BY <2>1
  <2>3. IsFiniteSet(rows \ {i}) /\ Cardinality(rows \ {i}) = Cardinality(rows) - 1
    BY <1>2, FS_RemoveElement
  <2>4. Cardinality(before) <= Cardinality(rows \ {i}) /\ IsFiniteSet(before)
    BY <2>2, <2>3, FS_Subset
  <2>5. Cardinality(rows) \in Nat /\ Cardinality(before) \in Nat /\ Cardinality(rows \ {i}) \in Nat
    BY <1>2, <2>3, <2>4, FS_CardinalityType
  <2>6. Cap \in Nat /\ ~ (Cardinality(rows) > Cap)
    BY <1>1, RecallAssumption
  <2>7. Cardinality(before) < Cap
    BY <2>3, <2>4, <2>5, <2>6
  <2> QED
    BY <2>1, <2>7
<1>4. Got(bank, x, keyed) = IF x.inward THEN {i \in rows : Cardinality({k \in rows \ {i} : Recent(bank, Of(x), k, i)}) < Cap} ELSE rows
  BY <1>1 DEF Got
<1> QED
  BY <1>1, <1>3, <1>4

\* A row the SQL aggregates, over what a context that holds the whole of it fetched.
Asked(b, bank, a, key, g, e) ==
  /\ Ready(b) /\ Settled(b) /\ Whole(b, bank, a, key) /\ Fetched(g, bank, a, key) /\ e \in SqlRows(bank, b)

LEMMA AskedIs ==
  ASSUME NEW bank \in Warehouses, NEW b, NEW a, NEW key, NEW g, NEW e, Asked(b, bank, a, key, g, e)
  PROVE  /\ Ordered(b) /\ Reads(b) \subseteq Refs /\ a \in Tables
         /\ e \in [Tables -> Nat] /\ e \in JoinedRows(bank, b)
         /\ \A t \in Tables : e[t] = 0 \/ e[t] \in DOMAIN bank[t]
         /\ g[0][a] = Itself(bank, a, key)
         /\ \A t \in Tables : \A j \in 0 .. MemoryHops : \A k \in j .. MemoryHops : g[j][t] \subseteq g[k][t]
<1>1. Ordered(b) /\ Reads(b) \subseteq Refs
  BY DEF Asked, Ready
<1>2. a \in Tables
  BY <1>1, WholeNames DEF Asked
<1>3. g[0][a] = Itself(bank, a, key)
  BY <1>2 DEF Asked, Fetched, Starting
<1>4. \A t \in Tables : \A j \in 0 .. MemoryHops : \A k \in j .. MemoryHops : g[j][t] \subseteq g[k][t]
  BY FetchedMore DEF Asked
<1> QED
  BY <1>1, <1>2, <1>3, <1>4, SqlRowHolds DEF Asked

\* What it names is fetched at once: the anchor, and by the first hop a fact.
LEMMA NamedHeld ==
  ASSUME NEW bank \in Warehouses, NEW b, NEW a, NEW key, NEW g, NEW e, Asked(b, bank, a, key, g, e), NEW t \in NamedBy(b, a)
  PROVE  t \in Tables /\ e[t] # 0 /\ e[t] \in g[1][t] /\ (t = a => e[t] \in g[0][t])
<1>0. /\ Ordered(b) /\ Reads(b) \subseteq Refs /\ a \in Tables
      /\ \A u \in Tables : e[u] = 0 \/ e[u] \in DOMAIN bank[u]
      /\ g[0][a] = Itself(bank, a, key)
  BY AskedIs
<1>1. Whole(b, bank, a, key) /\ Fetched(g, bank, a, key) /\ e \in SqlRows(bank, b)
  BY DEF Asked
<1>2. PICK n \in Namings(b) : /\ n.by = Nil \/ Read(n.by, TRUE, 1) \in Template(a)
                              /\ t = IF n.by = Nil THEN a ELSE n.by.start
  BY DEF NamedBy
<1>3. PICK c \in b.where :
        /\ c.op = "=" /\ c.other = Nil /\ c.value = n.key /\ RefOf(c) \in Refs /\ RefOf(c) = <<c.table, c.col>>
        /\ \/ n.by = Nil /\ n.table = c.table /\ c.col = Key[c.table]
           \/ n.by \in Points /\ n.by # Nil /\ n.by.start = c.table /\ n.by.col = c.col /\ n.table = n.by.end
  BY <1>0, NamingIs
<1>4. n.table = a /\ n.key = key /\ t \in Tables
  BY <1>0, <1>1, WholeNames
<1>5. e[c.table] # 0 /\ bank[c.table][e[c.table]][c.col] = key
  <2>1. Holds(c, [r \in Refs |-> Value(bank, e, r)])
    BY <1>0, <1>1, SqlRowHolds
  <2> QED
    BY <1>3, <1>4, <2>1, NamedValue
<1>6. 1 \in 1 .. MemoryHops /\ MemoryHops \in Nat
  BY RecallAssumption
<1>7. CASE n.by = Nil
  <2>1. t = a /\ c.table = a /\ c.col = Key[a]
    BY <1>2, <1>3, <1>4, <1>7
  <2>2. e[a] \in Itself(bank, a, key)
    BY <1>0, <1>5, <2>1 DEF Itself
  <2>3. e[a] \in g[1][a]
    BY <1>0, <1>1, <1>6, <2>2, HopAdds
  <2> QED
    BY <1>0, <1>4, <1>5, <2>1, <2>2, <2>3
<1>8. CASE n.by # Nil
  <2>1. PICK r \in Points : r = n.by
    BY <1>3, <1>8
  <2>2. PICK x \in Template(a) : x = Read(r, TRUE, 1)
    BY <1>2, <1>8, <2>1
  <2>3. x.rel = r /\ x.inward = TRUE /\ x.hop = 1 /\ Of(x) = r.start /\ Via(x) = r.end
    BY <2>2 DEF Read, Of, Via
  <2>4. t = r.start /\ r.start = c.table /\ r.col = c.col /\ r.end = a
    BY <1>2, <1>3, <1>4, <1>8, <2>1
  <2>5. t # a
    <3>1. x \in Touching(a)
      BY <2>3, TemplateIs DEF ReadsOn
    <3>2. PICK q \in Points : x = Read(q, q.start # a, 1)
      BY <3>1 DEF Touching
    <3>3. q = r /\ (q.start # a) = TRUE
      BY <2>3, <3>2 DEF Read
    <3> QED
      BY <2>4, <3>3
  <2>6. r \notin Context(bank, a, key).capped /\ StartsInside(b, r)
        /\ \A d \in b.where : d.op # "IS NULL" /\ d.other = Nil => d.value \in Nat
    BY <1>1, <1>8, <2>1 DEF Whole
  <2>7. e[t] \in DOMAIN bank[t] /\ bank[t][e[t]][r.col] = key
    BY <1>0, <1>4, <1>5, <2>4
  <2>8. InWindow(bank, t, e[t])
    BY <1>0, <1>1, <2>4, <2>6, <2>7, InsideWindow
  <2>9. PICK i \in Itself(bank, a, key) : TRUE
    BY <1>1 DEF Whole
  <2>10. bank[a][i][Key[a]] = key
    BY DEF Itself
  <2>11. e[t] \in Sought(bank, x, Itself(bank, a, key))
    BY <2>3, <2>4, <2>7, <2>8, <2>9, <2>10 DEF Sought
  <2>12. ~ (Cardinality(Sought(bank, x, Itself(bank, a, key))) > Cap)
    BY <2>3, <2>6, ContextFetched
  <2>13. Got(bank, x, Itself(bank, a, key)) = Sought(bank, x, Itself(bank, a, key))
    BY <1>4, <2>3, <2>4, <2>12, GotAll
  <2>14. e[t] \in Got(bank, x, g[1 - 1][Via(x)])
    BY <1>0, <2>3, <2>4, <2>11, <2>13
  <2>15. e[t] \in g[1][t]
    BY <1>1, <1>4, <1>6, <2>3, <2>4, <2>14, HopAdds
  <2> QED
    BY <1>4, <1>5, <2>4, <2>5, <2>15
<1> QED
  BY <1>7, <1>8

\* What a join finds.
LEMMA JoinFinds ==
  ASSUME NEW bank \in Warehouses, NEW b, Ordered(b), NEW e \in JoinedRows(bank, b), NEW s \in ToSet(b.joins), e[s.to] # 0
  PROVE  /\ e[s.to] \in DOMAIN bank[s.to] /\ e[s.from] # 0
         /\ bank[s.to][e[s.to]][s.theirs] = bank[s.from][e[s.from]][s.mine]
         /\ bank[s.from][e[s.from]][s.mine] # Nil
<1>1. Extends(bank, e, s, Outer(s))
  BY JoinedIs
<1>2. e[s.to] \in Matches(bank, s, Value(bank, e, <<s.from, s.mine>>))
  BY <1>1 DEF Extends
<1>3. /\ e[s.to] \in DOMAIN bank[s.to] /\ Value(bank, e, <<s.from, s.mine>>) # Nil
      /\ bank[s.to][e[s.to]][s.theirs] = Value(bank, e, <<s.from, s.mine>>)
  BY <1>2 DEF Matches
<1> QED
  BY <1>3 DEF Value

\* A join to what is covered points at: the read that fetches it comes after
\* those of what it is keyed on.
LEMMA ForwardHeld ==
  ASSUME NEW bank \in Warehouses, NEW b, NEW a, NEW key, NEW g, NEW e, Asked(b, bank, a, key, g, e),
         NEW s \in Walked(b), e[s.from] # 0 => e[s.from] \in g[MemoryHops][s.from], e[s.to] # 0,
         NEW r \in PointsBy(s.from, s.mine, s.to), NEW x \in Template(a), x.rel = r
  PROVE  e[s.to] \in g[MemoryHops][s.to]
<1>0. /\ Ordered(b) /\ Reads(b) \subseteq Refs /\ a \in Tables /\ e \in JoinedRows(bank, b)
      /\ \A t \in Tables : e[t] = 0 \/ e[t] \in DOMAIN bank[t]
      /\ g[0][a] = Itself(bank, a, key)
      /\ \A t \in Tables : \A j \in 0 .. MemoryHops : \A k \in j .. MemoryHops : g[j][t] \subseteq g[k][t]
  BY AskedIs
<1>1. Whole(b, bank, a, key) /\ Fetched(g, bank, a, key) /\ e \in SqlRows(bank, b)
  BY DEF Asked
<1>2. s \in ToSet(b.joins) /\ s \in Steps
  BY <1>0 DEF Walked, Ordered, ToSet
<1>3. s.from \in Tables /\ s.to \in Tables
  BY <1>2, StepTables
<1>4. r \in Points /\ r.start = s.from /\ r.col = s.mine /\ r.end = s.to
  BY DEF PointsBy
<1>5. s.theirs = Key[s.to]
  BY <1>1, <1>2, <1>4 DEF Whole, ByKey
<1>6. /\ e[s.to] \in DOMAIN bank[s.to] /\ e[s.from] # 0
      /\ bank[s.to][e[s.to]][Key[s.to]] = bank[s.from][e[s.from]][s.mine]
      /\ bank[s.from][e[s.from]][s.mine] # Nil
  BY <1>0, <1>2, <1>5, JoinFinds
<1>7. x.inward \in BOOLEAN /\ x.hop \in 1 .. MemoryHops
  BY TemplateIs DEF ReadsOn
<1>8. IF x.inward THEN \E n \in Namings(b) : n.by = x.rel ELSE \A y \in Template(a) : Of(y) = s.from => y.hop < x.hop
  BY <1>1, <1>4 DEF Whole
<1>9. CASE x.inward
  <2>1. PICK n \in Namings(b) : n.by = r
    BY <1>8, <1>9
  <2>2. r # Nil
    BY <1>4, RecallAssumption
  <2>3. PICK c \in b.where :
           /\ c.op = "=" /\ c.other = Nil /\ c.value = n.key /\ RefOf(c) \in Refs /\ RefOf(c) = <<c.table, c.col>>
           /\ \/ n.by = Nil
              \/ n.by.start = c.table /\ n.by.col = c.col /\ n.table = n.by.end
    BY <1>0, NamingIs
  <2>4. n.table = a /\ n.key = key
    BY <1>0, <1>1, WholeNames
  <2>5. c.table = s.from /\ c.col = s.mine /\ s.to = a /\ c.value = key
    BY <1>4, <2>1, <2>2, <2>3, <2>4
  <2>6. bank[s.from][e[s.from]][s.mine] = key
    <3>1. Holds(c, [q \in Refs |-> Value(bank, e, q)])
      BY <1>0, <1>1, SqlRowHolds
    <3> QED
      BY <2>3, <2>5, <3>1, NamedValue
  <2>7. e[s.to] \in g[0][s.to]
    BY <1>0, <1>6, <2>5, <2>6 DEF Itself
  <2>8. 0 \in 0 .. MemoryHops /\ MemoryHops \in 0 .. MemoryHops
    BY RecallAssumption
  <2> QED
    BY <1>0, <1>3, <2>7, <2>8
<1>10. CASE ~ x.inward
  <2>1. PICK m \in 1 .. MemoryHops : m = x.hop
    BY <1>7
  <2>2. Via(x) = s.from /\ Of(x) = s.to
    BY <1>4, <1>10 DEF Via, Of
  <2>3. g[MemoryHops][s.from] = g[m - 1][s.from]
    <3>1. \A y \in Template(a) : Of(y) = s.from => y.hop < m
      BY <1>8, <1>10, <2>1
    <3> QED
      BY <1>1, <1>3, <2>1, <3>1, FetchedLast
  <2>4. e[s.from] \in g[m - 1][s.from]
    BY <1>6, <2>3
  <2>5. e[s.to] \in Sought(bank, x, g[m - 1][s.from])
    BY <1>4, <1>6, <1>10, <2>4 DEF Sought
  <2>6. e[s.to] \in Got(bank, x, g[m - 1][Via(x)])
    BY <1>10, <2>2, <2>5 DEF Got
  <2>7. e[s.to] \in g[m][s.to]
    BY <1>1, <1>3, <2>1, <2>2, <2>6, HopAdds
  <2>8. m \in 0 .. MemoryHops /\ MemoryHops \in m .. MemoryHops
    BY RecallAssumption
  <2> QED
    BY <1>0, <1>3, <2>7, <2>8
<1> QED
  BY <1>7, <1>9, <1>10

\* A join from what a named row points at.
LEMMA BackwardHeld ==
  ASSUME NEW bank \in Warehouses, NEW b, NEW a, NEW key, NEW g, NEW e, Asked(b, bank, a, key, g, e),
         NEW s \in ToSet(b.joins), s.from # s.to, s.to \in NamedBy(b, a), e[s.from] # 0,
         NEW r \in PointsBy(s.to, s.theirs, s.from), NEW x \in Template(a), x.rel = r, Via(x) = s.to
  PROVE  e[s.from] \in g[MemoryHops][s.from]
<1>0. /\ Ordered(b) /\ Reads(b) \subseteq Refs /\ a \in Tables /\ e \in JoinedRows(bank, b)
      /\ \A t \in Tables : e[t] = 0 \/ e[t] \in DOMAIN bank[t]
      /\ \A t \in Tables : \A j \in 0 .. MemoryHops : \A k \in j .. MemoryHops : g[j][t] \subseteq g[k][t]
  BY AskedIs
<1>1. Whole(b, bank, a, key) /\ Fetched(g, bank, a, key)
  BY DEF Asked
<1>2. s \in Steps /\ s.from \in Tables /\ s.to \in Tables
  BY <1>0, StepTables DEF Ordered, ToSet
<1>3. r \in Points /\ r.start = s.to /\ r.col = s.theirs /\ r.end = s.from
  BY DEF PointsBy
<1>4. s.mine = Key[s.from]
  BY <1>1, <1>3 DEF Whole, ByKey
<1>5. e[s.to] # 0 /\ e[s.to] \in g[1][s.to] /\ (s.to = a => e[s.to] \in g[0][s.to])
  BY NamedHeld
<1>6. /\ bank[s.to][e[s.to]][s.theirs] = bank[s.from][e[s.from]][Key[s.from]]
      /\ bank[s.to][e[s.to]][s.theirs] # Nil /\ e[s.from] \in DOMAIN bank[s.from]
  BY <1>0, <1>2, <1>4, <1>5, JoinFinds
<1>7. ~ x.inward /\ Of(x) = s.from
  BY <1>3 DEF Via, Of
<1>8. PICK m \in 1 .. MemoryHops : m = x.hop
  BY TemplateIs DEF ReadsOn
<1>9. MemoryHops \in Nat
  BY RecallAssumption
<1>10. e[s.to] \in g[m - 1][s.to]
  <2>1. CASE s.to = a
    <3>1. 0 \in 0 .. MemoryHops /\ m - 1 \in 0 .. MemoryHops
      BY <1>9
    <3> QED
      BY <1>0, <1>2, <1>5, <2>1, <3>1
  <2>2. CASE s.to # a
    <3>1. m # 1
      <4> SUFFICES ASSUME m = 1 PROVE FALSE
        OBVIOUS
      <4>1. x \in Touching(a)
        BY <1>8, TemplateIs DEF ReadsOn
      <4>2. PICK q \in Points : x = Read(q, q.start # a, 1)
        BY <4>1 DEF Touching
      <4>3. q = r /\ x.inward = (q.start # a)
        BY <4>2 DEF Read
      <4> QED
        BY <1>3, <1>7, <2>2, <4>3
    <3>2. 1 \in 0 .. MemoryHops /\ m - 1 \in 1 .. MemoryHops
      BY <1>9, <3>1
    <3> QED
      BY <1>0, <1>2, <1>5, <3>2
  <2> QED
    BY <2>1, <2>2
<1>11. e[s.from] \in Sought(bank, x, g[m - 1][s.to])
  BY <1>3, <1>6, <1>7, <1>10 DEF Sought
<1>12. e[s.from] \in Got(bank, x, g[m - 1][Via(x)])
  BY <1>7, <1>11 DEF Got
<1>13. e[s.from] \in g[m][s.from]
  BY <1>1, <1>2, <1>7, <1>8, <1>12, HopAdds
<1>14. m \in 0 .. MemoryHops /\ MemoryHops \in m .. MemoryHops
  BY <1>9
<1> QED
  BY <1>0, <1>2, <1>13, <1>14

\* Of the tables covered so far, those walked to are held.
CoverHolds(b, a, k, X, e, ts) ==
  /\ ts \subseteq NamedBy(b, a) \cup Upto(b, k)
  /\ \A t \in ts : t \in WalkedTo(b) /\ e[t] # 0 => e[t] \in X[t]

LEMMA CoverHoldsOn ==
  ASSUME NEW bank \in Warehouses, NEW b, NEW a, NEW key, NEW g, NEW e, Asked(b, bank, a, key, g, e),
         NEW k \in 1 .. Len(b.joins), NEW ts, CoverHolds(b, a, k - 1, g[MemoryHops], e, ts)
  PROVE  CoverHolds(b, a, k, g[MemoryHops], e, CoverOne(a, ts, b.joins[k]))
<1> DEFINE X == g[MemoryHops]
<1>0. Ordered(b) /\ Ready(b) /\ Settled(b) /\ Len(b.joins) \in Nat /\ DOMAIN b.joins = 1 .. Len(b.joins)
  BY DEF Asked, Ready, Ordered
<1>1. PICK s \in ToSet(b.joins) : s = b.joins[k]
  BY <1>0 DEF ToSet
<1>2. s.from \in Upto(b, k - 1) /\ s.to \notin Upto(b, k - 1) /\ Upto(b, k) = Upto(b, k - 1) \cup {s.to}
  BY <1>0, <1>1, JoinIsNew
<1>3. ts \subseteq NamedBy(b, a) \cup Upto(b, k - 1) /\ \A t \in ts : t \in WalkedTo(b) /\ e[t] # 0 => e[t] \in X[t]
  BY DEF CoverHolds
<1> HIDE DEF X
<1>4. CASE s.from \in ts /\ \E r \in PointsBy(s.from, s.mine, s.to) : Reading(a, r, s.from) \/ (s.to = a /\ Reading(a, r, a))
  <2>1. CoverOne(a, ts, s) = ts \cup {s.to}
    BY <1>4, Zenon DEF CoverOne
  <2>2. ASSUME s.to \in WalkedTo(b), e[s.to] # 0 PROVE e[s.to] \in X[s.to]
    <3>1. s \in Walked(b) /\ s.from \in WalkedTo(b)
      BY <1>0, <2>2, WalkedIs, WalkedLined
    <3>2. PICK r \in PointsBy(s.from, s.mine, s.to) : \E x \in Template(a) : x.rel = r
      BY <1>4 DEF Reading
    <3>3. PICK x \in Template(a) : x.rel = r
      BY <3>2
    <3>4. e[s.from] # 0 => e[s.from] \in X[s.from]
      BY <1>3, <1>4, <3>1
    <3> QED
      BY <2>2, <3>1, <3>3, <3>4, ForwardHeld DEF X
  <2>3. ts \cup {s.to} \subseteq NamedBy(b, a) \cup Upto(b, k)
    BY <1>2, <1>3
  <2>4. \A t \in ts \cup {s.to} : t \in WalkedTo(b) /\ e[t] # 0 => e[t] \in X[t]
    BY <1>3, <2>2
  <2> QED
    BY <1>1, <2>1, <2>3, <2>4 DEF CoverHolds, X
<1>5. CASE ~ (s.from \in ts /\ \E r \in PointsBy(s.from, s.mine, s.to) : Reading(a, r, s.from) \/ (s.to = a /\ Reading(a, r, a)))
           /\ s.to \in ts /\ \E r \in PointsBy(s.to, s.theirs, s.from) : Reading(a, r, s.to)
  <2>1. CoverOne(a, ts, s) = ts \cup {s.from}
    BY <1>5, Zenon DEF CoverOne
  <2>2. ASSUME e[s.from] # 0 PROVE e[s.from] \in X[s.from]
    <3>1. s.to \in NamedBy(b, a)
      BY <1>2, <1>3, <1>5
    <3>2. PICK r \in PointsBy(s.to, s.theirs, s.from) : \E x \in Template(a) : x.rel = r /\ Via(x) = s.to
      BY <1>5 DEF Reading
    <3>3. PICK x \in Template(a) : x.rel = r /\ Via(x) = s.to
      BY <3>2
    <3>4. s.from # s.to
      BY <1>2
    <3> QED
      BY <2>2, <3>1, <3>3, <3>4, BackwardHeld DEF X
  <2>3. ts \cup {s.from} \subseteq NamedBy(b, a) \cup Upto(b, k)
    BY <1>2, <1>3
  <2>4. \A t \in ts \cup {s.from} : t \in WalkedTo(b) /\ e[t] # 0 => e[t] \in X[t]
    BY <1>3, <2>2
  <2> QED
    BY <1>1, <2>1, <2>3, <2>4 DEF CoverHolds, X
<1>6. CASE /\ ~ (s.from \in ts /\ \E r \in PointsBy(s.from, s.mine, s.to) : Reading(a, r, s.from) \/ (s.to = a /\ Reading(a, r, a)))
           /\ ~ (s.to \in ts /\ \E r \in PointsBy(s.to, s.theirs, s.from) : Reading(a, r, s.to))
  <2>1. CoverOne(a, ts, s) = ts
    BY <1>6, Zenon DEF CoverOne
  <2>2. ts \subseteq NamedBy(b, a) \cup Upto(b, k)
    BY <1>2, <1>3
  <2> QED
    BY <1>1, <1>3, <2>1, <2>2 DEF CoverHolds, X
<1> QED
  BY <1>4, <1>5, <1>6

\* So every row the SQL aggregates is of rows the context has.
LEMMA RowsRecalled ==
  ASSUME NEW bank \in Warehouses, NEW b, NEW a, NEW key, NEW g, NEW e, Asked(b, bank, a, key, g, e), NEW t \in WalkedTo(b), e[t] # 0
  PROVE  e[t] \in Context(bank, a, key).rows[t]
<1> DEFINE n == Len(b.joins)
           X == g[MemoryHops]
<1>0. /\ Ordered(b) /\ Reads(b) \subseteq Refs /\ n \in Nat /\ b.joins \in Seq(Steps)
      /\ Whole(b, bank, a, key) /\ Context(bank, a, key).rows = X
  BY DEF Asked, Ready, Ordered, Fetched
<1>1. NamedBy(b, a) \in SUBSET Tables
  BY <1>0, WholeNames
<1>2. PICK c : /\ c[0] = NamedBy(b, a)
               /\ \A k \in 1 .. n : c[k] = CoverOne(a, c[k - 1], b.joins[k])
               /\ Covered(b, a) = c[n]
  BY <1>0, <1>1, CoveredFold
<1>3. CoverHolds(b, a, 0, X, e, c[0])
  <2>1. ASSUME NEW u \in NamedBy(b, a) PROVE e[u] \in X[u]
    <3>1. u \in Tables /\ e[u] \in g[1][u]
      BY NamedHeld
    <3>2. 1 \in 0 .. MemoryHops /\ MemoryHops \in 1 .. MemoryHops
      BY RecallAssumption
    <3>3. \A v \in Tables : \A j \in 0 .. MemoryHops : \A k \in j .. MemoryHops : g[j][v] \subseteq g[k][v]
      BY AskedIs
    <3> QED
      BY <3>1, <3>2, <3>3
  <2> QED
    BY <1>2, <2>1 DEF CoverHolds
<1> DEFINE N == {k \in 0 .. n : ~ CoverHolds(b, a, k, X, e, c[k])}
<1> HIDE DEF n
<1>4. N = {}
  <2> SUFFICES ASSUME N # {} PROVE FALSE
    OBVIOUS
  <2>1. PICK k \in N : \A l \in N : k <= l
    <3>1. N \in SUBSET Nat
      BY <1>0
    <3> HIDE DEF N
    <3> QED
      BY <3>1, LeastNumber
  <2>2. k # 0
    BY <1>3
  <2>3. k \in 1 .. n /\ k - 1 \in 0 .. n /\ ~ (k <= k - 1)
    BY <1>0, <2>2
  <2>4. CoverHolds(b, a, k - 1, X, e, c[k - 1])
    BY <2>1, <2>3
  <2>5. CoverHolds(b, a, k, X, e, CoverOne(a, c[k - 1], b.joins[k]))
    BY <2>3, <2>4, CoverHoldsOn DEF n
  <2> QED
    BY <1>2, <2>3, <2>5
<1>5. CoverHolds(b, a, n, X, e, Covered(b, a))
  <2>1. n \in 0 .. n
    BY <1>0
  <2> QED
    BY <1>2, <1>4, <2>1
<1>6. t \in Covered(b, a)
  <2>1. t \in TablesIn(b)
    BY DEF WalkedTo, Walked, TablesIn
  <2> QED
    BY <1>0, <2>1 DEF Whole
<1> QED
  BY <1>0, <1>5, <1>6 DEF CoverHolds

-----------------------------------------------------------------------------
(* What was answered from memory still could be *)

\* Memory is not written while a command runs, so the routing of an answer
\* being given holds of the memory there is.
RoutedFromMemory(w) ==
  w.step = "answered" /\ w.route = "memory" /\ w.blocks # Nil => Len(w.blocks) = 1 /\ Answerable(w.blocks[1], memory)
RoutedInv == \A v \in Visitors : RoutedFromMemory(work[v])

\* A command goes somewhere, and the others stay.
LEMMA RoutedOn ==
  ASSUME AskInv, RoutedInv, NEW v \in Visitors, NEW to, work' = [work EXCEPT ![v] = to], memory' = memory,
         RoutedFromMemory(to)
  PROVE  RoutedInv'
<1>1. \A u \in Visitors : work'[u] = IF u = v THEN to ELSE work[u]
  BY DEF AskInv
<1>2. ASSUME NEW u \in Visitors PROVE RoutedFromMemory(work[u])'
  <2>1. PICK w : w = work'[u] /\ RoutedFromMemory(w)
    BY <1>1 DEF RoutedInv
  <2>2. RoutedFromMemory(w)'
    BY <2>1 DEF RoutedFromMemory
  <2> QED
    BY <2>1 DEF RoutedFromMemory
<1> QED
  BY <1>2 DEF RoutedInv

LEMMA RoutedElse == ASSUME NEW w, w.step # "answered" PROVE RoutedFromMemory(w)
  BY DEF RoutedFromMemory

LEMMA RoutedStep ==
  ASSUME AskInv, RoutedInv, NEW v \in Visitors, NEW from, NEW to, Step(v, from, to) \/ Ends(v), memory' = memory,
         RoutedFromMemory(to)
  PROVE  RoutedInv'
<1>1. RoutedFromMemory([step |-> "done"])
  BY RoutedElse
<1>2. work' = [work EXCEPT ![v] = to] \/ work' = [work EXCEPT ![v] = [step |-> "done"]]
  BY DEF Step, Ends
<1> QED
  BY <1>1, <1>2, RoutedOn

LEMMA RoutedKeeps == AskInv /\ RoutedInv /\ [Next]_vars => RoutedInv'
<1> SUFFICES ASSUME AskInv, RoutedInv, [Next]_vars PROVE RoutedInv'
  OBVIOUS
<1>1. CASE work' = work /\ memory' = memory
  BY <1>1 DEF RoutedInv, RoutedFromMemory
<1>2. CASE UNCHANGED vars
  BY <1>1, <1>2 DEF vars, askVars
<1>3. CASE Load
  BY <1>1, <1>3 DEF Load
<1>4. ASSUME NEW v \in Visitors, Server(v) PROVE RoutedInv'
  BY <1>1, <1>4 DEF Server, askVars
<1>5. ASSUME NEW v \in Visitors, Process(v) PROVE RoutedInv'
  <2> DEFINE w == work[v]
  <2>0. Working(w, asks[v])
    BY DEF AskInv
  <2>1. CASE Look(v)
    <3>1. PICK to : to.step # "answered" /\ (Step(v, "none", to) \/ Ends(v))
      <4>1. [step |-> "call"].step # "answered" /\ \A f : [step |-> "uniques", request |-> f].step # "answered"
        OBVIOUS
      <4>2. \/ Step(v, "none", [step |-> "call"])
            \/ Ends(v)
            \/ Step(v, "none", [step |-> "uniques", request |-> answers[asks[v]]])
        BY <2>1 DEF Look
      <4> QED
        BY <4>1, <4>2, Zenon
    <3> QED
      BY <2>1, <3>1, RoutedStep, RoutedElse DEF Look
  <2>2. CASE Call(v)
    <3>1. PICK to : to.step # "answered" /\ (Step(v, "call", to) \/ Ends(v))
      <4>1. \A r : [step |-> "save", request |-> r].step # "answered"
        OBVIOUS
      <4>2. Ends(v) \/ \E r \in Replies[asks[v]] : Step(v, "call", [step |-> "save", request |-> r])
        BY <2>2 DEF Call
      <4> QED
        BY <4>1, <4>2, Zenon
    <3> QED
      BY <2>2, <3>1, RoutedStep, RoutedElse DEF Call
  <2>3. CASE Save(v)
    <3>1. w \in [step : {"save", "uniques"}, request : Replies[asks[v]]]
      BY <2>0, <2>3, WorkingIs DEF Save, Step
    <3>2. [w EXCEPT !.step = "uniques"].step # "answered"
      BY <3>1
    <3> QED
      BY <2>3, <3>2, RoutedStep, RoutedElse DEF Save
  <2>4. CASE LoadUniques(v)
    <3>1. PICK to : to.step # "answered" /\ (Step(v, "uniques", to) \/ Ends(v))
      <4>1. \A r, k : [step |-> "check", request |-> r, known |-> k].step # "answered"
        OBVIOUS
      <4>2. Ends(v) \/ \E k : Step(v, "uniques", [step |-> "check", request |-> work[v].request, known |-> k])
        BY <2>4, Zenon DEF LoadUniques
      <4> QED
        BY <4>1, <4>2, Zenon
    <3> QED
      BY <2>4, <3>1, RoutedStep, RoutedElse DEF LoadUniques
  <2>5. CASE CheckUniques(v)
    <3>1. PICK to : to.step # "answered" /\ Step(v, "check", to)
      <4>1. \A s \in {"record", "compile"} : \A r, k : [step |-> s, request |-> r, known |-> k].step # "answered"
        OBVIOUS
      <4>2. \E s \in {"record", "compile"} : \E k : Step(v, "check", [step |-> s, request |-> work[v].request, known |-> k])
        BY <2>5 DEF CheckUniques
      <4> QED
        BY <4>1, <4>2, Zenon
    <3> QED
      BY <2>5, <3>1, RoutedStep, RoutedElse DEF CheckUniques
  <2>6. CASE Record(v)
    <3>1. w \in [step : {"record", "compile"}, request : Replies[asks[v]], known : [Targets -> BOOLEAN]]
      BY <2>0, <2>6, WorkingIs DEF Record, Step
    <3>2. [w EXCEPT !.step = "compile"].step # "answered"
      BY <3>1
    <3> QED
      BY <2>6, <3>2, RoutedStep, RoutedElse DEF Record
  <2>7. CASE Answer(v)
    <3>1. PICK blocks : blocks = Plan(work[v].request, True(work[v].known))
      OBVIOUS
    <3>2. PICK route : route = Routed(blocks)
      OBVIOUS
    <3>3. Give(v, blocks, route)
      BY <2>7, <3>1, <3>2 DEF Answer
    <3>4. PICK to : to = [step |-> "answered", request |-> work[v].request, known |-> work[v].known,
                          blocks |-> blocks, route |-> route]
      OBVIOUS
    <3>5. (Step(v, "compile", to) \/ Ends(v)) /\ memory' = memory
      BY <3>3, <3>4 DEF Give
    <3>6. to.blocks = blocks /\ to.route = route
      BY <3>4
    <3>7. RoutedFromMemory(to)
      BY <3>2, <3>6 DEF RoutedFromMemory, Routed
    <3> QED
      BY <3>5, <3>7, RoutedStep
  <2>8. CASE Finish(v)
    <3>1. PICK to : to = [step |-> "done"]
      OBVIOUS
    <3>2. to.step # "answered" /\ Ends(v) /\ memory' = memory
      BY <2>8, <3>1 DEF Finish
    <3>3. RoutedFromMemory(to)
      BY <3>2, RoutedElse
    <3> QED
      BY <3>2, <3>3, RoutedStep
  <2> QED
    BY <1>5, <2>1, <2>2, <2>3, <2>4, <2>5, <2>6, <2>7, <2>8 DEF Process
<1> QED
  BY <1>2, <1>3, <1>4, <1>5 DEF Next

LEMMA RoutedInvariant == Spec => [](AskInv /\ RoutedInv)
<1>1. Init => RoutedInv
  BY RoutedElse DEF Init, Idle, RoutedInv
<1> QED
  BY <1>1, AskInit, AskKeeps, RoutedKeeps, PTL DEF Spec

\* A plan's blocks are as many as its groups.
LEMMA PlanLength ==
  ASSUME NEW request \in Request, NEW unique, NEW blocks, blocks = Plan(request, unique), blocks # Nil
  PROVE  DOMAIN blocks = 1 .. Len(blocks)
<1> DEFINE groups == Groups(request, unique)
           facts == FactsOf(groups)
           all == [i \in DOMAIN groups |-> Resolve(groups[i], request, facts, Len(groups) > 1, unique)]
<1>1. blocks = all
  <2>1. blocks = AllOrNil(all)
    BY Zenon DEF Plan, FactsOf
  <2> HIDE DEF all
  <2> QED
    BY <2>1 DEF AllOrNil
<1>2. groups \in Seq(Group)
  BY GroupsAre
<1> HIDE DEF groups
<1>3. PICK n \in Nat : DOMAIN groups = 1 .. n
  BY <1>2
<1> DEFINE S == {all[i] : i \in 1 .. n}
<1>4. all \in [1 .. n -> S]
  BY <1>3
<1> HIDE DEF all, S
<1>5. Len(all) = n /\ DOMAIN all = 1 .. n
  BY <1>4, BySeq
<1> QED
  BY <1>1, <1>5

\* A block answered from memory is the answer's only one.
LEMMA RoutedBlock ==
  ASSUME AskInv, RoutedInv, NEW v \in Visitors, NEW b \in Compiled(v), FromMemory(v)
  PROVE  Answerable(b, memory)
<1>1. work[v].blocks # Nil /\ b \in ToSet(work[v].blocks) /\ work[v].step = "answered" /\ work[v].route = "memory"
  BY DEF Compiled, FromMemory, Answering
<1>2. Len(work[v].blocks) = 1 /\ Answerable(work[v].blocks[1], memory)
  BY <1>1 DEF RoutedInv, RoutedFromMemory
<1>3. \E i \in DOMAIN work[v].blocks : b = work[v].blocks[i]
  BY <1>1 DEF ToSet
<1>4. DOMAIN work[v].blocks = 1 .. Len(work[v].blocks)
  <2>1. work[v].blocks = Plan(work[v].request, True(work[v].known)) /\ work[v].request \in Request
    BY AnsweringIs DEF FromMemory
  <2> QED
    BY <1>1, <2>1, PlanLength
<1> QED
  BY <1>2, <1>3, <1>4

-----------------------------------------------------------------------------
(* What a block's filters name is a number *)

LEMMA WhereNumbers ==
  ASSUME AskInv, NEW v \in Visitors, NEW b \in Compiled(v), NEW c \in b.where
  PROVE  c.value \in Nat
<1>1. PICK request : request = work[v].request
  OBVIOUS
<1>2. PICK unique : unique = True(work[v].known)
  OBVIOUS
<1>3. PICK t : t = b.fact
  OBVIOUS
<1>4. /\ request \in Request /\ t \in Tables
      /\ \E g \in Group : \E others : \E several :
           Shaped(b, t, g, FiltersAt(t, request, others, several, unique), request, unique)
  BY <1>1, <1>2, <1>3, BlockOf
<1>5. PICK g \in Group : \E others : \E several :
           Shaped(b, t, g, FiltersAt(t, request, others, several, unique), request, unique)
  BY <1>4
<1>6. PICK others : \E several : Shaped(b, t, g, FiltersAt(t, request, others, several, unique), request, unique)
  BY <1>5
<1>7. PICK several : Shaped(b, t, g, FiltersAt(t, request, others, several, unique), request, unique)
  BY <1>6
<1>8. PICK filters : filters = FiltersAt(t, request, others, several, unique)
  OBVIOUS
<1>9. b.where = Shared(g.measures) \cup filters \cup SinceAt(t, request, unique)
  BY <1>7, <1>8 DEF Shaped
<1>10. \A x \in Condition : x.value \in Nat
  BY DEF Condition
<1>11. CASE c \in filters
  <2>1. request.filters \in Seq(Condition)
    BY <1>4 DEF Request
  <2>2. ToSet(request.filters) \subseteq Condition
    BY <2>1 DEF ToSet
  <2>3. FiltersAt(t, request, others, several, unique) \subseteq ToSet(request.filters)
    BY Zenon DEF FiltersAt
  <2> QED
    BY <1>8, <1>10, <1>11, <2>2, <2>3
<1>12. CASE c \in Shared(g.measures)
  <2>1. g.measures \in Seq(Measure)
    BY DEF Group
  <2>2. PICK m \in ToSet(g.measures) : c \in m.filters
    BY <1>12 DEF Shared
  <2>3. m \in Measure
    BY <2>1 DEF ToSet
  <2>4. m.filters \subseteq Condition
    BY <2>3 DEF Measure
  <2> QED
    BY <1>10, <2>2, <2>4
<1>13. CASE c \in SinceAt(t, request, unique)
  <2>1. PICK r \in PeriodAt(t, request, unique) :
          c = [table |-> r[1], col |-> r[2], op |-> ">=", value |-> FromOf(request), other |-> Nil]
    BY <1>13 DEF SinceAt
  <2>2. request.period # Nil
    BY DEF PeriodAt
  <2>3. request.period \in [options : Options, from : Nat] \cup {Nil}
    BY <1>4 DEF Request
  <2>4. FromOf(request) \in Nat
    BY <2>2, <2>3 DEF FromOf
  <2> QED
    BY <2>1, <2>4
<1> QED
  BY <1>9, <1>11, <1>12, <1>13

-----------------------------------------------------------------------------
(* What memory holds is copied from the warehouse it was recalled from *)

Recalled(bank, anchors, t) == UNION {c.rows[t] : c \in {Context(bank, a[1], a[2]) : a \in anchors}}
HeldIn(bank, anchors) == [t \in Tables |-> InOrder(Recalled(bank, anchors, t), <)]

LEMMA RecalledIn ==
  ASSUME NEW bank \in Warehouses, NEW anchors, NEW t \in Tables
  PROVE  /\ Recalled(bank, anchors, t) \subseteq DOMAIN bank[t]
         /\ IsFiniteSet(Recalled(bank, anchors, t)) /\ Numbers(Recalled(bank, anchors, t))
<1> DEFINE contexts == {Context(bank, a[1], a[2]) : a \in anchors}
<1>1. \A c \in contexts : c.rows[t] \subseteq DOMAIN bank[t]
  BY ContextRows
<1>2. Recalled(bank, anchors, t) \subseteq DOMAIN bank[t]
  <2> HIDE DEF contexts
  <2>1. UNION {c.rows[t] : c \in contexts} \subseteq DOMAIN bank[t]
    BY <1>1
  <2> QED
    BY <2>1 DEF Recalled, contexts
<1> HIDE DEF contexts
<1>3. PICK n \in Nat : DOMAIN bank[t] = 1 .. n
  BY DEF Warehouses
<1>4. IsFiniteSet(DOMAIN bank[t]) /\ Numbers(DOMAIN bank[t])
  BY <1>3, FS_Interval DEF Numbers
<1>5. IsFiniteSet(Recalled(bank, anchors, t))
  BY <1>2, <1>4, FS_Subset
<1> QED
  BY <1>2, <1>4, <1>5 DEF Numbers

\* What is in order is each once.
LEMMA IncreasingOnce ==
  ASSUME NEW S, IsFiniteSet(S), Numbers(S)
  PROVE  \A i, k \in DOMAIN InOrder(S, <) : InOrder(S, <)[i] = InOrder(S, <)[k] => i = k
  BY InOrderIs, OrderedOnce

LEMMA RememberedCopies ==
  ASSUME NEW bank \in Warehouses, NEW anchors, NEW rows, rows = Remembered(bank, anchors).rows,
         NEW held, held = HeldIn(bank, anchors)
  PROVE  /\ Copies(bank, held, rows)
         /\ \A t \in Tables : \A i \in Recalled(bank, anchors, t) : \E n \in DOMAIN rows[t] : held[t][n] = i
<1>1. ASSUME NEW t \in Tables
      PROVE  DOMAIN rows[t] = DOMAIN held[t] /\ \A n \in DOMAIN held[t] : rows[t][n] = bank[t][held[t][n]]
  <2>1. \A a, b : [rows |-> a, contexts |-> b].rows = a
    OBVIOUS
  <2> DEFINE in(u) == InOrder(Recalled(bank, anchors, u), <)
             of(u) == [n \in DOMAIN in(u) |-> bank[u][in(u)[n]]]
  <2>2. rows = [u \in Tables |-> of(u)]
    BY <2>1, Zenon DEF Remembered, Recalled
  <2>3. held[t] = in(t)
    BY DEF HeldIn
  <2>4. DOMAIN of(t) = DOMAIN in(t) /\ \A n \in DOMAIN in(t) : of(t)[n] = bank[t][in(t)[n]]
    <3> HIDE DEF in
    <3> QED
      OBVIOUS
  <2> HIDE DEF in, of
  <2>5. rows[t] = of(t)
    BY <2>2
  <2> QED
    BY <2>3, <2>4, <2>5
<1>2. ASSUME NEW t \in Tables
      PROVE  /\ \A n \in DOMAIN held[t] : held[t][n] \in DOMAIN bank[t]
             /\ \A n, k \in DOMAIN held[t] : held[t][n] = held[t][k] => n = k
             /\ \A i \in Recalled(bank, anchors, t) : \E n \in DOMAIN held[t] : held[t][n] = i
  <2> DEFINE S == Recalled(bank, anchors, t)
  <2>1. held[t] = InOrder(S, <)
    BY DEF HeldIn
  <2>2. S \subseteq DOMAIN bank[t] /\ IsFiniteSet(S) /\ Numbers(S)
    BY RecalledIn
  <2> HIDE DEF S
  <2>3. InOrder(S, <) \in [1 .. Cardinality(S) -> S]
    BY <2>2, InOrderIs
  <2>4. \A n \in DOMAIN held[t] : held[t][n] \in DOMAIN bank[t]
    BY <2>1, <2>2, <2>3
  <2>5. \A n, k \in DOMAIN held[t] : held[t][n] = held[t][k] => n = k
    <3>1. \A n, k \in DOMAIN InOrder(S, <) : InOrder(S, <)[n] = InOrder(S, <)[k] => n = k
      BY <2>2, IncreasingOnce
    <3> QED
      BY <2>1, <3>1, Zenon
  <2>6. \A i \in S : \E n \in DOMAIN held[t] : held[t][n] = i
    BY <2>1, <2>2, InOrderOnto
  <2> QED
    BY <2>4, <2>5, <2>6 DEF S
<1> QED
  BY <1>1, <1>2 DEF Copies

\* A context memory keeps is one of an anchor that is there.
LEMMA ContextKept ==
  ASSUME NEW bank \in Warehouses, NEW anchors, NEW c \in Remembered(bank, anchors).contexts, c.table \in Tables
  PROVE  /\ \E a \in anchors : c.table = a[1] /\ c.key = a[2]
         /\ c.capped = Context(bank, c.table, c.key).capped
         /\ Itself(bank, c.table, c.key) # {}
<1> DEFINE contexts == {Context(bank, a[1], a[2]) : a \in anchors}
<1>1. Remembered(bank, anchors).contexts =
        {[table |-> d.table, key |-> d.key, capped |-> d.capped] : d \in {e \in contexts : e.rows[e.table] # {}}}
  <2>1. \A a, b : [rows |-> a, contexts |-> b].contexts = b
    OBVIOUS
  <2> QED
    BY <2>1, Zenon DEF Remembered
<1>2. PICK d \in contexts : d.rows[d.table] # {} /\ c = [table |-> d.table, key |-> d.key, capped |-> d.capped]
  <2> HIDE DEF contexts
  <2> QED
    BY <1>1
<1>3. PICK a \in anchors : d = Context(bank, a[1], a[2])
  OBVIOUS
<1>4. d.table = a[1] /\ d.key = a[2]
  BY <1>3, ContextFetched
<1>5. c.table = d.table /\ c.key = d.key /\ c.capped = d.capped
  BY <1>2
<1>6. d = Context(bank, c.table, c.key)
  BY <1>3, <1>4, <1>5
<1>7. Itself(bank, c.table, c.key) # {}
  <2> SUFFICES ASSUME Itself(bank, c.table, c.key) = {} PROVE FALSE
    OBVIOUS
  <2>1. PICK g : Fetched(g, bank, c.table, c.key)
    BY ContextFetched
  <2>2. d.rows = g[MemoryHops]
    BY <1>6, <2>1 DEF Fetched
  <2>3. g[MemoryHops][c.table] = {}
    BY <2>1, FetchedNone
  <2> QED
    BY <1>2, <1>5, <2>2, <2>3
<1> QED
  BY <1>3, <1>4, <1>5, <1>6, <1>7

-----------------------------------------------------------------------------
(* ... and holds every row the block's SQL aggregates *)

\* The one entity a block names is of a table there is.
LEMMA EntityTable ==
  ASSUME NEW b, Reads(b) \subseteq Refs, NEW a, NEW key, Entities(b) = {<<a, key>>}
  PROVE  a \in Tables
<1>1. <<a, key>> \in Entities(b)
  OBVIOUS
<1>2. PICK n \in Namings(b) : <<a, key>> = <<n.table, n.key>>
  BY <1>1 DEF Entities
<1>3. PICK c \in b.where :
        /\ RefOf(c) \in Refs /\ RefOf(c) = <<c.table, c.col>>
        /\ \/ n.by = Nil /\ n.table = c.table
           \/ n.by \in Points /\ n.table = n.by.end
  BY NamingIs
<1>4. c.table \in Tables
  BY <1>3 DEF Refs
<1>5. n.table \in Tables
  BY <1>3, <1>4, RecallAssumption
<1> QED
  BY <1>2, <1>5

\* A block whose joins are single and whose outer joins lead nowhere else.
BlockSettled(b) ==
  Ready(b) /\ Settled(b) /\ Met(data, b) /\ SingleJoins(data, b) /\ CountsPer(b)

LEMMA SettledIs ==
  ASSUME AskInv, NEW v \in Visitors, NEW b \in Compiled(v), Plain(b), StillUnique(v, b)
  PROVE  BlockSettled(b) /\ data \in Warehouses
<1>1. Ready(b)
  BY BlockReady
<1>2. Settled(b) /\ Met(data, b)
  BY PlainSettled
<1>3. SingleJoins(data, b)
  <2>1. PICK unique : unique = True(work[v].known)
    OBVIOUS
  <2>2. Sound(b, b.fact, unique)
    BY <2>1, BlockOf
  <2> QED
    BY <2>1, <2>2, StillSingle
<1>4. CountsPer(b)
  BY DEF Plain, CountsPer
<1>5. data \in Warehouses
  BY DEF AskInv, FilesInv
<1> QED
  BY <1>1, <1>2, <1>3, <1>4, <1>5 DEF BlockSettled

LEMMA MemoryAnswers ==
  ASSUME AskInv, RoutedInv, NEW v \in Visitors, NEW b \in Compiled(v), Plain(b), StillUnique(v, b),
         FromMemory(v), StillRecalled, ReadOnce(b), ByKey(b)
  PROVE  OnMemory(memory.rows, b) = InSql(data, b)
<1>1. BlockSettled(b)
  BY SettledIs
<1>2. Ready(b) /\ Settled(b) /\ Met(data, b) /\ SingleJoins(data, b) /\ CountsPer(b) /\ Reads(b) \subseteq Refs
  BY <1>1 DEF BlockSettled, Ready
<1>5. data \in Warehouses /\ memory.rows \in Warehouses
  BY DEF AskInv, FilesInv
<1>6. PICK anchors : anchors = {<<d.table, d.key>> : d \in memory.contexts}
  OBVIOUS
<1>7. memory = Remembered(data, anchors)
  BY <1>6 DEF StillRecalled
<1>8. Answerable(b, memory)
  BY RoutedBlock
<1>9. PICK c \in memory.contexts :
       /\ Entities(b) = {<<c.table, c.key>>}
       /\ \A n \in Namings(b) : n.by # Nil => n.by \notin c.capped /\ StartsInside(b, n.by)
       /\ TablesIn(b) \subseteq Covered(b, c.table)
  BY <1>8 DEF Answerable
<1>10. PICK a : a = c.table
  OBVIOUS
<1>11. PICK key : key = c.key
  OBVIOUS
<1>12. a \in Tables /\ <<a, key>> \in anchors
  BY <1>2, <1>6, <1>9, <1>10, <1>11, EntityTable
<1>13. c.capped = Context(data, a, key).capped /\ Itself(data, a, key) # {}
  BY <1>5, <1>7, <1>10, <1>11, <1>12, ContextKept
<1>14. Whole(b, data, a, key)
  <2>1. \A s \in Walked(b) : \A x \in Template(a) :
          x.rel.start = s.from /\ x.rel.col = s.mine /\ x.rel.end = s.to =>
            IF x.inward THEN \E n \in Namings(b) : n.by = x.rel ELSE \A y \in Template(a) : Of(y) = s.from => y.hop < x.hop
    BY <1>9, <1>10 DEF ReadOnce
  <2>2. \A d \in b.where : d.value \in Nat
    BY WhereNumbers
  <2> QED
    BY <1>9, <1>10, <1>11, <1>13, <2>1, <2>2 DEF Whole
<1>15. PICK held : held = HeldIn(data, anchors)
  OBVIOUS
<1>16. PICK rows \in Warehouses : rows = memory.rows
  BY <1>5
<1>17. /\ Copies(data, held, rows)
       /\ \A t \in Tables : \A i \in Recalled(data, anchors, t) : \E n \in DOMAIN rows[t] : held[t][n] = i
  BY <1>5, <1>7, <1>15, <1>16, RememberedCopies
<1>18. PICK g : Fetched(g, data, a, key)
  BY <1>5, ContextFetched
<1>19. RowsHeld(data, b, rows, held)
  <2> SUFFICES ASSUME NEW e \in SqlRows(data, b), NEW t \in WalkedTo(b), e[t] # 0
               PROVE  \E n \in DOMAIN rows[t] : held[t][n] = e[t]
    BY DEF RowsHeld
  <2>1. Asked(b, data, a, key, g, e)
    BY <1>2, <1>14, <1>18 DEF Asked
  <2>2. e[t] \in Context(data, a, key).rows[t]
    BY <1>5, <2>1, RowsRecalled
  <2>3. Context(data, a, key) \in {Context(data, d[1], d[2]) : d \in anchors}
    BY <1>12
  <2>4. e[t] \in Recalled(data, anchors, t)
    BY <2>2, <2>3 DEF Recalled
  <2>5. t \in Tables
    BY <1>2, WalkedToTables DEF Ready
  <2> QED
    BY <1>17, <2>4, <2>5
<1> QED
  BY <1>2, <1>5, <1>16, <1>17, <1>19, CopiesAnswer

\* "exact, including an outer join's null group" (README.md:336-337): the
\* Cypher of each block of a request, outer joins walked only where something
\* reads across them and OPTIONAL beyond the filters, gives over any rows what
\* its SQL gives over them; and a block the router answers from memory, over
\* the rows recalled there, gives what the warehouse gives, where a context
\* holds the whole of it: the hops of the template, the cap and the window
\* leave out no row that the block's SQL would aggregate.
THEOREM MemoryAnswersAsSql == Spec => []SameOnMemory
<1>1. AskInv /\ RoutedInv => SameOnMemory
  <2> SUFFICES ASSUME AskInv, RoutedInv, NEW v \in Visitors, NEW b \in Compiled(v), Plain(b), StillUnique(v, b)
               PROVE  /\ Same(data, b)
                      /\ FromMemory(v) /\ StillRecalled /\ ReadOnce(b) /\ ByKey(b) => Same(memory.rows, b)
    BY DEF SameOnMemory
  <2>1. Same(data, b)
    <3>1. BlockSettled(b) /\ data \in Warehouses
      BY SettledIs
    <3> QED
      BY <3>1, SameHere DEF Same, BlockSettled
  <2>2. FromMemory(v) /\ StillRecalled /\ ReadOnce(b) /\ ByKey(b) => Same(memory.rows, b)
    BY MemoryAnswers DEF Same
  <2> QED
    BY <2>1, <2>2
<1> QED
  BY <1>1, RoutedInvariant, PTL

=============================================================================
