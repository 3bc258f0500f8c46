---------------------------- MODULE MemoryProofs ----------------------------
(***************************************************************************)
(* What the Context Memory keeps for every number of rows, readers,        *)
(* commands and grants, and for every hold and retention.                  *)
(***************************************************************************)
EXTENDS Memory, FiniteSetTheorems, WellFoundedInduction, TLAPS

\* A command's record, whichever nodes it holds rows of
JobType ==
  [pc : {"new", "look", "read", "save", "done"}, by : Reader \cup {Null},
   anchor : Node \cup {Null}, grant : SUBSET (Labels \cup Rel), at : Times,
   origin : {"memory", "virtual graph", Null}, hop : 0 .. 2,
   rows : UNION {[S -> Copied] : S \in SUBSET Node},
   capped : SUBSET Rel, source : Command \cup {Null}]

LEMMA JobTyped ==
  ASSUME NEW j
  PROVE  j \in JobType <=>
           DOMAIN j.rows \subseteq Node /\ j \in JobWith(DOMAIN j.rows)
PROOF
  <1>1. ASSUME j \in JobType
        PROVE  DOMAIN j.rows \subseteq Node /\ j \in JobWith(DOMAIN j.rows)
    <2>1. PICK S \in SUBSET Node : j.rows \in [S -> Copied]
      BY <1>1 DEF JobType
    <2>2. DOMAIN j.rows = S
      BY <2>1
    <2> QED
      BY <1>1, <2>1, <2>2 DEF JobType, JobWith
  <1>2. ASSUME DOMAIN j.rows \subseteq Node, j \in JobWith(DOMAIN j.rows)
        PROVE  j \in JobType
    <2> DEFINE S == DOMAIN j.rows
    <2>1. j.rows \in [S -> Copied] /\ S \in SUBSET Node
      BY <1>2 DEF JobWith
    <2>2. j.rows \in UNION {[T -> Copied] : T \in SUBSET Node}
      BY <2>1
    <2> QED
      BY <1>2, <2>2 DEF JobType, JobWith
  <1> QED
    BY <1>1, <1>2

LEMMA JobsTyped ==
  JobsOk <=> job \in [Command -> JobType] /\ \A c \in Command : JobOk(job[c])
PROOF
  BY JobTyped DEF JobsOk

LEMMA JobsTypedNext ==
  JobsOk' <=> job' \in [Command -> JobType]
              /\ \A c \in Command : JobOk(job[c])'
PROOF
  BY JobTyped DEF JobsOk

\* A command that reads memory or the warehouse takes rows of the right shape
LEMMA RowType ==
  ASSUME TypeOK, NEW c \in Command, job[c].pc = "read",
         NEW n \in Node, Shows(job[c], n)
  PROVE  Row(job[c], n) \in Copied
PROOF
  <1> DEFINE j == job[c]
  <1>1. j.origin \in {"memory", "virtual graph"} /\ j.at \in Times /\ now \in Times
    BY JobsTyped, JobsTypedNext DEF TypeOK, WorldOk, JobOk, JobType
  <1>2. Times \subseteq Nat
    BY TimeAssumption DEF Times
  <1>3. CASE j.origin = "memory"
    <2>1. n \in DOMAIN mem
      BY <1>3 DEF Shows, Guard
    <2>2. mem[n] \in Remembered
      BY <2>1 DEF TypeOK, MemoryOk, PartialOn
    <2> QED
      BY <1>3, <2>2 DEF Row, Copied, Remembered, Column
  <1>4. CASE j.origin # "memory"
    <2>1. wh[n] \in Column
      BY DEF TypeOK, WorldOk
    <2> QED
      BY <1>1, <1>2, <1>4, <2>1 DEF Row, Copied, Column
  <1> QED
    BY <1>3, <1>4

\* A context's rows are a function on some of the nodes
LEMMA RowsAre ==
  ASSUME NEW rows \in UNION {[S -> Copied] : S \in SUBSET Node}
  PROVE  /\ DOMAIN rows \subseteq Node
         /\ \A n \in DOMAIN rows : rows[n] \in Copied
OBVIOUS

LEMMA RowsMade ==
  ASSUME NEW rows, NEW S \in SUBSET Node, rows = [n \in S |-> rows[n]],
         \A n \in S : rows[n] \in Copied
  PROVE  rows \in UNION {[T -> Copied] : T \in SUBSET Node}
PROOF
  <1>1. rows \in [S -> Copied]
    OBVIOUS
  <1> QED
    BY <1>1

\* A hop reaches nodes only, and only those its target shows the reader
LEMMA ReachedType ==
  ASSUME TypeOK, NEW c \in Command, job[c].pc = "read"
  PROVE  /\ Reached(job[c]) \subseteq Node
         /\ \A n \in Reached(job[c]) : Shows(job[c], n)
PROOF
  <1> DEFINE j == job[c]
  <1>0. j \in JobType /\ JobOk(j)
    BY JobsTyped, JobsTypedNext DEF TypeOK
  <1>1. j.anchor \in Node /\ j.hop \in 0 .. 2
    BY <1>0 DEF JobType, JobOk
  <1>9. DOMAIN j.rows \subseteq Node /\ \A n \in DOMAIN j.rows : j.rows[n] \in Copied
    BY <1>0, RowsAre DEF JobType
  <1>2. \A types \in SUBSET Rel : Ends(j, types) \subseteq Node
    BY <1>9 DEF Ends, Copied, Column
  <1>3. \A t \in Rel : Newest(Facts(j, t)) \subseteq Node
    BY DEF Newest, Facts
  <1>4. /\ Out(Label[j.anchor], j.grant) \subseteq Rel
        /\ In(Label[j.anchor], j.grant) \subseteq Rel
        /\ Dimensions(Label[j.anchor], j.grant) \subseteq Rel
    BY DEF Out, In, Dimensions, Model
  <1>5. j.hop = 0 \/ j.hop = 1 \/ j.hop = 2
    BY <1>1
  <1>6. CASE j.hop = 0
    BY <1>1, <1>6 DEF Reached, Asked
  <1>7. CASE j.hop = 1
    BY <1>2, <1>3, <1>4, <1>7 DEF Reached, Asked
  <1>8. CASE j.hop = 2
    BY <1>2, <1>4, <1>8 DEF Reached, Asked
  <1> QED
    BY <1>5, <1>6, <1>7, <1>8

LEMMA DigestType ==
  ASSUME NEW l, NEW g PROVE Digest(l, g) \in Templates
PROOF
  <1>1. Model(g) \subseteq Rel /\ Kept(g) \subseteq Rel
    BY ShapeAssumption DEF Model, Kept
  <1>2. /\ Out(l, g) \subseteq Rel /\ In(l, g) \subseteq Rel
        /\ Dimensions(l, g) \subseteq Rel
    BY <1>1 DEF Out, In, Dimensions
  <1> QED
    BY <1>1, <1>2 DEF Digest, Templates

LEMMA LastHopRange == ASSUME NEW l, NEW g PROVE LastHop(l, g) \in 0 .. 2
PROOF
  BY DEF LastHop

\* A command's own step: the other commands' records are as they were
LEMMA OneJob ==
  ASSUME TypeOK, NEW c \in Command, now' = now,
         job' = [job EXCEPT ![c] = job'[c]],
         job'[c] \in JobType, JobOk(job'[c])
  PROVE  JobsOk'
PROOF
  BY JobsTyped, JobsTypedNext DEF TypeOK, JobOk

\* The clock only lets a command grow older
LEMMA SameJobs ==
  ASSUME TypeOK, now' \in Times, now =< now', job' = job
  PROVE  JobsOk'
PROOF
  <1>1. \A d \in Command : job[d].at \in Times /\ now \in Times
    BY JobsTyped, JobsTypedNext DEF TypeOK, WorldOk, JobType
  <1>2. \A t \in Times : t \in Nat
    BY TimeAssumption DEF Times
  <1>3. \A d \in Command : job[d].at =< now => job[d].at =< now'
    BY <1>1, <1>2
  <1> QED
    BY <1>3, JobsTyped, JobsTypedNext DEF TypeOK, JobOk

LEMMA IdleType ==
  ASSUME NEW pc \in {"new", "look", "read", "done"}
  PROVE  /\ Idle(pc) \in JobType
         /\ pc \in {"new", "done"} => JobOk(Idle(pc))
PROOF
  <1>1. 0 \in Times
    BY TimeAssumption DEF Times
  <1>2. NoRows \in UNION {[S -> Copied] : S \in SUBSET Node}
    BY DEF NoRows
  <1>3. Idle(pc) \in JobType
    BY <1>1, <1>2 DEF Idle, JobType
  <1>4. Idle(pc).pc = pc
    BY DEF Idle
  <1> QED
    BY <1>3, <1>4 DEF JobOk

LEMMA TypeInit == Init => TypeOK
PROOF
  <1> SUFFICES ASSUME Init PROVE TypeOK
    OBVIOUS
  <1>1. 0 \in Times /\ 0 \in 0 .. MaxChanges
    BY TimeAssumption DEF Times
  <1>2. WorldOk
    <2>1. wh \in [Node -> Column]
      BY TablesAssumption DEF Init
    <2>2. admits \in [Reader -> SUBSET Node]
      BY DEF Init
    <2>3. revoked \in [Reader -> [Node -> Times]]
      BY <1>1 DEF Init
    <2>4. grant \in [Reader -> SUBSET (Labels \cup Rel)]
      BY ShapeAssumption DEF Init
    <2> QED
      BY <1>1, <2>1, <2>2, <2>3, <2>4 DEF Init, WorldOk
  <1>3. MemoryOk /\ StepsOk
    BY DEF Init, MemoryOk, StepsOk, PartialOn, NoRows
  <1>4. JobsOk
    <2>1. Idle("new") \in JobType /\ JobOk(Idle("new"))
      BY IdleType
    <2> QED
      BY <2>1, JobsTyped, JobsTypedNext DEF Init
  <1>5. SweepOk
    BY DEF Init, SweepOk
  <1> QED
    BY <1>2, <1>3, <1>4, <1>5 DEF TypeOK

LEMMA BeginType ==
  ASSUME TypeOK, NEW c \in Command, Begin(c) PROVE TypeOK'
PROOF
  <1>1. PICK r \in Reader, a \in Node, force \in BOOLEAN :
          job' = [job EXCEPT ![c] =
                   [Idle(IF force THEN "read" ELSE "look") EXCEPT
                      !.by = r, !.anchor = a, !.grant = grant[r], !.at = now,
                      !.origin = IF force THEN "virtual graph" ELSE Null]]
    BY DEF Begin
  <1> DEFINE j == job'[c]
             pc == IF force THEN "read" ELSE "look"
             i == Idle(pc)
             origin == IF force THEN "virtual graph" ELSE Null
  <1>2. i \in JobType
    BY IdleType
  <1>3. j = [i EXCEPT !.by = r, !.anchor = a, !.grant = grant[r], !.at = now,
                      !.origin = origin]
    BY <1>1, JobsTyped, JobsTypedNext DEF TypeOK
  <1>4. now \in Times /\ now =< now /\ grant[r] \in SUBSET (Labels \cup Rel)
    BY TimeAssumption DEF TypeOK, WorldOk, Times
  <1>5. origin \in {"memory", "virtual graph", Null}
    OBVIOUS
  <1>6. i.pc = pc /\ i.hop = 0 /\ DOMAIN i.rows = {}
    BY DEF Idle, NoRows
  <1>7. pc = "look" \/ (pc = "read" /\ origin = "virtual graph")
    OBVIOUS
  <1>8. job' = [job EXCEPT ![c] = j]
    BY <1>1, JobsTyped, JobsTypedNext DEF TypeOK
  <1> HIDE DEF i, j, pc, origin
  <1>9. j \in JobType
    BY <1>2, <1>3, <1>4, <1>5 DEF JobType
  <1>10. JobOk(j)
    <2>1. /\ j.pc = pc /\ j.hop = 0 /\ DOMAIN j.rows = {} /\ j.origin = origin
          /\ j.by = r /\ j.anchor = a /\ j.at = now
      BY <1>2, <1>3, <1>6 DEF JobType
    <2>2. 0 =< LastHop(Label[j.anchor], j.grant)
      BY LastHopRange
    <2> QED
      BY <1>4, <1>7, <2>1, <2>2 DEF JobOk
  <1>11. JobsOk'
    BY <1>8, <1>9, <1>10, OneJob DEF j, Begin, world
  <1> QED
    BY <1>11 DEF Begin, world, TypeOK, WorldOk, MemoryOk, StepsOk, SweepOk,
                 PartialOn

LEMMA LookType ==
  ASSUME TypeOK, NEW c \in Command, Look(c) PROVE TypeOK'
PROOF
  <1> DEFINE j == job[c]
             k == job'[c]
  <1>1. j \in JobType /\ JobOk(j) /\ j.pc = "look"
    BY JobsTyped, JobsTypedNext DEF TypeOK, Look
  <1>3. j.hop = 0 /\ 0 =< LastHop(Label[j.anchor], j.grant)
    BY <1>1, LastHopRange DEF JobOk
  <1>2. k \in JobType /\ JobOk(k) /\ job' = [job EXCEPT ![c] = k]
    <2>1. CASE job' = [job EXCEPT ![c] = [j EXCEPT !.pc = "read",
                                                   !.origin = "virtual graph"]]
      BY <1>1, <1>3, <2>1, JobsTyped, JobsTypedNext DEF JobOk, TypeOK, JobType
    <2>2. ASSUME NEW f \in DOMAIN step,
                 job' = [job EXCEPT ![c] =
                          [j EXCEPT !.pc = "read", !.origin = "memory",
                                    !.source = f, !.capped = step[f].capped]]
          PROVE  <1>2!1
      <3>1. step[f].capped \subseteq Rel /\ f \in Command
        BY DEF TypeOK, StepsOk, PartialOn, StepType
      <3> QED
        BY <1>1, <1>3, <2>2, <3>1, JobsTyped, JobsTypedNext
           DEF JobOk, TypeOK, JobType
    <2> QED
      BY <2>1, <2>2 DEF Look, Fresh
  <1> HIDE DEF j, k
  <1>4. JobsOk'
    BY <1>2, OneJob DEF k, Look, world
  <1> QED
    BY <1>4 DEF Look, world, TypeOK, WorldOk, MemoryOk, StepsOk, SweepOk, PartialOn

LEMMA CappedType ==
  ASSUME TypeOK, NEW c \in Command PROVE Capped(job[c]) \in SUBSET Rel
PROOF
  <1>1. job[c].capped \in SUBSET Rel
    BY JobsTyped, JobsTypedNext DEF TypeOK, JobType
  <1>2. In(Label[job[c].anchor], job[c].grant) \subseteq Rel
    BY DEF In, Model
  <1> QED
    BY <1>1, <1>2 DEF Capped

LEMMA HopType ==
  ASSUME TypeOK, NEW c \in Command, Hop(c) PROVE TypeOK'
PROOF
  <1> DEFINE j == job[c]
             S == DOMAIN j.rows \cup Reached(j)
             rows == [n \in S |-> IF n \in DOMAIN j.rows THEN j.rows[n]
                                  ELSE Row(j, n)]
             last == LastHop(Label[j.anchor], j.grant)
             k == job'[c]
  <1>1. j \in JobType /\ JobOk(j) /\ j.pc = "read"
    BY JobsTyped, JobsTypedNext DEF TypeOK, Hop
  <1>2. /\ DOMAIN j.rows \subseteq Node
        /\ \A n \in DOMAIN j.rows : j.rows[n] \in Copied
    BY <1>1, RowsAre DEF JobType
  <1>3. /\ Reached(j) \subseteq Node
        /\ \A n \in Reached(j) : Row(j, n) \in Copied
    BY <1>1, ReachedType, RowType
  <1>4. rows \in UNION {[T -> Copied] : T \in SUBSET Node}
    <2>1. S \in SUBSET Node
      BY <1>2, <1>3
    <2>2. \A n \in S : rows[n] \in Copied
      BY <1>2, <1>3
    <2>3. rows = [n \in S |-> rows[n]]
      OBVIOUS
    <2> HIDE DEF rows, S
    <2> QED
      BY <2>1, <2>2, <2>3, RowsMade
  <1>5. Capped(j) \in SUBSET Rel
    BY CappedType
  <1>8. DOMAIN rows # {} => j.anchor \in DOMAIN rows
    <2>1. CASE j.hop = 0
      <3>1. DOMAIN j.rows = {} /\ Reached(j) \subseteq {j.anchor}
        BY <1>1, <2>1 DEF JobOk, Reached, Asked
      <3> QED
        BY <3>1
    <2>2. CASE j.hop # 0
      BY <1>1, <2>2 DEF JobOk
    <2> QED
      BY <2>1, <2>2
  <1>6. k \in JobType /\ JobOk(k) /\ job' = [job EXCEPT ![c] = k]
    <2>1. CASE Empty(rows)
      <3>1. Idle("done") \in JobType /\ JobOk(Idle("done"))
        BY IdleType
      <3> QED
        BY <2>1, <3>1, JobsTyped, JobsTypedNext DEF Hop, TypeOK
    <2>2. CASE ~Empty(rows) /\ j.hop = last
      <3>1. job' = [job EXCEPT ![c] = [j EXCEPT !.rows = rows,
                                         !.capped = Capped(j), !.pc = "save"]]
        BY <2>2 DEF Hop
      <3>2. k = [j EXCEPT !.rows = rows, !.capped = Capped(j), !.pc = "save"]
        BY <3>1, JobsTyped, JobsTypedNext DEF TypeOK
      <3>3. j.anchor \in DOMAIN rows
        BY <1>8, <2>2 DEF Empty
      <3> HIDE DEF rows, k
      <3>4. k \in JobType
        BY <1>1, <1>4, <1>5, <3>2 DEF JobType
      <3>5. JobOk(k)
        BY <1>1, <3>2, <3>3 DEF JobOk, JobType
      <3> QED
        BY <3>1, <3>2, <3>4, <3>5
    <2>3. CASE ~Empty(rows) /\ j.hop # last
      <3>1. job' = [job EXCEPT ![c] = [j EXCEPT !.rows = rows,
                                         !.capped = Capped(j), !.hop = j.hop + 1]]
        BY <2>3 DEF Hop
      <3>2. k = [j EXCEPT !.rows = rows, !.capped = Capped(j), !.hop = j.hop + 1]
        BY <3>1, JobsTyped, JobsTypedNext DEF TypeOK
      <3>3. j.hop + 1 \in 0 .. 2 /\ j.hop + 1 =< last /\ j.hop + 1 # 0
        <4>1. j.hop \in 0 .. 2 /\ j.hop =< last /\ j.hop # last
          BY <1>1, <2>3 DEF JobOk, JobType
        <4>2. last \in 0 .. 2
          BY LastHopRange
        <4> HIDE DEF last
        <4> QED
          BY <4>1, <4>2
      <3>6. j.anchor \in DOMAIN rows
        BY <1>8, <2>3 DEF Empty
      <3> HIDE DEF rows, k
      <3>4. k \in JobType
        BY <1>1, <1>4, <1>5, <3>2, <3>3 DEF JobType
      <3>5. JobOk(k)
        <4>1. /\ k.pc = "read" /\ k.hop = j.hop + 1 /\ k.rows = rows
              /\ k.by = j.by /\ k.anchor = j.anchor /\ k.grant = j.grant
              /\ k.at = j.at /\ k.origin = j.origin
          BY <1>1, <3>2 DEF JobType
        <4> QED
          BY <1>1, <3>3, <3>6, <4>1 DEF JobOk
      <3> QED
        BY <3>1, <3>2, <3>4, <3>5
    <2> QED
      BY <2>1, <2>2, <2>3
  <1> HIDE DEF j, k
  <1>7. JobsOk'
    BY <1>6, OneJob DEF k, Hop, world
  <1> QED
    BY <1>7 DEF Hop, world, TypeOK, WorldOk, MemoryOk, StepsOk, SweepOk, PartialOn

\* A command ends: its record is idle again
LEMMA EndJob ==
  ASSUME TypeOK, NEW c \in Command, now' = now,
         job' = [job EXCEPT ![c] = Idle("done")]
  PROVE  JobsOk'
PROOF
  <1>1. job'[c] = Idle("done")
    BY JobsTyped, JobsTypedNext DEF TypeOK
  <1>2. job'[c] \in JobType /\ JobOk(job'[c])
    BY <1>1, IdleType
  <1> QED
    BY <1>1, <1>2, OneJob

LEMMA MergedType ==
  ASSUME TypeOK, NEW c \in Command, NEW n \in DOMAIN job[c].rows
  PROVE  Merged(job[c], n) \in Remembered
PROOF
  <1> DEFINE j == job[c]
             old == IF n \in DOMAIN mem THEN mem[n]
                    ELSE [val |-> [t \in Rel |-> Null], asOf |-> [t \in Rel |-> 0],
                          at |-> 0, derived |-> {}]
  <1>1. j.rows[n] \in Copied
    BY RowsAre, JobsTyped, JobsTypedNext DEF TypeOK, JobType
  <1>2. old \in Remembered
    BY DEF TypeOK, MemoryOk, PartialOn, Remembered, Column
  <1>3. {t \in Model(j.grant) : Label[n] \in {Start[t], End[t]}} \subseteq Rel
    BY DEF Model
  <1> HIDE DEF j, old
  <1>4. [val |-> [t \in Rel |-> IF t \in Kept(j.grant) THEN j.rows[n].val[t]
                                                       ELSE old.val[t]],
         asOf |-> [t \in Rel |-> IF t \in Kept(j.grant) THEN j.rows[n].asOf[t]
                                                        ELSE old.asOf[t]],
         at |-> j.rows[n].at,
         derived |->
           {t \in old.derived : Start[t] = Label[n] => t \notin Kept(j.grant)}
             \cup {t \in Model(j.grant) : Label[n] \in {Start[t], End[t]}}]
          \in Remembered
    BY <1>1, <1>2, <1>3 DEF Remembered, Copied, Column
  <1> QED
    BY <1>4 DEF Merged, j, old

\* The Step a command leaves
LEMMA StepLeft ==
  ASSUME TypeOK, NEW c \in Command, job[c].pc = "save", NEW read \in SUBSET Node,
         Leaves(c, StepOf(job[c], read)), lost' \in [Command -> SUBSET Node]
  PROVE  StepsOk'
PROOF
  <1> DEFINE j == job[c]
             s == StepOf(j, read)
  <1>1. j \in JobType /\ JobOk(j)
    BY JobsTyped, JobsTypedNext DEF TypeOK
  <1>2. /\ j.by \in Reader /\ j.anchor \in Node /\ j.at \in Times
        /\ j.origin \in {"memory", "virtual graph"} /\ j.capped \in SUBSET Rel
    BY <1>1 DEF JobOk, JobType
  <1>3. DOMAIN j.rows \in SUBSET Node
    BY <1>1, RowsAre DEF JobType
  <1>4. Digest(Label[j.anchor], j.grant) \in Templates
    BY DigestType
  <1>5. s \in StepType
    BY <1>2, <1>3, <1>4 DEF StepOf, StepType
  <1>6. step' = [x \in DOMAIN step \cup {c} |-> IF x = c THEN s ELSE step[x]]
    BY DEF Leaves
  <1> HIDE DEF s
  <1> QED
    BY <1>5, <1>6 DEF TypeOK, StepsOk, PartialOn

\* What fetches lose is of what they left
LEMMA LosesType ==
  ASSUME TypeOK, NEW rows, NEW fetches \in SUBSET DOMAIN step, Loses(rows, fetches)
  PROVE  lost' \in [Command -> SUBSET Node]
PROOF
  <1>1. \A d \in Command : lost[d] \subseteq Node
    BY DEF TypeOK, StepsOk
  <1>2. \A d \in fetches : step[d].got \subseteq Node
    BY DEF TypeOK, StepsOk, PartialOn, StepType
  <1> QED
    BY <1>1, <1>2 DEF Loses

LEMMA RememberType ==
  ASSUME TypeOK, NEW c \in Command, Remember(c) PROVE TypeOK'
PROOF
  <1> DEFINE j == job[c]
             D == DOMAIN j.rows
  <1>1. j \in JobType /\ JobOk(j) /\ j.pc = "save"
    BY JobsTyped, JobsTypedNext DEF TypeOK, Remember
  <1>2. D \subseteq Node
    BY <1>1, RowsAre DEF JobType
  <1>3. mem' = [n \in DOMAIN mem \cup D |->
                 IF n \in D THEN Merged(j, n) ELSE mem[n]]
    BY DEF Remember
  <1>4. PartialOn(mem', Node, Remembered)
    BY <1>2, <1>3, MergedType DEF TypeOK, MemoryOk, PartialOn
  <1>5. rels' \subseteq Node \X Rel \X Node
    <2>1. rels' = (rels \ Replaced(j)) \cup Derived(j, mem')
      BY DEF Remember
    <2>2. Derived(j, mem') \subseteq Node \X Rel \X Node
      BY <1>4 DEF Derived, PartialOn, Model
    <2> QED
      BY <2>1, <2>2 DEF TypeOK, MemoryOk
  <1>6. StepsOk'
    <2>1. {j.anchor} \cup {n \in D : Label[n] \in Policied} \in SUBSET Node
      BY <1>1, <1>2 DEF JobOk
    <2>2. lost' \in [Command -> SUBSET Node]
      BY LosesType DEF Remember
    <2> QED
      BY <1>1, <2>1, <2>2, StepLeft DEF Remember
  <1>7. JobsOk'
    BY EndJob DEF Remember, world
  <1> QED
    BY <1>4, <1>5, <1>6, <1>7 DEF Remember, world, TypeOK, WorldOk, MemoryOk, SweepOk

LEMMA RecordType ==
  ASSUME TypeOK, NEW c \in Command, Record(c) PROVE TypeOK'
PROOF
  <1>1. {job[c].anchor} \cap DOMAIN mem \in SUBSET Node
    BY DEF TypeOK, MemoryOk, PartialOn
  <1>2. StepsOk'
    BY <1>1, StepLeft DEF Record, TypeOK, StepsOk
  <1>3. JobsOk'
    BY EndJob DEF Record, world
  <1> QED
    BY <1>2, <1>3 DEF Record, world, TypeOK, WorldOk, MemoryOk, SweepOk, PartialOn

LEMMA KillType ==
  ASSUME TypeOK, NEW c \in Command, Kill(c) PROVE TypeOK'
PROOF
  <1>1. JobsOk'
    BY EndJob DEF Kill, world
  <1> QED
    BY <1>1 DEF Kill, world, TypeOK, WorldOk, MemoryOk, StepsOk, SweepOk, PartialOn

LEMMA SweepType == ASSUME TypeOK, Sweep PROVE TypeOK'
PROOF
  <1>1. CASE SweepMatch
    <2>1. JobsOk'
      BY <1>1, JobsTyped, JobsTypedNext DEF SweepMatch, world, TypeOK, JobOk
    <2> QED
      BY <1>1, <2>1 DEF SweepMatch, world, Expired, TypeOK, WorldOk, MemoryOk,
                        StepsOk, SweepOk, PartialOn
  <1>2. CASE SweepDelete
    <2>1. PICK batch \in (SUBSET sweep.matched) \ {{}} :
            /\ mem' = [n \in DOMAIN mem \ batch |-> mem[n]]
            /\ rels' = Detached(batch)
            /\ step' = [c \in DOMAIN step |->
                          [step[c] EXCEPT !.read = step[c].read \ batch]]
            /\ sweep' = IF batch = sweep.matched
                          THEN [pc |-> "idle", matched |-> {}]
                          ELSE [sweep EXCEPT !.matched = sweep.matched \ batch]
            /\ Loses(batch, DOMAIN step)
      BY <1>2 DEF SweepDelete
    <2>2. MemoryOk'
      BY <2>1 DEF TypeOK, MemoryOk, PartialOn, Detached
    <2>3. StepsOk'
      <3>1. \A c \in DOMAIN step :
              [step[c] EXCEPT !.read = step[c].read \ batch] \in StepType
        BY DEF TypeOK, StepsOk, PartialOn, StepType
      <3>2. lost' \in [Command -> SUBSET Node]
        BY <2>1, LosesType
      <3> QED
        BY <2>1, <3>1, <3>2 DEF TypeOK, StepsOk, PartialOn
    <2>4. SweepOk'
      BY <2>1 DEF TypeOK, SweepOk
    <2>5. JobsOk'
      BY <1>2, JobsTyped, JobsTypedNext DEF SweepDelete, world, TypeOK, JobOk
    <2> QED
      BY <1>2, <2>2, <2>3, <2>4, <2>5 DEF SweepDelete, world, TypeOK, WorldOk
  <1>3. CASE SweepFail
    <2>1. JobsOk'
      BY <1>3, JobsTyped, JobsTypedNext DEF SweepFail, TypeOK, JobOk
    <2>2. changes' \in 0 .. MaxChanges
      BY <1>3, TimeAssumption DEF SweepFail, TypeOK, WorldOk
    <2> QED
      BY <1>3, <2>1, <2>2 DEF SweepFail, TypeOK, WorldOk, MemoryOk,
                              StepsOk, SweepOk, PartialOn
  <1> QED
    BY <1>1, <1>2, <1>3 DEF Sweep

\* What the world's steps leave alone
LEMMA WorldKeeps ==
  ASSUME TypeOK, World
  PROVE  UNCHANGED <<mem, rels, step, job, sweep, lost>>
PROOF
  BY DEF World, Tick, WarehouseWrite, Admit, Revoke, Regrant, Change

LEMMA WorldType == ASSUME TypeOK, World PROVE TypeOK'
PROOF
  <1>1. UNCHANGED <<mem, rels, step, job, sweep, lost>>
    BY WorldKeeps
  <1>2. now \in Times /\ now =< now
    BY TimeAssumption DEF TypeOK, WorldOk, Times
  <1>3. Change => changes' \in 0 .. MaxChanges
    BY TimeAssumption DEF Change, TypeOK, WorldOk
  <1>4. WorldOk' /\ now' \in Times /\ now =< now'
    <2>1. CASE Tick
      BY <2>1, TimeAssumption DEF Tick, TypeOK, WorldOk, Times
    <2>2. CASE WarehouseWrite
      BY <1>2, <1>3, <2>2 DEF WarehouseWrite, TypeOK, WorldOk, Column
    <2>3. CASE Admit
      BY <1>2, <1>3, <2>3 DEF Admit, TypeOK, WorldOk
    <2>4. CASE Revoke
      BY <1>2, <1>3, <2>4 DEF Revoke, TypeOK, WorldOk
    <2>5. CASE Regrant
      <3>1. \A r \in Reader : \A g \in Grants[r] : g \in SUBSET (Labels \cup Rel)
        BY ShapeAssumption
      <3> QED
        BY <1>2, <1>3, <2>5, <3>1 DEF Regrant, TypeOK, WorldOk
    <2> QED
      BY <2>1, <2>2, <2>3, <2>4, <2>5 DEF World
  <1>5. JobsOk'
    BY <1>1, <1>4, SameJobs
  <1> QED
    BY <1>1, <1>4, <1>5 DEF TypeOK, MemoryOk, StepsOk, SweepOk, PartialOn

LEMMA TypeStep == TypeOK /\ [Next]_vars => TypeOK'
PROOF
  <1> SUFFICES ASSUME TypeOK, [Next]_vars PROVE TypeOK'
    OBVIOUS
  <1>1. ASSUME NEW c \in Command, Recall(c) PROVE TypeOK'
    BY <1>1, BeginType, LookType, HopType, RememberType, RecordType, KillType
    DEF Recall
  <1>2. CASE Sweep
    BY <1>2, SweepType
  <1>3. CASE World
    BY <1>3, WorldType
  <1>4. CASE UNCHANGED vars
    <2>1. UNCHANGED <<wh, admits, revoked, grant, now, changes, mem, rels, step,
                      job, sweep, lost>>
      BY <1>4 DEF vars, world
    <2> QED
      BY <2>1, JobsTyped, JobsTypedNext
         DEF TypeOK, WorldOk, MemoryOk, StepsOk, JobOk, SweepOk,
                  PartialOn
  <1> QED
    BY <1>1, <1>2, <1>3, <1>4 DEF Next

\* Every variable keeps its type, and no command goes on without what it needs: a
\* reader, an anchor, its target, and the anchor's row before it saves
THEOREM TypeCorrect == Spec => []TypeOK
PROOF
  BY TypeInit, TypeStep, PTL DEF Spec

-----------------------------------------------------------------------------
(* Relationships: each is its start's column, whatever wrote the two nodes *)

RelationshipsInv == TypeOK /\ RelationshipsJoin /\ RelationshipsMatch

\* What a write makes of a node: a column its model keeps is the row's, another is
\* as it was; and what it derived is what its model has, and what was derived
\* before of columns it did not write
LEMMA MergedIs ==
  ASSUME NEW j, NEW n, NEW t \in Rel
  PROVE  /\ t \in Merged(j, n).derived /\ t \notin Model(j.grant) =>
              n \in DOMAIN mem /\ t \in mem[n].derived
         /\ /\ t \in Merged(j, n).derived /\ t \notin Model(j.grant)
            /\ Start[t] = Label[n]
            => Merged(j, n).val[t] = mem[n].val[t]
PROOF
  <1> DEFINE old == IF n \in DOMAIN mem THEN mem[n]
                    ELSE [val |-> [x \in Rel |-> Null], asOf |-> [x \in Rel |-> 0],
                          at |-> 0, derived |-> {}]
             derived ==
               {x \in old.derived : Start[x] = Label[n] => x \notin Kept(j.grant)}
                 \cup {x \in Model(j.grant) : Label[n] \in {Start[x], End[x]}}
             val == [x \in Rel |-> IF x \in Kept(j.grant) THEN j.rows[n].val[x]
                                                          ELSE old.val[x]]
  <1>1. Merged(j, n).derived = derived /\ Merged(j, n).val = val
    BY DEF Merged
  <1>2. t \in derived /\ t \notin Model(j.grant) =>
          t \in old.derived /\ (Start[t] = Label[n] => t \notin Kept(j.grant))
    OBVIOUS
  <1>3. t \in old.derived => n \in DOMAIN mem /\ old = mem[n]
    OBVIOUS
  <1>4. t \notin Kept(j.grant) => val[t] = old.val[t]
    OBVIOUS
  <1> HIDE DEF old, derived, val
  <1> QED
    BY <1>1, <1>2, <1>3, <1>4

LEMMA RelationshipsRemember ==
  ASSUME RelationshipsInv, NEW c \in Command, Remember(c)
  PROVE  (RelationshipsJoin /\ RelationshipsMatch)'
PROOF
  <1> DEFINE j == job[c]
             D == DOMAIN j.rows
             M == Model(j.grant)
  <1>1. mem' = [n \in DOMAIN mem \cup D |->
                 IF n \in D THEN Merged(j, n) ELSE mem[n]]
    BY DEF Remember
  <1>2. rels' = (rels \ Replaced(j)) \cup Derived(j, mem')
    BY DEF Remember
  <1>3. rels \subseteq Node \X Rel \X Node /\ M \subseteq Rel
    BY DEF RelationshipsInv, TypeOK, MemoryOk, Model
  <1>4. ASSUME NEW e \in Derived(j, mem')
        PROVE  /\ e[1] \in DOMAIN mem' /\ e[3] \in DOMAIN mem'
               /\ mem'[e[1]].val[e[2]] = e[3]
    BY DEF Derived
  <1>5. ASSUME NEW e \in rels, e \notin Replaced(j)
        PROVE  e[1] \in DOMAIN mem /\ e[3] \in DOMAIN mem
               /\ (e[1] \in D => e[2] \notin M)
    <2>1. e[1] \in DOMAIN mem /\ e[3] \in DOMAIN mem
      BY DEF RelationshipsInv, RelationshipsJoin
    <2>2. ~(e[1] \in D /\ e[2] \in M)
      BY <1>5 DEF Replaced
    <2> QED
      BY <2>1, <2>2
  <1>6. RelationshipsJoin'
    BY <1>1, <1>2, <1>4, <1>5 DEF RelationshipsJoin
  <1>7. RelationshipsNamed'
    <2> SUFFICES ASSUME NEW e \in rels', Start[e[2]] = Label[e[1]],
                        e[2] \in mem'[e[1]].derived
                 PROVE  mem'[e[1]].val[e[2]] = e[3]
      BY DEF RelationshipsNamed
    <2>1. CASE e \in Derived(j, mem')
      BY <1>4, <2>1
    <2>2. CASE e \notin Derived(j, mem')
      <3>1. e \in rels /\ e \notin Replaced(j)
        BY <1>2, <2>2
      <3>2. e[2] \in Rel /\ e[1] \in DOMAIN mem
        BY <1>3, <1>5, <3>1
      <3>3. e[2] \in mem[e[1]].derived => mem[e[1]].val[e[2]] = e[3]
        BY <3>1 DEF RelationshipsInv, RelationshipsMatch, RelationshipsNamed
      <3>4. CASE e[1] \in D
        <4>1. mem'[e[1]] = Merged(j, e[1]) /\ e[2] \notin M
          BY <1>1, <1>5, <3>1, <3>4
        <4>2. e[2] \in mem[e[1]].derived
              /\ Merged(j, e[1]).val[e[2]] = mem[e[1]].val[e[2]]
          BY <3>2, <4>1, MergedIs
        <4> QED
          BY <3>3, <4>1, <4>2
      <3>5. CASE e[1] \notin D
        BY <1>1, <3>2, <3>3, <3>5
      <3> QED
        BY <3>4, <3>5
    <2> QED
      BY <2>1, <2>2
  <1>8. RelationshipsFound'
    <2> SUFFICES ASSUME NEW a \in DOMAIN mem', NEW b \in DOMAIN mem',
                        NEW t \in mem'[a].derived \cap mem'[b].derived,
                        Start[t] = Label[a], mem'[a].val[t] = b
                 PROVE  <<a, t, b>> \in rels'
      BY DEF RelationshipsFound
    <2>1. t \in Rel
      BY RememberType DEF RelationshipsInv, TypeOK, MemoryOk, PartialOn, Remembered
    <2>2. CASE t \in M /\ (a \in D \/ b \in D)
      BY <1>2, <2>2 DEF Derived
    <2>3. CASE t \notin M
      <3>1. ASSUME NEW n \in DOMAIN mem', t \in mem'[n].derived
            PROVE  /\ n \in DOMAIN mem /\ t \in mem[n].derived
                   /\ Start[t] = Label[n] => mem'[n].val[t] = mem[n].val[t]
        <4>1. CASE n \in D
          BY <1>1, <2>1, <2>3, <3>1, <4>1, MergedIs
        <4>2. CASE n \notin D
          BY <1>1, <3>1, <4>2
        <4> QED
          BY <4>1, <4>2
      <3>2. <<a, t, b>> \in rels
        BY <3>1 DEF RelationshipsInv, RelationshipsMatch, RelationshipsFound
      <3> QED
        BY <1>2, <2>3, <3>2 DEF Replaced
    <2>4. CASE t \in M /\ a \notin D /\ b \notin D
      <3>1. <<a, t, b>> \in rels
        BY <1>1, <2>4 DEF RelationshipsInv, RelationshipsMatch, RelationshipsFound
      <3> QED
        BY <1>2, <2>4, <3>1 DEF Replaced
    <2> QED
      BY <2>2, <2>3, <2>4
  <1> QED
    BY <1>6, <1>7, <1>8 DEF RelationshipsMatch

LEMMA RelationshipsSweep ==
  ASSUME RelationshipsInv, SweepDelete
  PROVE  (RelationshipsJoin /\ RelationshipsMatch)'
PROOF
  <1>1. PICK batch \in (SUBSET sweep.matched) \ {{}} :
          /\ mem' = [n \in DOMAIN mem \ batch |-> mem[n]]
          /\ rels' = {e \in rels : e[1] \notin batch /\ e[3] \notin batch}
    BY DEF SweepDelete, Detached
  <1>2. RelationshipsJoin'
    BY <1>1 DEF RelationshipsInv, RelationshipsJoin
  <1>3. RelationshipsNamed'
    BY <1>1 DEF RelationshipsInv, RelationshipsJoin, RelationshipsMatch,
                RelationshipsNamed
  <1>4. RelationshipsFound'
    <2> SUFFICES ASSUME NEW a \in DOMAIN mem', NEW b \in DOMAIN mem',
                        NEW t \in mem'[a].derived \cap mem'[b].derived,
                        Start[t] = Label[a], mem'[a].val[t] = b
                 PROVE  <<a, t, b>> \in rels'
      BY DEF RelationshipsFound
    <2>1. /\ a \in DOMAIN mem \ batch /\ b \in DOMAIN mem \ batch
          /\ mem'[a] = mem[a] /\ mem'[b] = mem[b]
      BY <1>1
    <2>2. <<a, t, b>> \in rels
      BY <2>1 DEF RelationshipsInv, RelationshipsMatch, RelationshipsFound
    <2> QED
      BY <1>1, <2>1, <2>2
  <1> QED
    BY <1>2, <1>3, <1>4 DEF RelationshipsMatch

LEMMA RelationshipsStep ==
  RelationshipsInv /\ [Next]_vars => RelationshipsInv'
PROOF
  <1> SUFFICES ASSUME RelationshipsInv, [Next]_vars PROVE RelationshipsInv'
    OBVIOUS
  <1>1. TypeOK'
    BY TypeStep DEF RelationshipsInv
  <1>2. CASE UNCHANGED <<mem, rels>>
    BY <1>1, <1>2 DEF RelationshipsInv, RelationshipsJoin, RelationshipsMatch,
                      RelationshipsNamed, RelationshipsFound
  <1>3. ASSUME NEW c \in Command, Remember(c) PROVE RelationshipsInv'
    BY <1>1, <1>3, RelationshipsRemember DEF RelationshipsInv
  <1>4. CASE SweepDelete
    BY <1>1, <1>4, RelationshipsSweep DEF RelationshipsInv
  <1>5. ASSUME NEW c \in Command, Recall(c), ~Remember(c)
        PROVE  UNCHANGED <<mem, rels>>
    BY <1>5 DEF Recall, Begin, Look, Hop, Record, Kill
  <1>6. CASE SweepMatch \/ SweepFail
    BY <1>2, <1>6 DEF SweepMatch, SweepFail
  <1>7. CASE World
    BY <1>2, <1>7, WorldKeeps DEF RelationshipsInv
  <1>8. CASE UNCHANGED vars
    BY <1>2, <1>8 DEF vars
  <1> QED
    BY <1>2, <1>3, <1>4, <1>5, <1>6, <1>7, <1>8 DEF Next, Sweep

LEMMA RelationshipsHold == Spec => []RelationshipsInv
PROOF
  <1>1. Init => RelationshipsInv
    BY TypeInit DEF Init, NoRows, RelationshipsInv, RelationshipsJoin,
                    RelationshipsMatch, RelationshipsNamed, RelationshipsFound
  <1> QED
    BY <1>1, RelationshipsStep, PTL DEF Spec

\* No step of any reader, and no sweep, leaves a relationship dangling; and among
\* copies whose columns a model with the relationship wrote, memory has each
\* relationship exactly where the start's column names the end
THEOREM RelationshipsFollowed == Spec => []RelationshipsFollow
PROOF
  <1>1. RelationshipsInv => RelationshipsFollow
    BY DEF RelationshipsInv, RelationshipsFollow
  <1> QED
    BY <1>1, RelationshipsHold, PTL

-----------------------------------------------------------------------------
(* Revocation: what a reader may no longer see, memory soon no longer shows *)

\* The warehouse let the reader see the node at some moment from this time on
Allowed(r, n, time) == n \in admits[r] \/ time =< revoked[r][n]

\* ... or did within the hold that this time ends
AllowedWithin(r, n, time) ==
  n \in admits[r] \/ time < revoked[r][n] + SeenHold(Label[n])

\* Every Step of a fetch, and every fetch under way, holds only what its reader was
\* let see since it began; every read of memory only what they were within the hold
RevocationInv ==
  /\ TypeOK
  /\ \A c \in DOMAIN step :
       /\ step[c].at =< now
       /\ Fetched(c) => \A n \in step[c].read :
            Label[n] \in Policied => Allowed(step[c].by, n, step[c].at)
  /\ \A c \in Command : job[c].pc \in {"read", "save"} =>
       \A n \in DOMAIN job[c].rows : Label[n] \in Policied =>
         IF job[c].origin = "memory"
           THEN AllowedWithin(job[c].by, n, job[c].at)
           ELSE Allowed(job[c].by, n, job[c].at)

LEMMA SeenHoldPositive ==
  ASSUME NEW n \in Node PROVE SeenHold(Label[n]) \in Nat \ {0}
PROOF
  BY ShapeAssumption, TimeAssumption DEF SeenHold

LEMMA TimesAreNat == Times \subseteq Nat
PROOF
  BY TimeAssumption DEF Times

\* What a hop newly takes, its reader was let see: the warehouse lets them now, or
\* a Step of theirs that still holds read it
LEMMA ShownIsAllowed ==
  ASSUME RevocationInv, NEW c \in Command, job[c].pc = "read",
         NEW n \in Reached(job[c]), Label[n] \in Policied
  PROVE  IF job[c].origin = "memory"
           THEN AllowedWithin(job[c].by, n, job[c].at)
           ELSE Allowed(job[c].by, n, job[c].at)
PROOF
  <1> DEFINE j == job[c]
  <1>1. n \in Node /\ Shows(j, n)
    BY ReachedType DEF RevocationInv
  <1>2. j.by \in Reader /\ j.at \in Nat
    BY TimesAreNat, JobsTyped, JobsTypedNext
       DEF RevocationInv, TypeOK, JobOk, JobType
  <1>3. CASE j.origin # "memory"
    BY <1>1, <1>3 DEF Shows, Allowed
  <1>4. CASE j.origin = "memory"
    <2>1. PICK f \in DOMAIN step :
            /\ step[f].by = j.by /\ Fetched(f) /\ n \in step[f].read
            /\ j.at < step[f].at + SeenHold(Label[n])
      BY <1>1, <1>4 DEF Shows, Guard, Seen
    <2>2. Allowed(j.by, n, step[f].at)
      BY <2>1 DEF RevocationInv
    <2>3. step[f].at \in Nat
      BY TimesAreNat DEF RevocationInv, TypeOK, StepsOk, PartialOn, StepType
    <2>4. revoked[j.by][n] \in Nat
      BY <1>1, <1>2, TimesAreNat DEF RevocationInv, TypeOK, WorldOk
    <2>5. SeenHold(Label[n]) \in Nat
      BY <1>1, SeenHoldPositive
    <2>6. step[f].at =< revoked[j.by][n] =>
            j.at < revoked[j.by][n] + SeenHold(Label[n])
      BY <1>2, <2>1, <2>3, <2>4, <2>5
    <2> QED
      BY <1>4, <2>2, <2>6 DEF Allowed, AllowedWithin
  <1> QED
    BY <1>3, <1>4

LEMMA RevocationHop ==
  ASSUME RevocationInv, NEW c \in Command, Hop(c) PROVE RevocationInv'
PROOF
  <1> DEFINE j == job[c]
             k == job'[c]
  <1>1. TypeOK'
    BY HopType DEF RevocationInv
  <1>2. UNCHANGED <<step, now, admits, revoked>>
    BY DEF Hop, world
  <1>3. job[c].pc = "read" /\ job \in [Command -> JobType]
    BY JobsTyped, JobsTypedNext DEF Hop, RevocationInv, TypeOK
  <1>4. \A d \in Command \ {c} : job'[d] = job[d]
    BY <1>3 DEF Hop
  <1>5. \/ k.pc = "done"
        \/ /\ k.by = j.by /\ k.at = j.at /\ k.origin = j.origin
           /\ \A n \in DOMAIN k.rows : n \in DOMAIN j.rows \/ n \in Reached(j)
    <2>1. j \in JobType
      BY <1>3
    <2> DEFINE rows == [n \in DOMAIN j.rows \cup Reached(j) |->
                          IF n \in DOMAIN j.rows THEN j.rows[n] ELSE Row(j, n)]
    <2>2. \/ k = Idle("done")
          \/ k = [j EXCEPT !.rows = rows, !.capped = Capped(j), !.pc = "save"]
          \/ k = [j EXCEPT !.rows = rows, !.capped = Capped(j), !.hop = j.hop + 1]
      BY <1>3 DEF Hop
    <2>3. DOMAIN rows = DOMAIN j.rows \cup Reached(j)
      OBVIOUS
    <2>4. Idle("done").pc = "done"
      BY DEF Idle
    <2> HIDE DEF rows
    <2> QED
      BY <2>1, <2>2, <2>3, <2>4 DEF JobType
  <1>6. \A n \in DOMAIN k.rows : k.pc # "done" /\ Label[n] \in Policied =>
          IF k.origin = "memory" THEN AllowedWithin(k.by, n, k.at)
                                 ELSE Allowed(k.by, n, k.at)
    BY <1>3, <1>5, ShownIsAllowed DEF RevocationInv
  <1> HIDE DEF k
  <1>7. \A d \in Command : job'[d].pc \in {"read", "save"} =>
          \A n \in DOMAIN job'[d].rows : Label[n] \in Policied =>
            IF job'[d].origin = "memory"
              THEN AllowedWithin(job'[d].by, n, job'[d].at)
              ELSE Allowed(job'[d].by, n, job'[d].at)
    BY <1>4, <1>6 DEF RevocationInv, k
  <1> QED
    BY <1>1, <1>2, <1>7 DEF RevocationInv, Allowed, AllowedWithin, Fetched

\* A command that begins, looks or ends holds no rows of its own yet, or any more
LEMMA RevocationNoRows ==
  ASSUME RevocationInv, NEW c \in Command,
         Begin(c) \/ Look(c) \/ Kill(c)
  PROVE  RevocationInv'
PROOF
  <1>1. TypeOK'
    BY BeginType, LookType, KillType DEF RevocationInv
  <1>2. UNCHANGED <<step, now, admits, revoked>>
    BY DEF Begin, Look, Kill, world
  <1>3. job \in [Command -> JobType] /\ \A d \in Command : JobOk(job[d])
    BY JobsTyped, JobsTypedNext DEF RevocationInv, TypeOK
  <1>4. \A d \in Command \ {c} : job'[d] = job[d]
    BY <1>3 DEF Begin, Look, Kill
  <1>5. job'[c].pc \in {"read", "save"} => DOMAIN job'[c].rows = {}
    <2>1. CASE Begin(c)
      <3>1. PICK r \in Reader, a \in Node, force \in BOOLEAN :
              job' = [job EXCEPT ![c] =
                        [Idle(IF force THEN "read" ELSE "look") EXCEPT
                           !.by = r, !.anchor = a, !.grant = grant[r], !.at = now,
                           !.origin = IF force THEN "virtual graph" ELSE Null]]
        BY <2>1 DEF Begin
      <3> DEFINE i == Idle(IF force THEN "read" ELSE "look")
                 origin == IF force THEN "virtual graph" ELSE Null
      <3>2. i \in JobType
        BY IdleType
      <3>3. DOMAIN i.rows = {}
        BY DEF Idle, NoRows
      <3>4. job'[c] = [i EXCEPT !.by = r, !.anchor = a, !.grant = grant[r],
                                !.at = now, !.origin = origin]
        BY <1>3, <3>1
      <3> HIDE DEF i, origin
      <3>5. job'[c].rows = i.rows
        BY <3>2, <3>4 DEF JobType
      <3> QED
        BY <3>3, <3>5
    <2>2. CASE Look(c)
      <3>1. job[c] \in JobType /\ DOMAIN job[c].rows = {}
        BY <1>3, <2>2 DEF Look, JobOk
      <3>2. \/ job'[c] = [job[c] EXCEPT !.pc = "read", !.origin = "virtual graph"]
            \/ \E f \in DOMAIN step :
                 job'[c] = [job[c] EXCEPT !.pc = "read", !.origin = "memory",
                              !.source = f, !.capped = step[f].capped]
        BY <1>3, <2>2 DEF Look, Fresh
      <3>3. job'[c].rows = job[c].rows
        BY <3>1, <3>2 DEF JobType
      <3> QED
        BY <3>1, <3>3
    <2>3. CASE Kill(c)
      BY <1>3, <2>3 DEF Kill, Idle
    <2> QED
      BY <2>1, <2>2, <2>3
  <1> QED
    BY <1>1, <1>2, <1>4, <1>5 DEF RevocationInv, Allowed, AllowedWithin, Fetched

\* A Step a command leaves reads what the command was shown
LEMMA RevocationSave ==
  ASSUME RevocationInv, NEW c \in Command, Remember(c) \/ Record(c)
  PROVE  RevocationInv'
PROOF
  <1> DEFINE j == job[c]
             s == step'[c]
  <1>1. TypeOK'
    BY RememberType, RecordType DEF RevocationInv
  <1>2. UNCHANGED <<now, admits, revoked>>
    BY DEF Remember, Record, world
  <1>3. job \in [Command -> JobType] /\ JobOk(j) /\ j.pc = "save"
    BY JobsTyped, JobsTypedNext DEF Remember, Record, RevocationInv, TypeOK
  <1>4. PICK read \in SUBSET Node :
          /\ step' = [x \in DOMAIN step \cup {c} |->
                        IF x = c THEN StepOf(j, read) ELSE step[x]]
          /\ j.origin = "memory" \/ \A n \in read : Label[n] \in Policied =>
                                                      n \in DOMAIN j.rows
    <2>1. CASE Remember(c)
      <3> DEFINE read == {j.anchor} \cup {n \in DOMAIN j.rows : Label[n] \in Policied}
      <3>1. j.anchor \in DOMAIN j.rows /\ DOMAIN j.rows \subseteq Node
        BY <1>3, RowsAre DEF JobOk, JobType
      <3>2. read \in SUBSET Node /\ \A n \in read : n \in DOMAIN j.rows
        BY <3>1
      <3>3. Leaves(c, StepOf(j, read))
        BY <2>1 DEF Remember
      <3> QED
        BY <3>2, <3>3 DEF Leaves
    <2>2. CASE Record(c)
      <3>1. {j.anchor} \cap DOMAIN mem \in SUBSET Node
        BY DEF RevocationInv, TypeOK, MemoryOk, PartialOn
      <3> QED
        BY <2>2, <3>1 DEF Record, Leaves
    <2> QED
      BY <2>1, <2>2
  <1>5. /\ s.by = j.by /\ s.at = j.at /\ s.origin = j.origin /\ s.read = read
        /\ DOMAIN step' = DOMAIN step \cup {c}
        /\ \A x \in DOMAIN step \ {c} : step'[x] = step[x]
    BY <1>4 DEF StepOf
  <1>6. j.at =< now
    BY <1>3 DEF JobOk
  <1>7. s.origin = "virtual graph" =>
          \A n \in s.read : Label[n] \in Policied => Allowed(s.by, n, s.at)
    BY <1>3, <1>4, <1>5 DEF RevocationInv
  <1>8. \A d \in Command :
          job'[d] = job[d] \/ job'[d].pc = "done"
    <2>1. job' = [job EXCEPT ![c] = Idle("done")]
      BY DEF Remember, Record
    <2>2. Idle("done").pc = "done"
      BY DEF Idle
    <2> QED
      BY <1>3, <2>1, <2>2
  <1> HIDE DEF s
  <1>9. \A x \in DOMAIN step' :
          /\ step'[x].at =< now
          /\ step'[x].origin = "virtual graph" => \A n \in step'[x].read :
               Label[n] \in Policied => Allowed(step'[x].by, n, step'[x].at)
    BY <1>5, <1>6, <1>7 DEF RevocationInv, Fetched, s
  <1> QED
    BY <1>1, <1>2, <1>8, <1>9 DEF RevocationInv, Allowed, AllowedWithin, Fetched

LEMMA RevocationSweep == ASSUME RevocationInv, Sweep PROVE RevocationInv'
PROOF
  <1>1. TypeOK'
    BY SweepType DEF RevocationInv
  <1>2. UNCHANGED <<now, admits, revoked, job>>
    BY DEF Sweep, SweepMatch, SweepDelete, SweepFail, world
  <1>3. /\ DOMAIN step' = DOMAIN step
        /\ \A c \in DOMAIN step :
             /\ step'[c].by = step[c].by /\ step'[c].at = step[c].at
             /\ step'[c].origin = step[c].origin
             /\ step'[c].read \subseteq step[c].read
    <2>1. CASE step' = step
      BY <2>1
    <2>2. CASE SweepDelete
      <3>1. PICK batch : step' = [c \in DOMAIN step |->
                           [step[c] EXCEPT !.read = step[c].read \ batch]]
        BY <2>2 DEF SweepDelete
      <3>2. \A c \in DOMAIN step : step[c] \in StepType
        BY DEF RevocationInv, TypeOK, StepsOk, PartialOn
      <3> QED
        BY <3>1, <3>2 DEF StepType
    <2> QED
      BY <2>1, <2>2 DEF Sweep, SweepMatch, SweepFail
  <1> QED
    BY <1>1, <1>2, <1>3 DEF RevocationInv, Allowed, AllowedWithin, Fetched

\* Time and the world's changes: a row that is revoked is revoked now
LEMMA RevocationWorld == ASSUME RevocationInv, World PROVE RevocationInv'
PROOF
  <1>1. TypeOK' /\ UNCHANGED <<step, job>>
    BY WorldType, WorldKeeps DEF RevocationInv
  <1>2. now \in Nat /\ now' \in Nat /\ now =< now'
    <2>1. now \in Nat
      BY TimesAreNat DEF RevocationInv, TypeOK, WorldOk
    <2> QED
      BY <2>1 DEF World, Tick, WarehouseWrite, Admit, Revoke, Regrant
  <1>3. \A r \in Reader, n \in Node : \A time \in Nat :
          time =< now /\ Allowed(r, n, time) => Allowed(r, n, time)'
    <2>1. CASE UNCHANGED <<admits, revoked>>
      BY <2>1 DEF Allowed
    <2>2. CASE Admit
      BY <2>2 DEF Admit, Allowed, RevocationInv, TypeOK, WorldOk
    <2>3. CASE Revoke
      BY <2>3 DEF Revoke, Allowed, RevocationInv, TypeOK, WorldOk
    <2> QED
      BY <2>1, <2>2, <2>3 DEF World, Tick, WarehouseWrite, Regrant
  <1>4. \A r \in Reader, n \in Node : \A time \in Nat :
          time =< now /\ AllowedWithin(r, n, time) => AllowedWithin(r, n, time)'
    <2>1. CASE UNCHANGED <<admits, revoked>>
      BY <2>1 DEF AllowedWithin
    <2>2. CASE Admit
      BY <2>2 DEF Admit, AllowedWithin, RevocationInv, TypeOK, WorldOk
    <2>3. CASE Revoke
      <3>1. ASSUME NEW n \in Node, NEW time \in Nat, time =< now
            PROVE  time < now + SeenHold(Label[n])
        BY <1>2, <3>1, SeenHoldPositive
      <3> QED
        BY <2>3, <3>1 DEF Revoke, AllowedWithin, RevocationInv, TypeOK, WorldOk
    <2> QED
      BY <2>1, <2>2, <2>3 DEF World, Tick, WarehouseWrite, Regrant
  <1>5. \A c \in DOMAIN step :
          /\ step[c].by \in Reader /\ step[c].at \in Nat /\ step[c].read \subseteq Node
          /\ step[c].at =< now /\ step[c].at =< now'
    <2>1. \A c \in DOMAIN step :
            step[c].by \in Reader /\ step[c].at \in Nat /\ step[c].read \subseteq Node
      BY TimesAreNat DEF RevocationInv, TypeOK, StepsOk, PartialOn, StepType
    <2>2. \A c \in DOMAIN step : step[c].at =< now
      BY DEF RevocationInv
    <2> QED
      BY <1>2, <2>1, <2>2
  <1>6. \A c \in Command : job[c].pc \in {"read", "save"} =>
          /\ job[c].by \in Reader /\ job[c].at \in Nat /\ job[c].at =< now
          /\ DOMAIN job[c].rows \subseteq Node
    BY TimesAreNat, RowsAre, JobsTyped, JobsTypedNext
       DEF RevocationInv, TypeOK, JobOk, JobType
  <1>7. \A c \in DOMAIN step : Fetched(c) => \A n \in step[c].read :
          Label[n] \in Policied => Allowed(step[c].by, n, step[c].at)'
    BY <1>1, <1>3, <1>5 DEF RevocationInv, Allowed
  <1>8. \A c \in Command : job[c].pc \in {"read", "save"} =>
          \A n \in DOMAIN job[c].rows : Label[n] \in Policied =>
            IF job[c].origin = "memory"
              THEN AllowedWithin(job[c].by, n, job[c].at)'
              ELSE Allowed(job[c].by, n, job[c].at)'
    BY <1>1, <1>3, <1>4, <1>6 DEF RevocationInv, Allowed, AllowedWithin
  <1> QED
    BY <1>1, <1>5, <1>7, <1>8 DEF RevocationInv, Allowed, AllowedWithin, Fetched

LEMMA RevocationStep == RevocationInv /\ [Next]_vars => RevocationInv'
PROOF
  <1> SUFFICES ASSUME RevocationInv, [Next]_vars PROVE RevocationInv'
    OBVIOUS
  <1>1. ASSUME NEW c \in Command, Recall(c) PROVE RevocationInv'
    BY <1>1, RevocationNoRows, RevocationHop, RevocationSave DEF Recall
  <1>2. CASE Sweep
    BY <1>2, RevocationSweep
  <1>3. CASE World
    BY <1>3, RevocationWorld
  <1>4. CASE UNCHANGED vars
    <2>1. TypeOK'
      BY TypeStep DEF RevocationInv
    <2>2. UNCHANGED <<step, job, now, admits, revoked>>
      BY <1>4 DEF vars, world
    <2> QED
      BY <2>1, <2>2 DEF RevocationInv, Allowed, AllowedWithin, Fetched
  <1> QED
    BY <1>1, <1>2, <1>3, <1>4 DEF Next

\* Memory shows a reader no policied row the warehouse stopped letting them see
\* longer ago than its hold, whatever other readers fetched, wrote and swept since
THEOREM RevocationIsBounded == Spec => []RevocationBounded
PROOF
  <1>1. Init => RevocationInv
    <2>1. Init => DOMAIN step = {} /\ \A c \in Command : job[c].pc = "new"
      BY DEF Init, Idle
    <2> QED
      BY <2>1, TypeInit DEF RevocationInv
  <1>2. RevocationInv => RevocationBounded
    BY DEF RevocationInv, RevocationBounded, Delivers, AllowedWithin
  <1> QED
    BY <1>1, <1>2, RevocationStep, PTL DEF Spec

-----------------------------------------------------------------------------
(* What each step of a command does to its record *)

LEMMA BeginEffect ==
  ASSUME TypeOK, NEW c \in Command, Begin(c)
  PROVE  /\ \E r \in Reader, a \in Node :
              /\ Label[a] \in grant[r]
              /\ job'[c].by = r /\ job'[c].anchor = a
              /\ job'[c].grant = grant[r] /\ job'[c].at = now
         /\ job'[c].hop = 0 /\ DOMAIN job'[c].rows = {}
         /\ \/ job'[c].pc = "look"
            \/ job'[c].pc = "read" /\ job'[c].origin = "virtual graph"
         /\ \A d \in Command \ {c} : job'[d] = job[d]
PROOF
  <1>1. PICK r \in Reader, a \in Node, force \in BOOLEAN :
          /\ Label[a] \in grant[r]
          /\ job' = [job EXCEPT ![c] =
                      [Idle(IF force THEN "read" ELSE "look") EXCEPT
                         !.by = r, !.anchor = a, !.grant = grant[r], !.at = now,
                         !.origin = IF force THEN "virtual graph" ELSE Null]]
    BY DEF Begin
  <1> DEFINE pc == IF force THEN "read" ELSE "look"
             i == Idle(pc)
             origin == IF force THEN "virtual graph" ELSE Null
  <1>2. i \in JobType
    BY IdleType
  <1>3. DOMAIN i.rows = {} /\ i.hop = 0 /\ i.pc = pc
    BY DEF Idle, NoRows
  <1>4. job \in [Command -> JobType]
    BY JobsTyped DEF TypeOK
  <1>5. /\ job'[c] = [i EXCEPT !.by = r, !.anchor = a, !.grant = grant[r],
                               !.at = now, !.origin = origin]
        /\ \A d \in Command \ {c} : job'[d] = job[d]
    BY <1>1, <1>4
  <1>6. pc = "look" \/ (pc = "read" /\ origin = "virtual graph")
    BY Zenon
  <1> HIDE DEF i, origin, pc
  <1>7. /\ job'[c].by = r /\ job'[c].anchor = a /\ job'[c].grant = grant[r]
        /\ job'[c].at = now /\ job'[c].origin = origin
        /\ job'[c].hop = i.hop /\ job'[c].rows = i.rows /\ job'[c].pc = i.pc
    BY <1>2, <1>5 DEF JobType
  <1> QED
    BY <1>1, <1>3, <1>5, <1>6, <1>7

\* A command that goes on for the same reader, with the same model, at its time
GoesOn(j, k) ==
  /\ k.by = j.by /\ k.anchor = j.anchor /\ k.grant = j.grant /\ k.at = j.at

LEMMA LookEffect ==
  ASSUME TypeOK, NEW c \in Command, Look(c)
  PROVE  /\ job[c].pc = "look" /\ job'[c].pc = "read"
         /\ GoesOn(job[c], job'[c]) /\ job'[c].hop = 0
         /\ DOMAIN job'[c].rows = {}
         /\ \/ job'[c].origin = "virtual graph"
            \/ /\ job'[c].origin = "memory"
               /\ job'[c].source \in
                    Fresh(job[c].by, job[c].anchor,
                          Digest(Label[job[c].anchor], job[c].grant), job[c].at)
         /\ \A d \in Command \ {c} : job'[d] = job[d]
PROOF
  <1> DEFINE j == job[c]
             fresh == Fresh(j.by, j.anchor, Digest(Label[j.anchor], j.grant), j.at)
  <1>1. job \in [Command -> JobType] /\ JobOk(j) /\ j.pc = "look"
    BY JobsTyped DEF TypeOK, Look
  <1>2. j \in JobType /\ j.hop = 0 /\ DOMAIN j.rows = {}
    BY <1>1 DEF JobOk
  <1> HIDE DEF fresh
  <1>3. CASE job' = [job EXCEPT ![c] = [j EXCEPT !.pc = "read",
                                                 !.origin = "virtual graph"]]
    <2>1. /\ job'[c] = [j EXCEPT !.pc = "read", !.origin = "virtual graph"]
          /\ \A d \in Command \ {c} : job'[d] = job[d]
      BY <1>1, <1>3
    <2> QED
      BY <1>1, <1>2, <2>1 DEF JobType, GoesOn
  <1>4. ASSUME NEW f \in fresh,
               job' = [job EXCEPT ![c] =
                        [j EXCEPT !.pc = "read", !.origin = "memory",
                                  !.source = f, !.capped = step[f].capped]]
        PROVE  /\ job'[c].pc = "read" /\ GoesOn(j, job'[c])
               /\ job'[c].hop = 0 /\ DOMAIN job'[c].rows = {}
               /\ job'[c].origin = "memory" /\ job'[c].source \in fresh
               /\ \A d \in Command \ {c} : job'[d] = job[d]
    <2>1. /\ job'[c] = [j EXCEPT !.pc = "read", !.origin = "memory",
                                 !.source = f, !.capped = step[f].capped]
          /\ \A d \in Command \ {c} : job'[d] = job[d]
      BY <1>1, <1>4
    <2> QED
      BY <1>1, <1>2, <1>4, <2>1 DEF JobType, GoesOn
  <1>5. \/ <1>3!1
        \/ \E f \in fresh : job' = [job EXCEPT ![c] =
                              [j EXCEPT !.pc = "read", !.origin = "memory",
                                        !.source = f, !.capped = step[f].capped]]
    BY DEF Look, fresh
  <1> QED
    BY <1>1, <1>3, <1>4, <1>5 DEF fresh

\* The rows a command has after a hop: those it had, and those it reached
HopRows(j) == [n \in DOMAIN j.rows \cup Reached(j) |->
                 IF n \in DOMAIN j.rows THEN j.rows[n] ELSE Row(j, n)]

LEMMA HopEffect ==
  ASSUME TypeOK, NEW c \in Command, Hop(c)
  PROVE  /\ job[c].pc = "read"
         /\ \/ job'[c].pc = "done" /\ HopRows(job[c]) = [n \in {} |-> Null]
            \/ /\ GoesOn(job[c], job'[c])
               /\ job'[c].origin = job[c].origin
               /\ job'[c].source = job[c].source
               /\ job'[c].rows = HopRows(job[c])
               /\ IF job[c].hop = LastHop(Label[job[c].anchor], job[c].grant)
                    THEN job'[c].pc = "save" /\ job'[c].hop = job[c].hop
                    ELSE job'[c].pc = "read" /\ job'[c].hop = job[c].hop + 1
         /\ \A d \in Command \ {c} : job'[d] = job[d]
PROOF
  <1> DEFINE j == job[c]
             rows == HopRows(j)
             last == LastHop(Label[j.anchor], j.grant)
  <1>1. job \in [Command -> JobType] /\ j \in JobType /\ j.pc = "read"
    BY JobsTyped DEF TypeOK, Hop
  <1>2. \/ Empty(rows) /\ job' = [job EXCEPT ![c] = Idle("done")]
        \/ /\ j.hop = last
           /\ job' = [job EXCEPT ![c] = [j EXCEPT !.rows = rows,
                                           !.capped = Capped(j), !.pc = "save"]]
        \/ /\ j.hop # last
           /\ job' = [job EXCEPT ![c] = [j EXCEPT !.rows = rows,
                                           !.capped = Capped(j), !.hop = j.hop + 1]]
    BY DEF Hop, HopRows
  <1>3. Idle("done").pc = "done"
    BY DEF Idle
  <1>4. Empty(rows) => rows = [n \in {} |-> Null]
    BY DEF HopRows, Empty
  <1> HIDE DEF rows, last
  <1>5. CASE Empty(rows) /\ job' = [job EXCEPT ![c] = Idle("done")]
    BY <1>1, <1>3, <1>4, <1>5 DEF rows
  <1>6. CASE /\ j.hop = last
             /\ job' = [job EXCEPT ![c] = [j EXCEPT !.rows = rows,
                                             !.capped = Capped(j), !.pc = "save"]]
    <2>1. /\ job'[c] = [j EXCEPT !.rows = rows, !.capped = Capped(j), !.pc = "save"]
          /\ \A d \in Command \ {c} : job'[d] = job[d]
      BY <1>1, <1>6
    <2> QED
      BY <1>1, <1>6, <2>1 DEF JobType, GoesOn, rows, last
  <1>7. CASE /\ j.hop # last
             /\ job' = [job EXCEPT ![c] = [j EXCEPT !.rows = rows,
                                             !.capped = Capped(j), !.hop = j.hop + 1]]
    <2>1. /\ job'[c] = [j EXCEPT !.rows = rows, !.capped = Capped(j),
                                 !.hop = j.hop + 1]
          /\ \A d \in Command \ {c} : job'[d] = job[d]
      BY <1>1, <1>7
    <2> QED
      BY <1>1, <1>7, <2>1 DEF JobType, GoesOn, rows, last
  <1> QED
    BY <1>2, <1>5, <1>6, <1>7

LEMMA EndEffect ==
  ASSUME TypeOK, NEW c \in Command, Remember(c) \/ Record(c) \/ Kill(c)
  PROVE  /\ job'[c].pc = "done"
         /\ \A d \in Command \ {c} : job'[d] = job[d]
PROOF
  <1>1. job \in [Command -> JobType]
    BY JobsTyped DEF TypeOK
  <1>2. job' = [job EXCEPT ![c] = Idle("done")]
    BY DEF Remember, Record, Kill
  <1>3. job'[c] = Idle("done") /\ \A d \in Command \ {c} : job'[d] = job[d]
    BY <1>1, <1>2
  <1> QED
    BY <1>3 DEF Idle
-----------------------------------------------------------------------------
(* Facts that hold: the readers of a table read the same of its columns *)

\* Every grant a reader may have
Granted == UNION {Grants[r] : r \in Reader}

\* Whoever may read a table reads the same of its columns; which tables each reads
\* may differ.  Without it a reader's fetch stamps a row anew and leaves what the
\* reader may not read of it as it was
TablesReadAlike ==
  \A g, h \in Granted : \A t \in Kept(g) : Start[t] \in h => t \in Kept(h)

\* A column some reader's model keeps
Watched(t) == \E g \in Granted : t \in Kept(g)

\* A row's values are its own table's, each a node of the column's end
Fits(val, n) ==
  \A t \in Rel : val[t] # Null => Start[t] = Label[n] /\ Label[val[t]] = End[t]

\* A row is no younger than any value it has of a column somebody reads
Current(row, n) ==
  \A t \in Rel : Watched(t) /\ Start[t] = Label[n] => row.at =< row.asOf[t]

\* A row a command holds is of a table its reader may read, and current; one it
\* read from memory still held when the command began
RowHeld(j, n) ==
  /\ Label[n] \in j.grant
  /\ Fits(j.rows[n].val, n) /\ Current(j.rows[n], n)
  /\ j.origin = "memory" =>
       Label[n] \in Frozen \/ j.at < j.rows[n].at + Hold[Label[n]]

JobHeld(j) ==
  j.pc \in {"look", "read", "save"} =>
    /\ j.grant \in Granted /\ Label[j.anchor] \in j.grant
    /\ \A n \in DOMAIN j.rows : RowHeld(j, n)

MemoryHeld ==
  \A n \in DOMAIN mem : Fits(mem[n].val, n) /\ Current(mem[n], n)

HeldInv ==
  /\ TypeOK
  /\ \A n \in Node : Fits(wh[n], n)
  /\ \A r \in Reader : grant[r] \in Grants[r]
  /\ MemoryHeld
  /\ \A c \in Command : JobHeld(job[c])

\* What a reader's model keeps of a table they read is all anybody reads of it
LEMMA WatchedIsKept ==
  ASSUME TablesReadAlike, NEW g \in Granted, NEW t, Watched(t), Start[t] \in g
  PROVE  t \in Kept(g)
PROOF
  BY DEF TablesReadAlike, Watched

\* The ends of the model's relationships are of tables the reader may read
LEMMA EndsReadable ==
  ASSUME NEW j, NEW types, types \subseteq Model(j.grant),
         \A n \in DOMAIN j.rows : Fits(j.rows[n].val, n),
         NEW e \in Ends(j, types)
  PROVE  Label[e] \in j.grant
PROOF
  <1>1. PICK n \in DOMAIN j.rows, t \in types : e = j.rows[n].val[t] /\ e # Null
    BY DEF Ends
  <1>2. t \in Rel /\ End[t] \in j.grant
    BY DEF Model
  <1> QED
    BY <1>1, <1>2 DEF Fits

LEMMA FactsReadable ==
  ASSUME NEW j, NEW t \in Model(j.grant), NEW n \in Newest(Facts(j, t))
  PROVE  Label[n] \in j.grant
PROOF
  BY DEF Newest, Facts, Model

LEMMA ReachedReadable ==
  ASSUME HeldInv, NEW c \in Command, job[c].pc = "read", NEW n \in Reached(job[c])
  PROVE  Label[n] \in job[c].grant
PROOF
  <1> DEFINE j == job[c]
             l == Label[j.anchor]
  <1>1. j \in JobType /\ JobHeld(j)
    BY JobsTyped DEF HeldInv, TypeOK
  <1>2. Label[j.anchor] \in j.grant /\ \A m \in DOMAIN j.rows : Fits(j.rows[m].val, m)
    BY <1>1 DEF JobHeld, RowHeld
  <1>3. n \in Asked(j)
    BY DEF Reached
  <1>4. /\ Out(l, j.grant) \subseteq Model(j.grant)
        /\ In(l, j.grant) \subseteq Model(j.grant)
        /\ Dimensions(l, j.grant) \subseteq Model(j.grant)
    BY DEF Out, In, Dimensions
  <1>5. \/ n = j.anchor
        \/ n \in Ends(j, Out(l, j.grant))
        \/ \E t \in In(l, j.grant) : n \in Newest(Facts(j, t))
        \/ n \in Ends(j, Dimensions(l, j.grant))
    BY <1>3 DEF Asked
  <1> HIDE DEF j, l
  <1> QED
    BY <1>2, <1>4, <1>5, EndsReadable, FactsReadable DEF j

\* A row a command takes now is as young as its values, and held by memory still
LEMMA ReachedHeld ==
  ASSUME HeldInv, TablesReadAlike,
         NEW c \in Command, job[c].pc = "read", NEW n \in Reached(job[c])
  PROVE  /\ Fits(Row(job[c], n).val, n) /\ Current(Row(job[c], n), n)
         /\ job[c].origin = "memory" =>
              Label[n] \in Frozen \/ job[c].at < Row(job[c], n).at + Hold[Label[n]]
PROOF
  <1> DEFINE j == job[c]
  <1>1. j \in JobType /\ JobHeld(j) /\ JobOk(j)
    BY JobsTyped DEF HeldInv, TypeOK
  <1>2. n \in Node /\ Shows(j, n) /\ Label[n] \in j.grant
    BY ReachedType, ReachedReadable DEF HeldInv
  <1>3. j.grant \in Granted /\ j.at =< now
    BY <1>1 DEF JobHeld, JobOk
  <1>4. CASE j.origin = "memory"
    <2>1. n \in DOMAIN mem /\ Holds(n, j.at)
      BY <1>2, <1>4 DEF Shows, Guard
    <2>2. Fits(mem[n].val, n) /\ Current(mem[n], n)
      BY <2>1 DEF HeldInv, MemoryHeld
    <2>3. /\ Row(j, n).at = mem[n].at /\ Row(j, n).asOf = mem[n].asOf
          /\ \A t \in Rel : Row(j, n).val[t] # Null => Row(j, n).val[t] = mem[n].val[t]
      BY <1>4 DEF Row
    <2> QED
      BY <2>1, <2>2, <2>3 DEF Fits, Current, Holds
  <1>5. CASE j.origin # "memory"
    <2>1. Fits(wh[n], n)
      BY <1>2 DEF HeldInv
    <2>2. /\ Row(j, n).at = j.at
          /\ \A t \in Rel : Row(j, n).val[t] # Null => Row(j, n).val[t] = wh[n][t]
          /\ \A t \in Rel : t \in Kept(j.grant) /\ Start[t] = Label[n] =>
                              Row(j, n).asOf[t] = now
      BY <1>5 DEF Row
    <2>3. \A t \in Rel : Watched(t) /\ Start[t] = Label[n] => t \in Kept(j.grant)
      BY <1>2, <1>3, WatchedIsKept
    <2> QED
      BY <1>3, <1>5, <2>1, <2>2, <2>3 DEF Fits, Current
  <1> QED
    BY <1>4, <1>5

\* A write leaves each node it writes as young as its values
LEMMA MergedHeld ==
  ASSUME TypeOK, MemoryHeld, TablesReadAlike,
         NEW c \in Command, job[c].pc = "save", JobHeld(job[c]),
         NEW n \in DOMAIN job[c].rows
  PROVE  Fits(Merged(job[c], n).val, n) /\ Current(Merged(job[c], n), n)
PROOF
  <1> DEFINE j == job[c]
             m == Merged(j, n)
             old == IF n \in DOMAIN mem THEN mem[n]
                    ELSE [val |-> [t \in Rel |-> Null], asOf |-> [t \in Rel |-> 0],
                          at |-> 0, derived |-> {}]
  <1>1. /\ j.grant \in Granted /\ Label[n] \in j.grant
        /\ Fits(j.rows[n].val, n) /\ Current(j.rows[n], n)
    BY DEF JobHeld, RowHeld
  <1>2. \A t \in Rel : Watched(t) /\ Start[t] = Label[n] => t \in Kept(j.grant)
    BY <1>1, WatchedIsKept
  <1>3. /\ m.at = j.rows[n].at
        /\ \A t \in Rel : t \in Kept(j.grant) => m.asOf[t] = j.rows[n].asOf[t]
        /\ \A t \in Rel : m.val[t] = IF t \in Kept(j.grant) THEN j.rows[n].val[t]
                                                           ELSE old.val[t]
    BY DEF Merged
  <1>4. \A t \in Rel : old.val[t] # Null => n \in DOMAIN mem /\ old = mem[n]
    OBVIOUS
  <1>5. n \in DOMAIN mem => Fits(mem[n].val, n)
    BY DEF MemoryHeld
  <1>6. Current(m, n)
    BY <1>1, <1>2, <1>3 DEF Current
  <1> HIDE DEF m, old
  <1>7. Fits(m.val, n)
    BY <1>1, <1>3, <1>4, <1>5 DEF Fits
  <1> QED
    BY <1>6, <1>7 DEF m

LEMMA HeldBegin ==
  ASSUME HeldInv, NEW c \in Command, Begin(c) PROVE HeldInv'
PROOF
  <1>1. TypeOK' /\ UNCHANGED <<wh, grant, mem>>
    BY BeginType DEF HeldInv, Begin, world
  <1>2. /\ \E r \in Reader, a \in Node :
             /\ Label[a] \in grant[r]
             /\ job'[c].anchor = a /\ job'[c].grant = grant[r]
        /\ DOMAIN job'[c].rows = {}
        /\ \A d \in Command \ {c} : job'[d] = job[d]
    BY BeginEffect DEF HeldInv
  <1>3. JobHeld(job'[c])
    BY <1>2 DEF HeldInv, JobHeld, Granted
  <1> QED
    BY <1>1, <1>2, <1>3 DEF HeldInv, MemoryHeld

LEMMA HeldLook ==
  ASSUME HeldInv, NEW c \in Command, Look(c) PROVE HeldInv'
PROOF
  <1>1. TypeOK' /\ UNCHANGED <<wh, grant, mem>>
    BY LookType DEF HeldInv, Look, world
  <1>2. /\ job[c].pc = "look"
        /\ GoesOn(job[c], job'[c]) /\ DOMAIN job'[c].rows = {}
        /\ \A d \in Command \ {c} : job'[d] = job[d]
    BY LookEffect DEF HeldInv
  <1>3. JobHeld(job'[c])
    BY <1>2 DEF HeldInv, JobHeld, GoesOn
  <1> QED
    BY <1>1, <1>2, <1>3 DEF HeldInv, MemoryHeld

LEMMA HeldHop ==
  ASSUME HeldInv, TablesReadAlike, NEW c \in Command, Hop(c) PROVE HeldInv'
PROOF
  <1> DEFINE j == job[c]
             k == job'[c]
  <1>1. TypeOK' /\ UNCHANGED <<wh, grant, mem>>
    BY HopType DEF HeldInv, Hop, world
  <1>2. /\ j.pc = "read"
        /\ \/ k.pc = "done"
           \/ GoesOn(j, k) /\ k.origin = j.origin /\ k.rows = HopRows(j)
        /\ \A d \in Command \ {c} : job'[d] = job[d]
    BY HopEffect DEF HeldInv
  <1>3. JobHeld(j)
    BY DEF HeldInv
  <1>4. ASSUME GoesOn(j, k), k.origin = j.origin, k.rows = HopRows(j)
        PROVE  JobHeld(k)
    <2>1. k.grant \in Granted /\ Label[k.anchor] \in k.grant
      BY <1>2, <1>3, <1>4 DEF JobHeld, GoesOn
    <2>2. ASSUME NEW n \in DOMAIN k.rows PROVE RowHeld(k, n)
      <3>1. CASE n \in DOMAIN j.rows
        <4>1. k.rows[n] = j.rows[n] /\ RowHeld(j, n)
          BY <1>2, <1>3, <1>4, <3>1 DEF JobHeld, HopRows
        <4> QED
          BY <1>4, <4>1 DEF RowHeld, GoesOn
      <3>2. CASE n \notin DOMAIN j.rows
        <4>1. n \in Reached(j) /\ k.rows[n] = Row(j, n)
          BY <1>4, <2>2, <3>2 DEF HopRows
        <4>2. Label[n] \in j.grant
          BY <1>2, <4>1, ReachedReadable
        <4> QED
          BY <1>2, <1>4, <4>1, <4>2, ReachedHeld DEF RowHeld, GoesOn
      <3> QED
        BY <3>1, <3>2
    <2> HIDE DEF k
    <2> QED
      BY <2>1, <2>2 DEF JobHeld
  <1>5. k.pc = "done" => JobHeld(k)
    BY DEF JobHeld
  <1>6. JobHeld(k)
    BY <1>2, <1>4, <1>5
  <1> QED
    BY <1>1, <1>2, <1>6 DEF HeldInv, MemoryHeld

LEMMA HeldEnd ==
  ASSUME HeldInv, TablesReadAlike, NEW c \in Command,
         Remember(c) \/ Record(c) \/ Kill(c)
  PROVE  HeldInv'
PROOF
  <1>1. TypeOK' /\ UNCHANGED <<wh, grant>>
    BY RememberType, RecordType, KillType DEF HeldInv, Remember, Record, Kill, world
  <1>2. job'[c].pc = "done" /\ \A d \in Command \ {c} : job'[d] = job[d]
    BY EndEffect DEF HeldInv
  <1>3. JobHeld(job'[c])
    BY <1>2 DEF JobHeld
  <1>4. MemoryHeld'
    <2>1. CASE Remember(c)
      <3>1. /\ job[c].pc = "save"
            /\ mem' = [n \in DOMAIN mem \cup DOMAIN job[c].rows |->
                         IF n \in DOMAIN job[c].rows THEN Merged(job[c], n)
                                                     ELSE mem[n]]
        BY <2>1 DEF Remember
      <3>2. \A n \in DOMAIN job[c].rows :
              Fits(Merged(job[c], n).val, n) /\ Current(Merged(job[c], n), n)
        BY <3>1, MergedHeld DEF HeldInv
      <3>3. \A n \in DOMAIN mem : Fits(mem[n].val, n) /\ Current(mem[n], n)
        BY DEF HeldInv, MemoryHeld
      <3> QED
        BY <3>1, <3>2, <3>3 DEF MemoryHeld
    <2>2. CASE mem' = mem
      BY <2>2 DEF HeldInv, MemoryHeld
    <2> QED
      BY <2>1, <2>2 DEF Record, Kill
  <1> QED
    BY <1>1, <1>2, <1>3, <1>4 DEF HeldInv

LEMMA HeldSweep == ASSUME HeldInv, Sweep PROVE HeldInv'
PROOF
  <1>1. TypeOK' /\ UNCHANGED <<wh, grant, job>>
    BY SweepType DEF HeldInv, Sweep, SweepMatch, SweepDelete, SweepFail, world
  <1>2. DOMAIN mem' \subseteq DOMAIN mem /\ \A n \in DOMAIN mem' : mem'[n] = mem[n]
    BY DEF Sweep, SweepMatch, SweepDelete, SweepFail
  <1> QED
    BY <1>1, <1>2 DEF HeldInv, MemoryHeld

LEMMA HeldWorld == ASSUME HeldInv, World PROVE HeldInv'
PROOF
  <1>1. TypeOK' /\ UNCHANGED <<mem, job>>
    BY WorldType, WorldKeeps DEF HeldInv
  <1>2. \A n \in Node : Fits(wh'[n], n)
    <2>1. CASE wh' = wh
      BY <2>1 DEF HeldInv
    <2>2. CASE WarehouseWrite
      <3>1. PICK m \in Node, t \in Rel, v \in Node \cup {Null} :
              /\ Label[m] = Start[t] /\ (v # Null => Label[v] = End[t])
              /\ wh' = [wh EXCEPT ![m][t] = v]
        BY <2>2 DEF WarehouseWrite
      <3>2. wh \in [Node -> Column]
        BY DEF HeldInv, TypeOK, WorldOk
      <3>3. \A n \in Node, x \in Rel :
              wh'[n][x] = wh[n][x] \/ (n = m /\ x = t /\ wh'[n][x] = v)
        BY <3>1, <3>2 DEF Column
      <3> QED
        BY <3>1, <3>3 DEF HeldInv, Fits
    <2> QED
      BY <2>1, <2>2 DEF World, Tick, Admit, Revoke, Regrant
  <1>3. \A r \in Reader : grant'[r] \in Grants[r]
    <2>1. grant \in [Reader -> SUBSET (Labels \cup Rel)]
      BY DEF HeldInv, TypeOK, WorldOk
    <2>2. CASE grant' = grant
      BY <2>2 DEF HeldInv
    <2>3. CASE Regrant
      BY <2>1, <2>3 DEF Regrant, HeldInv
    <2> QED
      BY <2>2, <2>3 DEF World, Tick, WarehouseWrite, Admit, Revoke
  <1> QED
    BY <1>1, <1>2, <1>3 DEF HeldInv, MemoryHeld

LEMMA HeldStep ==
  ASSUME TablesReadAlike PROVE HeldInv /\ [Next]_vars => HeldInv'
PROOF
  <1> SUFFICES ASSUME HeldInv, [Next]_vars PROVE HeldInv'
    OBVIOUS
  <1>1. ASSUME NEW c \in Command, Recall(c) PROVE HeldInv'
    BY <1>1, HeldBegin, HeldLook, HeldHop, HeldEnd DEF Recall
  <1>2. CASE Sweep
    BY <1>2, HeldSweep
  <1>3. CASE World
    BY <1>3, HeldWorld
  <1>4. CASE UNCHANGED vars
    <2>1. TypeOK' /\ UNCHANGED <<wh, grant, mem, job>>
      BY <1>4, TypeStep DEF HeldInv, vars, world
    <2> QED
      BY <2>1 DEF HeldInv, MemoryHeld
  <1> QED
    BY <1>1, <1>2, <1>3, <1>4 DEF Next

LEMMA HeldInit == Init => HeldInv
PROOF
  <1> SUFFICES ASSUME Init PROVE HeldInv
    OBVIOUS
  <1>1. \A n \in Node : Fits(wh[n], n)
    BY TablesAssumption DEF Init, Fits
  <1>2. \A c \in Command : job[c].pc = "new"
    BY DEF Init, Idle
  <1>3. \A c \in Command : JobHeld(job[c])
    BY <1>2 DEF JobHeld
  <1> QED
    BY <1>1, <1>3, TypeInit DEF Init, HeldInv, MemoryHeld, NoRows

\* When whoever reads a table reads the same of its columns, every value memory
\* shows of a row was the warehouse's within its table's cadence, whoever else
\* fetched the row, however their writes overtook each other
THEOREM FactsAreHeld ==
  ASSUME TablesReadAlike PROVE Spec => []FactsHold
PROOF
  <1>1. HeldInv => FactsHold
    <2> SUFFICES ASSUME HeldInv, NEW c \in Command, Delivers(c),
                        NEW n \in DOMAIN job[c].rows,
                        NEW t \in Kept(job[c].grant),
                        Start[t] = Label[n], Label[n] \notin Frozen
                 PROVE  job[c].at < job[c].rows[n].asOf[t] + Hold[Label[n]]
      BY DEF FactsHold
    <2> DEFINE j == job[c]
               row == j.rows[n]
    <2>1. j \in JobType /\ JobHeld(j) /\ j.pc = "save" /\ j.origin = "memory"
      BY JobsTyped DEF HeldInv, TypeOK, Delivers
    <2>2. n \in Node /\ row \in Copied
      BY <2>1, RowsAre DEF JobType
    <2>3. t \in Rel /\ Watched(t)
      BY <2>1, ShapeAssumption DEF Watched, JobHeld, Kept, Model
    <2>4. row.at =< row.asOf[t] /\ j.at < row.at + Hold[Label[n]]
      BY <2>1, <2>3 DEF JobHeld, RowHeld, Current
    <2>5. row.at \in Nat /\ row.asOf[t] \in Nat /\ j.at \in Nat
      BY <2>1, <2>2, <2>3, TimesAreNat DEF Copied, JobType
    <2>6. Hold[Label[n]] \in Nat
      BY <2>2, ShapeAssumption, TimeAssumption
    <2> HIDE DEF j, row
    <2>7. j.at < row.asOf[t] + Hold[Label[n]]
      BY <2>4, <2>5, <2>6
    <2> QED
      BY <2>7 DEF j, row
  <1> QED
    BY <1>1, HeldInit, HeldStep, PTL DEF Spec
-----------------------------------------------------------------------------
(* The rest of a context: what a fetch left and nothing took *)

\* A fetch stamps its rows with when it began
RowsStamped ==
  \A c \in Command :
    job[c].pc \in {"read", "save"} /\ job[c].origin = "virtual graph" =>
      \A n \in DOMAIN job[c].rows : job[c].rows[n].at = job[c].at

\* Of the rows a fetch left, those it has not lost are in memory, no older than it
\* found them, with its reader's READs of what a policy covers
StillThere(c) ==
  \A n \in step[c].got \ lost[c] :
    /\ n \in DOMAIN mem /\ mem[n].at >= step[c].at
    /\ Label[n] \in Policied => n \in step[c].read
ContextKept == \A c \in DOMAIN step : Fetched(c) => StillThere(c)

\* A command leaves its Step when it ends
StepsEnded == \A c \in DOMAIN step : job[c].pc = "done"

RestInv == TypeOK /\ RowsStamped /\ ContextKept /\ StepsEnded

LEMMA NowIsNat == ASSUME TypeOK PROVE now \in Nat
PROOF
  BY TimesAreNat DEF TypeOK, WorldOk

LEMMA StepNumbers ==
  ASSUME TypeOK, NEW c \in DOMAIN step
  PROVE  /\ step[c] \in StepType /\ step[c].at \in Nat
         /\ step[c].got \subseteq Node /\ step[c].by \in Reader /\ c \in Command
PROOF
  BY TimesAreNat DEF TypeOK, StepsOk, PartialOn, StepType

LEMMA MemoryNumbers ==
  ASSUME TypeOK, NEW n \in DOMAIN mem PROVE n \in Node /\ mem[n].at \in Nat
PROOF
  BY DEF TypeOK, MemoryOk, PartialOn, Remembered

\* While memory and the Steps stay as they are, so does what is kept of a context
LEMMA KeptSame ==
  ASSUME UNCHANGED <<mem, step, lost>>, ContextKept PROVE ContextKept'
PROOF
  <1>1. mem' = mem /\ step' = step /\ lost' = lost
    OBVIOUS
  <1> QED
    BY <1>1 DEF ContextKept, StillThere, Fetched

LEMMA RestBegin ==
  ASSUME RestInv, NEW c \in Command, Begin(c) PROVE RestInv'
PROOF
  <1>1. TypeOK' /\ UNCHANGED <<mem, step, lost>> /\ job[c].pc = "new"
    BY BeginType DEF RestInv, Begin
  <1>2. DOMAIN job'[c].rows = {} /\ \A d \in Command \ {c} : job'[d] = job[d]
    BY BeginEffect DEF RestInv
  <1>3. RowsStamped'
    BY <1>2 DEF RestInv, RowsStamped
  <1>4. StepsEnded'
    BY <1>1, <1>2, StepNumbers DEF RestInv, StepsEnded
  <1> QED
    BY <1>1, <1>3, <1>4, KeptSame DEF RestInv

LEMMA RestLook ==
  ASSUME RestInv, NEW c \in Command, Look(c) PROVE RestInv'
PROOF
  <1>1. TypeOK' /\ UNCHANGED <<mem, step, lost>>
    BY LookType DEF RestInv, Look
  <1>2. /\ job[c].pc = "look" /\ DOMAIN job'[c].rows = {}
        /\ \A d \in Command \ {c} : job'[d] = job[d]
    BY LookEffect DEF RestInv
  <1>3. RowsStamped'
    BY <1>2 DEF RestInv, RowsStamped
  <1>4. StepsEnded'
    BY <1>1, <1>2, StepNumbers DEF RestInv, StepsEnded
  <1> QED
    BY <1>1, <1>3, <1>4, KeptSame DEF RestInv

LEMMA RestHop ==
  ASSUME RestInv, NEW c \in Command, Hop(c) PROVE RestInv'
PROOF
  <1> DEFINE j == job[c]
             k == job'[c]
  <1>1. TypeOK' /\ UNCHANGED <<mem, step, lost>>
    BY HopType DEF RestInv, Hop
  <1>2. /\ j.pc = "read"
        /\ \/ k.pc = "done"
           \/ GoesOn(j, k) /\ k.origin = j.origin /\ k.rows = HopRows(j)
        /\ \A d \in Command \ {c} : job'[d] = job[d]
    BY HopEffect DEF RestInv
  <1>3. RowsStamped'
    <2>1. k.pc # "done" /\ k.origin = "virtual graph" =>
            \A n \in DOMAIN k.rows : k.rows[n].at = k.at
      <3>1. SUFFICES ASSUME GoesOn(j, k), k.origin = j.origin, k.rows = HopRows(j),
                            j.origin = "virtual graph", NEW n \in DOMAIN k.rows
                     PROVE  k.rows[n].at = k.at
        BY <1>2
      <3>2. n \in DOMAIN j.rows => j.rows[n].at = j.at
        BY <1>2, <3>1 DEF RestInv, RowsStamped
      <3>3. Row(j, n).at = j.at
        BY <3>1 DEF Row
      <3>4. k.rows[n] = IF n \in DOMAIN j.rows THEN j.rows[n] ELSE Row(j, n)
        BY <3>1 DEF HopRows
      <3>5. k.at = j.at
        BY <3>1 DEF GoesOn
      <3> HIDE DEF j, k
      <3> QED
        BY <3>2, <3>3, <3>4, <3>5
    <2> QED
      BY <1>2, <2>1 DEF RestInv, RowsStamped
  <1>4. StepsEnded'
    BY <1>1, <1>2, StepNumbers DEF RestInv, StepsEnded
  <1> QED
    BY <1>1, <1>3, <1>4, KeptSame DEF RestInv

\* A fetch that saves leaves every other context's rows as they were, or younger, but
\* those of fetches that began after it
LEMMA RestRemember ==
  ASSUME RestInv, NEW c \in Command, Remember(c) PROVE ContextKept'
PROOF
  <1> DEFINE j == job[c]
             D == DOMAIN j.rows
  <1>1. /\ j.pc = "save" /\ j.origin = "virtual graph"
        /\ mem' = [n \in DOMAIN mem \cup D |-> IF n \in D THEN Merged(j, n)
                                                          ELSE mem[n]]
        /\ step' = [x \in DOMAIN step \cup {c} |->
                      IF x = c THEN StepOf(j, {j.anchor} \cup
                                        {n \in D : Label[n] \in Policied})
                               ELSE step[x]]
        /\ lost' = [d \in Command |-> lost[d] \cup
                      {n \in D : /\ d \in {x \in DOMAIN step : step[x].at > j.at}
                                 /\ n \in step[d].got}]
    BY DEF Remember, Leaves, Loses
  <1>2. \A n \in D : n \in DOMAIN mem' /\ mem'[n].at = j.at
    <2>1. \A n \in D : j.rows[n].at = j.at
      BY <1>1 DEF RestInv, RowsStamped
    <2>2. \A n \in D : Merged(j, n).at = j.rows[n].at
      BY DEF Merged
    <2> QED
      BY <1>1, <2>1, <2>2
  <1>3. j.at \in Nat
    BY TimesAreNat, JobsTyped DEF RestInv, TypeOK, JobType
  <1>4. ASSUME NEW d \in DOMAIN step', Fetched(d)' PROVE StillThere(d)'
    <2>1. CASE d = c
      <3>1. /\ step'[d].at = j.at /\ step'[d].got = D
            /\ \A n \in D : Label[n] \in Policied => n \in step'[d].read
        BY <1>1, <2>1 DEF StepOf
      <3> QED
        BY <1>2, <1>3, <3>1 DEF StillThere
    <2>2. CASE d # c
      <3>1. d \in DOMAIN step /\ step'[d] = step[d] /\ d \in Command
        BY <1>1, <2>2, StepNumbers DEF RestInv
      <3>2. StillThere(d)
        BY <1>4, <3>1 DEF RestInv, ContextKept, Fetched
      <3>3. \A n \in DOMAIN mem : n \in DOMAIN mem' /\ (n \notin D => mem'[n] = mem[n])
        BY <1>1
      <3>4. step[d].at \in Nat
        BY <3>1, StepNumbers DEF RestInv
      <3>5. ASSUME NEW n \in step[d].got \ lost'[d]
            PROVE  n \notin lost[d] /\ (n \in D => step[d].at =< j.at)
        <4>1. n \notin lost[d] \cup {m \in D : /\ d \in {x \in DOMAIN step :
                                                          step[x].at > j.at}
                                               /\ m \in step[d].got}
          BY <1>1, <3>1, <3>5
        <4>2. n \in D => ~(step[d].at > j.at)
          BY <3>1, <3>5, <4>1
        <4> HIDE DEF j, D
        <4> QED
          BY <1>3, <3>4, <4>1, <4>2
      <3> HIDE DEF j, D
      <3>6. ASSUME NEW n \in step[d].got \ lost'[d]
            PROVE  /\ n \in DOMAIN mem' /\ mem'[n].at >= step[d].at
                   /\ Label[n] \in Policied => n \in step[d].read
        <4>1. /\ n \in DOMAIN mem /\ mem[n].at >= step[d].at
              /\ Label[n] \in Policied => n \in step[d].read
          BY <3>2, <3>5, <3>6 DEF StillThere
        <4>2. CASE n \in D
          BY <1>2, <1>3, <3>4, <3>5, <3>6, <4>1, <4>2
        <4>3. CASE n \notin D
          BY <3>3, <4>1, <4>3
        <4> QED
          BY <4>2, <4>3
      <3> QED
        BY <3>1, <3>6 DEF StillThere
    <2> QED
      BY <2>1, <2>2
  <1> QED
    BY <1>4 DEF ContextKept

LEMMA RestEnd ==
  ASSUME RestInv, NEW c \in Command, Remember(c) \/ Record(c) \/ Kill(c)
  PROVE  RestInv'
PROOF
  <1>1. TypeOK'
    BY RememberType, RecordType, KillType DEF RestInv
  <1>2. job'[c].pc = "done" /\ \A d \in Command \ {c} : job'[d] = job[d]
    BY EndEffect DEF RestInv
  <1>3. RowsStamped'
    BY <1>2 DEF RestInv, RowsStamped
  <1>4. StepsEnded'
    <2>1. DOMAIN step' \subseteq DOMAIN step \cup {c}
      BY DEF Remember, Record, Kill, Leaves
    <2> QED
      BY <1>2, <2>1, StepNumbers DEF RestInv, StepsEnded
  <1>5. ContextKept'
    <2>1. CASE Remember(c)
      BY <2>1, RestRemember
    <2>2. CASE Record(c)
      <3>1. /\ mem' = mem /\ lost' = lost
            /\ DOMAIN step' = DOMAIN step \cup {c}
            /\ step'[c].origin = "memory"
            /\ \A d \in DOMAIN step \ {c} : step'[d] = step[d]
        BY <2>2 DEF Record, Leaves, StepOf
      <3> QED
        BY <3>1 DEF RestInv, ContextKept, StillThere, Fetched
    <2>3. CASE Kill(c)
      BY <2>3, KeptSame DEF Kill, RestInv
    <2> QED
      BY <2>1, <2>2, <2>3
  <1> QED
    BY <1>1, <1>3, <1>4, <1>5 DEF RestInv

\* What a sweep deletes, the fetches that left it lose
LEMMA RestSweep == ASSUME RestInv, Sweep PROVE RestInv'
PROOF
  <1>1. TypeOK' /\ job' = job
    BY SweepType DEF RestInv, Sweep, SweepMatch, SweepDelete, SweepFail
  <1>2. RowsStamped'
    BY <1>1 DEF RestInv, RowsStamped
  <1>3. CASE SweepMatch \/ SweepFail
    <2>1. UNCHANGED <<mem, step, lost>>
      BY <1>3 DEF SweepMatch, SweepFail
    <2>2. StepsEnded'
      BY <1>1, <2>1 DEF RestInv, StepsEnded
    <2> QED
      BY <1>1, <1>2, <2>1, <2>2, KeptSame DEF RestInv
  <1>4. CASE SweepDelete
    <2>1. PICK batch \in (SUBSET sweep.matched) \ {{}} :
            /\ mem' = [n \in DOMAIN mem \ batch |-> mem[n]]
            /\ step' = [c \in DOMAIN step |->
                          [step[c] EXCEPT !.read = step[c].read \ batch]]
            /\ lost' = [d \in Command |-> lost[d] \cup
                          {n \in batch : d \in DOMAIN step /\ n \in step[d].got}]
      BY <1>4 DEF SweepDelete, Loses
    <2>2. /\ DOMAIN step' = DOMAIN step
          /\ \A c \in DOMAIN step :
               /\ step'[c].at = step[c].at /\ step'[c].origin = step[c].origin
               /\ step'[c].got = step[c].got
               /\ step'[c].read = step[c].read \ batch
      BY <2>1, StepNumbers DEF RestInv, StepType
    <2>3. ContextKept'
      <3> SUFFICES ASSUME NEW c \in DOMAIN step, Fetched(c)',
                          NEW n \in step[c].got \ lost'[c]
                   PROVE  /\ n \in DOMAIN mem' /\ mem'[n].at >= step[c].at
                          /\ Label[n] \in Policied => n \in step'[c].read
        BY <2>2 DEF ContextKept, StillThere
      <3>1. StillThere(c) /\ c \in Command
        BY <2>2, StepNumbers DEF RestInv, ContextKept, Fetched
      <3>2. n \notin batch /\ n \notin lost[c]
        BY <2>1, <3>1
      <3> QED
        BY <2>1, <2>2, <3>1, <3>2 DEF StillThere
    <2>4. StepsEnded'
      BY <1>1, <2>2 DEF RestInv, StepsEnded
    <2> QED
      BY <1>1, <1>2, <2>3, <2>4 DEF RestInv
  <1> QED
    BY <1>3, <1>4 DEF Sweep

LEMMA RestStep == RestInv /\ [Next]_vars => RestInv'
PROOF
  <1> SUFFICES ASSUME RestInv, [Next]_vars PROVE RestInv'
    OBVIOUS
  <1>1. ASSUME NEW c \in Command, Recall(c) PROVE RestInv'
    BY <1>1, RestBegin, RestLook, RestHop, RestEnd DEF Recall
  <1>2. CASE Sweep
    BY <1>2, RestSweep
  <1>3. CASE World \/ UNCHANGED vars
    <2>1. UNCHANGED <<mem, step, job, lost>>
      BY <1>3, WorldKeeps DEF RestInv, vars
    <2>2. TypeOK'
      BY TypeStep DEF RestInv
    <2>3. RowsStamped' /\ StepsEnded'
      BY <2>1 DEF RestInv, RowsStamped, StepsEnded
    <2> QED
      BY <2>1, <2>2, <2>3, KeptSame DEF RestInv
  <1> QED
    BY <1>1, <1>2, <1>3 DEF Next

LEMMA RestInit == Init => RestInv
PROOF
  <1> SUFFICES ASSUME Init PROVE RestInv
    OBVIOUS
  <1>1. \A c \in Command : job[c].pc = "new"
    BY DEF Init, Idle
  <1>2. DOMAIN step = {}
    BY DEF Init
  <1> QED
    BY <1>1, <1>2, TypeInit DEF RestInv, RowsStamped, ContextKept, StepsEnded

\* A row that is still there is shown for as long as its context holds
LEMMA RestIsShown ==
  ASSUME RestInv, NEW c \in DOMAIN step, Fetched(c), NEW time \in Nat,
         ContextHolds(c, time), NEW n \in step[c].got \ lost[c],
         ReadLasts(c, n, time)
  PROVE  n \in DOMAIN mem /\ Guard(step[c].by, n, time)
PROOF
  <1> DEFINE s == step[c]
             hold == Hold[Label[n]]
  <1>1. n \in Node /\ s.at \in Nat
    BY StepNumbers DEF RestInv
  <1>2. hold \in Nat
    BY <1>1, ShapeAssumption, TimeAssumption
  <1>3. Label[n] \in Frozen \/ time < s.at + hold
    BY DEF ContextHolds
  <1>4. /\ n \in DOMAIN mem /\ mem[n].at >= s.at /\ mem[n].at \in Nat
        /\ Label[n] \in Policied => n \in s.read
    BY MemoryNumbers DEF RestInv, ContextKept, StillThere
  <1>5. Label[n] \in Frozen \/ time < mem[n].at + hold
    <2> HIDE DEF hold, s
    <2> QED
      BY <1>1, <1>2, <1>3, <1>4
  <1>6. Label[n] \in Policied => time < s.at + SeenHold(Label[n])
    BY <1>3 DEF SeenHold, ReadLasts
  <1>7. Label[n] \in Policied => Seen(s.by, n, time)
    BY <1>4, <1>6 DEF Seen
  <1> QED
    BY <1>4, <1>5, <1>7 DEF Guard, Holds

\* Of a context that recall would serve, memory lacks no row but those a sweep took
\* since it was fetched, and those a command that began before it stamped back; the
\* rest is shown to its reader, whatever other readers fetched into it and whatever
\* policies, grants and rows have changed, however long memory retains
THEOREM ServedRestIsWhole == Spec => []ContextRest
PROOF
  <1>1. RestInv => ContextRest
    <2> SUFFICES ASSUME RestInv, NEW c \in DOMAIN step, Served(c),
                        NEW n \in step[c].got \ lost[c], ReadLasts(c, n, now)
                 PROVE  Guard(step[c].by, n, now)
      BY DEF ContextRest
    <2>1. Fetched(c) /\ ContextHolds(c, now)
      BY DEF Served, Fresh
    <2>2. now \in Nat
      BY NowIsNat DEF RestInv
    <2> QED
      BY <2>1, <2>2, RestIsShown
  <1> QED
    BY <1>1, RestInit, RestStep, PTL DEF Spec
-----------------------------------------------------------------------------
(* Read back as fetched: what a context is, in a warehouse that stands still *)

\* Of some sets of members of a finite set, one has no other inside it
LEMMA LeastSet ==
  ASSUME NEW S, IsFiniteSet(S), NEW B, B \subseteq SUBSET S, B # {}
  PROVE  \E T \in B : \A U \in B : U \subseteq T => U = T
PROOF
  <1> DEFINE R == StrictSubsetOrdering(S)
  <1>1. IsWellFoundedOn(R, SUBSET S)
    BY FS_StrictSubsetOrderingWellFounded, FS_FiniteSubsetsOfFinite
  <1>2. PICK T \in B : \A U \in B : <<U, T>> \notin R
    <2> HIDE DEF R
    <2> QED
      BY <1>1, WFMin
  <1>3. ASSUME NEW U \in B, U \subseteq T PROVE U = T
    <2>1. <<U, T>> \notin R /\ U \in SUBSET S /\ T \in SUBSET S
      BY <1>2, <1>3
    <2> QED
      BY <1>3, <2>1 DEF StrictSubsetOrdering
  <1> QED
    BY <1>3

Newer(S, n) == {m \in S : Day[m] > Day[n]}

LEMMA NewestIs ==
  ASSUME NEW S PROVE Newest(S) = {n \in S : Cardinality(Newer(S, n)) < Cap}
PROOF
  BY DEF Newest, Newer

LEMMA NewerCount ==
  ASSUME NEW W, NEW M, IsFiniteSet(W), NEW n, Newer(M, n) \subseteq Newer(W, n)
  PROVE  /\ Cardinality(Newer(M, n)) \in Nat /\ Cardinality(Newer(W, n)) \in Nat
         /\ Cardinality(Newer(M, n)) =< Cardinality(Newer(W, n))
PROOF
  <1>1. Newer(W, n) \in SUBSET W
    BY DEF Newer
  <1>2. IsFiniteSet(Newer(W, n))
    BY <1>1, FS_Subset
  <1>3. /\ IsFiniteSet(Newer(M, n))
        /\ Cardinality(Newer(M, n)) =< Cardinality(Newer(W, n))
    BY <1>2, FS_Subset
  <1> QED
    BY <1>2, <1>3, FS_CardinalityType

\* What is not among the newest has the newest of them all before it
LEMMA NewestBefore ==
  ASSUME NEW W \in SUBSET Node, IsFiniteSet(W), NEW n \in W, n \notin Newest(W)
  PROVE  \E m \in W :
           /\ Day[m] >= Day[n] /\ m \notin Newest(W)
           /\ Newer(W, m) \subseteq Newest(W)
PROOF
  <1> DEFINE A == {m \in W : Day[m] >= Day[n] /\ m \notin Newest(W)}
             B == {Newer(W, m) : m \in A}
  <1>1. \A m \in Node : Day[m] \in Nat
    BY TimeAssumption
  <1>2. n \in A
    BY <1>1
  <1>3. B # {} /\ B \subseteq SUBSET W
    BY <1>2 DEF Newer
  <1>4. PICK T \in B : \A U \in B : U \subseteq T => U = T
    <2> HIDE DEF B
    <2> QED
      BY <1>3, LeastSet
  <1>5. PICK m \in A : T = Newer(W, m)
    BY <1>4
  <1>6. ASSUME NEW x \in Newer(W, m) PROVE x \in Newest(W)
    <2>1. x \in W /\ Day[x] > Day[m] /\ m \in W /\ Day[m] >= Day[n]
      BY <1>6 DEF Newer
    <2>2. SUFFICES ASSUME x \notin Newest(W) PROVE FALSE
      OBVIOUS
    <2>3. Day[x] >= Day[n]
      BY <1>1, <2>1
    <2>4. Newer(W, x) \in B
      BY <2>1, <2>2, <2>3
    <2>5. Newer(W, x) \subseteq Newer(W, m)
      BY <1>1, <2>1 DEF Newer
    <2>6. Newer(W, x) = Newer(W, m)
      BY <1>4, <1>5, <2>4, <2>5
    <2>7. x \notin Newer(W, x)
      BY <1>1, <2>1 DEF Newer
    <2> QED
      BY <1>6, <2>6, <2>7
  <1> QED
    BY <1>5, <1>6

\* The newest of a part that has all of the newest from some day on are of the
\* newest of all; and are the newest of all, if those are of no earlier day
LEMMA NewestOfPart ==
  ASSUME NEW W \in SUBSET Node, IsFiniteSet(W), NEW M \in SUBSET W,
         NEW since \in Nat, \A n \in M : Day[n] >= since,
         \A n \in Newest(W) : Day[n] >= since => n \in M
  PROVE  /\ Newest(M) \subseteq Newest(W)
         /\ (\A n \in W : Day[n] >= since) => Newest(M) = Newest(W)
PROOF
  <1>1. \A m \in Node : Day[m] \in Nat
    BY TimeAssumption
  <1>2. ASSUME NEW n \in Newest(M) PROVE n \in Newest(W)
    <2>1. n \in M /\ n \in W /\ Cardinality(Newer(M, n)) < Cap
      BY <1>2, NewestIs
    <2>2. SUFFICES ASSUME n \notin Newest(W) PROVE FALSE
      OBVIOUS
    <2>3. PICK m \in W : /\ Day[m] >= Day[n] /\ m \notin Newest(W)
                         /\ Newer(W, m) \subseteq Newest(W)
      BY <2>1, <2>2, NewestBefore
    <2>4. Newer(W, m) \subseteq Newer(M, n)
      <3> SUFFICES ASSUME NEW x \in Newer(W, m) PROVE x \in Newer(M, n)
        OBVIOUS
      <3>1. x \in W /\ Day[x] > Day[m] /\ x \in Newest(W)
        BY <2>3 DEF Newer
      <3>2. Day[x] > Day[n] /\ Day[x] >= since
        <4>1. Day[n] >= since /\ Day[m] >= Day[n] /\ Day[x] > Day[m]
          BY <2>1, <2>3, <3>1
        <4>2. Day[n] \in Nat /\ Day[m] \in Nat /\ Day[x] \in Nat
          BY <1>1, <2>1, <2>3, <3>1
        <4> QED
          BY <4>1, <4>2
      <3> QED
        BY <3>1, <3>2 DEF Newer
    <2>5. Newer(M, n) \subseteq W
      BY DEF Newer
    <2>6. IsFiniteSet(Newer(M, n))
      BY <2>5, FS_Subset
    <2>7. /\ Cardinality(Newer(W, m)) =< Cardinality(Newer(M, n))
          /\ IsFiniteSet(Newer(W, m))
      BY <2>4, <2>6, FS_Subset
    <2>8. Cardinality(Newer(W, m)) \in Nat /\ Cardinality(Newer(M, n)) \in Nat
      BY <2>6, <2>7, FS_CardinalityType
    <2>9. ~(Cardinality(Newer(W, m)) < Cap)
      BY <2>3, NewestIs
    <2> QED
      BY <2>1, <2>7, <2>8, <2>9, TimeAssumption
  <1>3. ASSUME \A n \in W : Day[n] >= since, NEW n \in Newest(W)
        PROVE  n \in Newest(M)
    <2>1. n \in W /\ Cardinality(Newer(W, n)) < Cap
      BY <1>3, NewestIs
    <2>2. n \in M
      BY <1>3, <2>1
    <2>3. Newer(M, n) \subseteq Newer(W, n)
      BY DEF Newer
    <2>4. /\ Cardinality(Newer(M, n)) \in Nat /\ Cardinality(Newer(W, n)) \in Nat
          /\ Cardinality(Newer(M, n)) =< Cardinality(Newer(W, n))
      BY <2>3, NewerCount
    <2>5. Cardinality(Newer(M, n)) < Cap
      BY <2>1, <2>4, TimeAssumption
    <2> QED
      BY <2>2, <2>5, NewestIs
  <1> QED
    BY <1>2, <1>3

Admitted(adm, n) == Label[n] \in Policied => n \in adm

FactsOf(w, adm, a, t, since) ==
  {n \in Node : /\ Label[n] = Start[t] /\ Admitted(adm, n)
                /\ w[n][t] = a /\ Day[n] >= since}
EndsOf(w, S, types) == {w[n][t] : n \in S, t \in types} \ {Null}
NewestOf(w, adm, g, a, since) ==
  UNION {Newest(FactsOf(w, adm, a, t, since)) : t \in In(Label[a], g)}

\* A context of the warehouse w, after none, one, two and three hops: the anchor;
\* the nodes around it; the dimensions of what is around it
Layer1(adm, a) == {n \in {a} : Admitted(adm, n)}
Layer2(w, adm, g, a, since) ==
  Layer1(adm, a) \cup
    {n \in EndsOf(w, Layer1(adm, a), Out(Label[a], g))
             \cup NewestOf(w, adm, g, a, since) : Admitted(adm, n)}
Layer3(w, adm, g, a, since) ==
  Layer2(w, adm, g, a, since) \cup
    {n \in EndsOf(w, Layer2(w, adm, g, a, since), Dimensions(Label[a], g)) :
       Admitted(adm, n)}
Layer(w, adm, g, a, since, h) ==
  IF h = 0 THEN {}
  ELSE IF h = 1 THEN Layer1(adm, a)
  ELSE IF h = 2 THEN Layer2(w, adm, g, a, since)
  ELSE Layer3(w, adm, g, a, since)

LEMMA LayersGrow ==
  ASSUME NEW w, NEW adm, NEW g, NEW a, NEW since, NEW h \in 0 .. 2
  PROVE  Layer(w, adm, g, a, since, h) \subseteq Layer(w, adm, g, a, since, h + 1)
PROOF
  <1>1. CASE h = 0
    BY <1>1 DEF Layer
  <1>2. CASE h = 1
    BY <1>2 DEF Layer, Layer2
  <1>3. CASE h = 2
    BY <1>3 DEF Layer, Layer3
  <1> QED
    BY <1>1, <1>2, <1>3

LEMMA LayersNest ==
  ASSUME NEW w, NEW adm, NEW g, NEW a, NEW since,
         NEW h \in 0 .. 3, NEW k \in 0 .. 3, h =< k
  PROVE  Layer(w, adm, g, a, since, h) \subseteq Layer(w, adm, g, a, since, k)
PROOF
  <1> DEFINE L(x) == Layer(w, adm, g, a, since, x)
  <1>1. L(0) \subseteq L(1) /\ L(1) \subseteq L(2) /\ L(2) \subseteq L(3)
    <2>1. L(0) \subseteq L(0 + 1) /\ L(1) \subseteq L(1 + 1) /\ L(2) \subseteq L(2 + 1)
      BY LayersGrow
    <2> HIDE DEF L
    <2> QED
      BY <2>1
  <1> HIDE DEF L
  <1>2. \/ h = k
        \/ h = 0 /\ k \in {1, 2, 3}
        \/ h = 1 /\ k \in {2, 3}
        \/ h = 2 /\ k = 3
    OBVIOUS
  <1>3. L(h) \subseteq L(k)
    BY <1>1, <1>2
  <1> QED
    BY <1>3 DEF L

LEMMA LayersAdmitted ==
  ASSUME NEW w, NEW adm, NEW g, NEW a, NEW since, NEW h,
         NEW n \in Layer(w, adm, g, a, since, h)
  PROVE  Admitted(adm, n)
PROOF
  BY DEF Layer, Layer1, Layer2, Layer3

LEMMA LayerAt ==
  ASSUME NEW w, NEW adm, NEW g, NEW a, NEW since
  PROVE  /\ Layer(w, adm, g, a, since, 0) = {}
         /\ Layer(w, adm, g, a, since, 1) = Layer1(adm, a)
         /\ Layer(w, adm, g, a, since, 2) = Layer2(w, adm, g, a, since)
         /\ Layer(w, adm, g, a, since, 3) = Layer3(w, adm, g, a, since)
PROOF
  BY DEF Layer

\* What a command asks for by the hop it is at
LEMMA AskedAt ==
  ASSUME NEW j
  PROVE  /\ j.hop = 0 => Asked(j) = {j.anchor}
         /\ j.hop = 1 =>
              Asked(j) = Ends(j, Out(Label[j.anchor], j.grant)) \cup
                         UNION {Newest(Facts(j, t)) :
                                  t \in In(Label[j.anchor], j.grant)}
         /\ j.hop = 2 =>
              Asked(j) = Ends(j, Dimensions(Label[j.anchor], j.grant))
PROOF
  <1>1. 1 # 0 /\ 2 # 0 /\ 2 # 1
    OBVIOUS
  <1> QED
    BY <1>1, Zenon DEF Asked

\* Until its rows are saved a command has as many layers as it made hops
Depth(j) == IF j.pc = "save" THEN j.hop + 1 ELSE j.hop
LayerOf(j, time, h) ==
  Layer(wh, admits[j.by], j.grant, j.anchor, Since[time], h)

LEMMA LayerOfAt ==
  ASSUME NEW j, NEW time
  PROVE  /\ LayerOf(j, time, 0) = {}
         /\ LayerOf(j, time, 1) = Layer1(admits[j.by], j.anchor)
         /\ LayerOf(j, time, 2) =
              Layer2(wh, admits[j.by], j.grant, j.anchor, Since[time])
         /\ LayerOf(j, time, 3) =
              Layer3(wh, admits[j.by], j.grant, j.anchor, Since[time])
PROOF
  BY LayerAt DEF LayerOf

\* The values a command has are the warehouse's
RowsTrue(j) ==
  \A n \in DOMAIN j.rows : \A t \in Kept(j.grant) : j.rows[n].val[t] = wh[n][t]

\* The rows a command has are its layers of the warehouse, as of when it began
AsFetched(j) == DOMAIN j.rows = LayerOf(j, j.at, Depth(j))

LEMMA NextHop ==
  ASSUME NEW h
  PROVE  /\ h = 0 => h + 1 = 1
         /\ h = 1 => h + 1 = 2
         /\ h = 2 => h + 1 = 3
         /\ h \in 0 .. 2 => h = 0 \/ h = 1 \/ h = 2
OBVIOUS

LEMMA EndsAre ==
  ASSUME NEW j, RowsTrue(j), NEW types, types \subseteq Kept(j.grant)
  PROVE  Ends(j, types) = EndsOf(wh, DOMAIN j.rows, types)
PROOF
  BY DEF Ends, EndsOf, RowsTrue

LEMMA ReadTypesKept ==
  ASSUME NEW l, NEW g
  PROVE  /\ Out(l, g) \subseteq Kept(g) /\ In(l, g) \subseteq Kept(g)
         /\ Dimensions(l, g) \subseteq Kept(g) /\ Kept(g) \subseteq Rel
PROOF
  BY ShapeAssumption DEF Out, In, Dimensions, Kept, Model

\* A hop of the virtual graph takes the next layer, and its values
LEMMA FetchHop ==
  ASSUME NEW j, j.origin = "virtual graph", j.pc = "read", j.hop \in 0 .. 2,
         RowsTrue(j), AsFetched(j)
  PROVE  /\ DOMAIN j.rows \cup Reached(j) = LayerOf(j, j.at, j.hop + 1)
         /\ \A n : \A t \in Kept(j.grant) : Row(j, n).val[t] = wh[n][t]
PROOF
  <1> DEFINE adm == admits[j.by]
             l == Label[j.anchor]
             since == Since[j.at]
             D == DOMAIN j.rows
  <1>0. D = LayerOf(j, j.at, j.hop)
    BY DEF AsFetched, Depth
  <1>1. \A n : Shows(j, n) <=> Admitted(adm, n)
    BY DEF Shows, Admitted
  <1>2. \A n : \A t \in Kept(j.grant) : Row(j, n).val[t] = wh[n][t]
    BY ReadTypesKept DEF Row
  <1>3. ASSUME NEW t \in In(l, j.grant)
        PROVE  Facts(j, t) = FactsOf(wh, adm, j.anchor, t, since)
    <2>1. t \in Kept(j.grant)
      BY ReadTypesKept
    <2> QED
      BY <1>1, <1>2, <2>1 DEF Facts, FactsOf
  <1>4. /\ Ends(j, Out(l, j.grant)) = EndsOf(wh, D, Out(l, j.grant))
        /\ Ends(j, Dimensions(l, j.grant)) = EndsOf(wh, D, Dimensions(l, j.grant))
    BY EndsAre, ReadTypesKept
  <1>5. UNION {Newest(Facts(j, t)) : t \in In(l, j.grant)} =
          NewestOf(wh, adm, j.grant, j.anchor, since)
    BY <1>3 DEF NewestOf
  <1>6. Reached(j) = {n \in Asked(j) : Admitted(adm, n)}
    BY <1>1 DEF Reached
  <1>7. CASE j.hop = 0
    <2>0. j.hop + 1 = 1
      BY <1>7, NextHop
    <2>1. D = {} /\ LayerOf(j, j.at, j.hop + 1) = Layer1(adm, j.anchor)
      BY <1>0, <1>7, <2>0, LayerOfAt
    <2>2. Asked(j) = {j.anchor}
      BY <1>7, AskedAt
    <2> QED
      BY <1>2, <1>6, <1>7, <2>1, <2>2 DEF Layer1
  <1>8. CASE j.hop = 1
    <2>0. j.hop + 1 = 2
      BY <1>8, NextHop
    <2>1. Asked(j) = EndsOf(wh, D, Out(l, j.grant)) \cup
                       NewestOf(wh, adm, j.grant, j.anchor, since)
      BY <1>4, <1>5, <1>8, AskedAt
    <2>2. D = Layer1(adm, j.anchor)
      BY <1>0, <1>8, <2>0, LayerOfAt
    <2>3. LayerOf(j, j.at, j.hop + 1) = Layer2(wh, adm, j.grant, j.anchor, since)
      BY <1>8, <2>0, LayerOfAt
    <2> HIDE DEF D, since, adm
    <2>4. D \cup Reached(j) = Layer2(wh, adm, j.grant, j.anchor, since)
      BY <1>6, <2>1, <2>2 DEF Layer2
    <2> QED
      BY <1>2, <1>8, <2>3, <2>4 DEF D
  <1>9. CASE j.hop = 2
    <2>0. j.hop + 1 = 3
      BY <1>9, NextHop
    <2>1. Asked(j) = EndsOf(wh, D, Dimensions(l, j.grant))
      BY <1>4, <1>9, AskedAt
    <2>2. D = Layer2(wh, adm, j.grant, j.anchor, since)
      BY <1>0, <1>9, <2>0, LayerOfAt
    <2>3. LayerOf(j, j.at, j.hop + 1) = Layer3(wh, adm, j.grant, j.anchor, since)
      BY <1>9, <2>0, LayerOfAt
    <2> HIDE DEF D, since, adm
    <2>4. D \cup Reached(j) = Layer3(wh, adm, j.grant, j.anchor, since)
      BY <1>6, <2>1, <2>2 DEF Layer3
    <2> QED
      BY <1>2, <1>9, <2>3, <2>4 DEF D
  <1>10. j.hop = 0 \/ j.hop = 1 \/ j.hop = 2
    BY NextHop
  <1> QED
    BY <1>7, <1>8, <1>9, <1>10, Zenon

\* What memory has for a command that reads it: all of the context its source
\* fetched, shown to it, and of other nodes none the warehouse would not admit and
\* no value that is not the warehouse's
SourceHere(j, time) ==
  LET got == LayerOf(j, time, LastHop(Label[j.anchor], j.grant) + 1) IN
  /\ \A n \in got : /\ n \in Node /\ Guard(j.by, n, j.at)
                    /\ \A t \in Kept(j.grant) : mem[n].val[t] = wh[n][t]
  /\ \A n \in DOMAIN mem : Guard(j.by, n, j.at) => Admitted(admits[j.by], n)
  /\ \A n \in DOMAIN mem : \A t \in Rel : mem[n].val[t] \in {Null, wh[n][t]}

\* The rows read so far are of the source's layers, and all, while the window stands
RowsFollow(j, time) ==
  /\ DOMAIN j.rows \subseteq LayerOf(j, time, Depth(j))
  /\ Since[j.at] = Since[time] => DOMAIN j.rows = LayerOf(j, time, Depth(j))

\* The many side of memory's hop: the newest it has are the newest there are
LEMMA FactsFollow ==
  ASSUME IsFiniteSet(Node),
         NEW j, j.origin = "memory", j.anchor \in Node, NEW time,
         Since[time] \in Nat, Since[j.at] \in Nat, Since[time] =< Since[j.at],
         SourceHere(j, time), LastHop(Label[j.anchor], j.grant) >= 1,
         LastHop(Label[j.anchor], j.grant) \in 0 .. 2,
         NEW t \in In(Label[j.anchor], j.grant)
  PROVE  LET W == FactsOf(wh, admits[j.by], j.anchor, t, Since[time])
         IN  /\ Newest(Facts(j, t)) \subseteq Newest(W)
             /\ Since[j.at] = Since[time] => Newest(Facts(j, t)) = Newest(W)
PROOF
  <1> DEFINE adm == admits[j.by]
             W == FactsOf(wh, adm, j.anchor, t, Since[time])
             M == Facts(j, t)
             last == LastHop(Label[j.anchor], j.grant)
             got == LayerOf(j, time, last + 1)
  <1>1. t \in Rel /\ t \in Kept(j.grant) /\ j.anchor # Null
    BY ReadTypesKept, ShapeAssumption
  <1>2. \A n : Shows(j, n) <=> Guard(j.by, n, j.at)
    BY DEF Shows
  <1>3. \A n : Row(j, n).val[t] = mem[n].val[t]
    BY <1>1 DEF Row
  <1>4. \A n \in Node : Day[n] \in Nat
    BY TimeAssumption
  <1>5. M \subseteq W /\ \A n \in M : Day[n] >= Since[j.at]
    <2> SUFFICES ASSUME NEW n \in M PROVE n \in W /\ Day[n] >= Since[j.at]
      OBVIOUS
    <2>1. /\ n \in Node /\ Label[n] = Start[t] /\ Guard(j.by, n, j.at)
          /\ mem[n].val[t] = j.anchor /\ Day[n] >= Since[j.at]
      BY <1>2, <1>3 DEF Facts
    <2>2. Admitted(adm, n)
      BY <2>1 DEF SourceHere, Guard
    <2>3. wh[n][t] = j.anchor
      BY <1>1, <2>1 DEF SourceHere, Guard
    <2>4. Day[n] >= Since[time]
      BY <1>4, <2>1
    <2> QED
      BY <2>1, <2>2, <2>3, <2>4 DEF FactsOf
  <1>6. Newest(W) \subseteq got
    <2>1. Newest(W) \subseteq NewestOf(wh, adm, j.grant, j.anchor, Since[time])
      BY DEF NewestOf
    <2>2. \A n \in Newest(W) : Admitted(adm, n)
      BY NewestIs DEF FactsOf
    <2>3. Newest(W) \subseteq LayerOf(j, time, 2)
      BY <2>1, <2>2 DEF LayerOf, Layer, Layer2
    <2>4. LayerOf(j, time, 2) \subseteq LayerOf(j, time, last + 1)
      <3>1. last + 1 \in 0 .. 3 /\ 2 =< last + 1 /\ 2 \in 0 .. 3
        OBVIOUS
      <3> QED
        BY <3>1, LayersNest DEF LayerOf
    <2> QED
      BY <2>3, <2>4
  <1>7. ASSUME NEW n \in Newest(W), Day[n] >= Since[j.at] PROVE n \in M
    <2>1. n \in Node /\ Label[n] = Start[t] /\ wh[n][t] = j.anchor
      BY NewestIs DEF FactsOf
    <2>2. Guard(j.by, n, j.at) /\ mem[n].val[t] = wh[n][t]
      BY <1>1, <1>6 DEF SourceHere
    <2> QED
      BY <1>2, <1>3, <1>7, <2>1, <2>2 DEF Facts
  <1>8. W \in SUBSET Node /\ IsFiniteSet(W)
    <2>1. W \in SUBSET Node
      BY DEF FactsOf
    <2> QED
      BY <2>1, FS_Subset
  <1>9. \A n \in W : Day[n] >= Since[time]
    BY DEF FactsOf
  <1> HIDE DEF W, M
  <1>10. /\ Newest(M) \subseteq Newest(W)
         /\ (\A n \in W : Day[n] >= Since[j.at]) => Newest(M) = Newest(W)
    BY <1>5, <1>7, <1>8, NewestOfPart
  <1> QED
    BY <1>9, <1>10 DEF W, M

\* A hop of memory takes what of the next layer it has; and all, while the window
\* stands where it stood
LEMMA RecallHop ==
  ASSUME IsFiniteSet(Node),
         NEW j, j.origin = "memory", j.pc = "read", j.hop \in 0 .. 2,
         j.anchor \in Node, NEW time,
         Since[time] \in Nat, Since[j.at] \in Nat, Since[time] =< Since[j.at],
         SourceHere(j, time), RowsTrue(j), RowsFollow(j, time),
         j.hop =< LastHop(Label[j.anchor], j.grant)
  PROVE  /\ DOMAIN j.rows \cup Reached(j) \subseteq LayerOf(j, time, j.hop + 1)
         /\ Since[j.at] = Since[time] =>
              DOMAIN j.rows \cup Reached(j) = LayerOf(j, time, j.hop + 1)
         /\ \A n \in Reached(j) : \A t \in Kept(j.grant) :
              Row(j, n).val[t] = wh[n][t]
PROOF
  <1> DEFINE adm == admits[j.by]
             l == Label[j.anchor]
             since == Since[time]
             D == DOMAIN j.rows
             last == LastHop(l, j.grant)
             next == LayerOf(j, time, j.hop + 1)
             same == Since[j.at] = Since[time]
             N == UNION {Newest(Facts(j, t)) : t \in In(l, j.grant)}
             NW == NewestOf(wh, adm, j.grant, j.anchor, since)
  <1>0. j.hop = 0 \/ j.hop = 1 \/ j.hop = 2
    BY NextHop
  <1>1. last \in 0 .. 2
    BY LastHopRange
  <1>2. next \subseteq LayerOf(j, time, last + 1)
    <2>1. last + 1 \in 0 .. 3 /\ j.hop + 1 \in 0 .. 3 /\ j.hop + 1 =< last + 1
      BY <1>1
    <2> QED
      BY <2>1, LayersNest DEF LayerOf
  <1>3. ASSUME NEW n \in next
        PROVE  Shows(j, n) /\ \A t \in Kept(j.grant) : mem[n].val[t] = wh[n][t]
    <2>1. n \in LayerOf(j, time, last + 1)
      BY <1>2, <1>3
    <2> QED
      BY <2>1 DEF SourceHere, Shows
  <1>4. \A n : Shows(j, n) => Admitted(adm, n)
    BY DEF SourceHere, Shows, Guard
  <1>5. D \subseteq LayerOf(j, time, j.hop) /\ (same => D = LayerOf(j, time, j.hop))
    BY DEF RowsFollow, Depth
  <1>6. /\ Ends(j, Out(l, j.grant)) = EndsOf(wh, D, Out(l, j.grant))
        /\ Ends(j, Dimensions(l, j.grant)) = EndsOf(wh, D, Dimensions(l, j.grant))
    BY EndsAre, ReadTypesKept
  <1>7. j.hop = 1 => N \subseteq NW /\ (same => N = NW)
    <2> SUFFICES ASSUME j.hop = 1 PROVE N \subseteq NW /\ (same => N = NW)
      OBVIOUS
    <2>1. last >= 1
      BY <1>1
    <2>2. ASSUME NEW t \in In(l, j.grant)
          PROVE  /\ Newest(Facts(j, t)) \subseteq
                      Newest(FactsOf(wh, adm, j.anchor, t, since))
                 /\ same => Newest(Facts(j, t)) =
                              Newest(FactsOf(wh, adm, j.anchor, t, since))
      BY <1>1, <2>1, FactsFollow
    <2>3. N \subseteq NW
      BY <2>2 DEF NewestOf
    <2>4. ASSUME same PROVE N = NW
      BY <2>2, <2>4 DEF NewestOf
    <2> QED
      BY <2>3, <2>4
  <1>8. Reached(j) = {n \in Asked(j) : Shows(j, n)}
    BY DEF Reached
  <1>9. \A S, T, types : S \subseteq T => EndsOf(wh, S, types) \subseteq EndsOf(wh, T, types)
    BY DEF EndsOf
  <1> HIDE DEF adm, l, since, D, last, next, N, NW, same
  <1>10. D \cup Reached(j) \subseteq next /\ (same => D \cup Reached(j) = next)
    <2>1. CASE j.hop = 0
      <3>1. Asked(j) = {j.anchor} /\ D = {}
        BY <1>5, <2>1, AskedAt, LayerOfAt
      <3>2. next = Layer1(adm, j.anchor)
        BY <2>1, NextHop, LayerOfAt DEF next, adm
      <3> QED
        BY <1>3, <1>4, <1>8, <3>1, <3>2 DEF Layer1
    <2>2. CASE j.hop = 1
      <3>1. Asked(j) = EndsOf(wh, D, Out(l, j.grant)) \cup N
        BY <1>6, <2>2, AskedAt DEF N, l
      <3>2. next = Layer2(wh, adm, j.grant, j.anchor, since)
        BY <2>2, NextHop, LayerOfAt DEF next, adm, since
      <3>3. /\ D \subseteq Layer1(adm, j.anchor)
            /\ same => D = Layer1(adm, j.anchor)
        BY <1>5, <2>2, LayerOfAt DEF adm
      <3>4. N \subseteq NW /\ (same => N = NW)
        BY <1>7, <2>2
      <3> DEFINE E == EndsOf(wh, Layer1(adm, j.anchor), Out(l, j.grant))
                 F == EndsOf(wh, D, Out(l, j.grant))
      <3>5. F \subseteq E /\ (same => F = E)
        BY <1>9, <3>3
      <3>6. next = Layer1(adm, j.anchor) \cup {n \in E \cup NW : Admitted(adm, n)}
        BY <3>2 DEF Layer2, NW, adm, since, l
      <3> HIDE DEF E, F
      <3>7. Reached(j) = {n \in F \cup N : Shows(j, n)}
        BY <1>8, <3>1 DEF F
      <3> QED
        BY <1>3, <1>4, <3>3, <3>4, <3>5, <3>6, <3>7
    <2>3. CASE j.hop = 2
      <3>1. Asked(j) = EndsOf(wh, D, Dimensions(l, j.grant))
        BY <1>6, <2>3, AskedAt DEF l
      <3> DEFINE L == Layer2(wh, adm, j.grant, j.anchor, since)
                 E == EndsOf(wh, L, Dimensions(l, j.grant))
                 F == EndsOf(wh, D, Dimensions(l, j.grant))
      <3>2. next = Layer3(wh, adm, j.grant, j.anchor, since)
        BY <2>3, NextHop, LayerOfAt DEF next, adm, since
      <3>3. D \subseteq L /\ (same => D = L)
        BY <1>5, <2>3, LayerOfAt DEF adm, since
      <3>5. F \subseteq E /\ (same => F = E)
        BY <1>9, <3>3
      <3>6. next = L \cup {n \in E : Admitted(adm, n)}
        BY <3>2 DEF Layer3, l
      <3> HIDE DEF E, F, L
      <3>7. Reached(j) = {n \in F : Shows(j, n)}
        BY <1>8, <3>1 DEF F
      <3> QED
        BY <1>3, <1>4, <3>3, <3>5, <3>6, <3>7
    <2> QED
      BY <1>0, <2>1, <2>2, <2>3
  <1>11. \A n : \A t \in Kept(j.grant) : Row(j, n).val[t] = mem[n].val[t]
    BY ReadTypesKept DEF Row
  <1> QED
    BY <1>3, <1>10, <1>11 DEF D, next, same

-----------------------------------------------------------------------------
(* Read back as fetched: why, while nothing changes in the world *)

\* There are so many rows, and the window only slides on
WindowSlides ==
  /\ IsFiniteSet(Node)
  /\ \A x, y \in Times : x =< y => Since[x] =< Since[y]

\* Memory has no value that is not the warehouse's
MemoryTrue ==
  \A n \in DOMAIN mem : \A t \in Rel : mem[n].val[t] \in {Null, wh[n][t]}

\* A fetch got the context there is, and READs only what it got
FetchIs(d) ==
  LET s == step[d] IN
  /\ s.got = Layer(wh, admits[s.by], grant[s.by], s.anchor, Since[s.at],
                   LastHop(Label[s.anchor], grant[s.by]) + 1)
  /\ s.read \subseteq s.got
FetchesAre == \A d \in DOMAIN step : Fetched(d) => FetchIs(d)

\* What a fetch left and has not lost still has the values it found
ValuesTrue(d) ==
  \A n \in step[d].got \ lost[d] : \A t \in Kept(grant[step[d].by]) :
    mem[n].val[t] = wh[n][t]
ContextTrue == \A d \in DOMAIN step : Fetched(d) => ValuesTrue(d)

\* A command that reads memory does so for a fetch of its reader's and its anchor,
\* whose context held when it began
Sourced(j) ==
  LET s == step[j.source] IN
  /\ j.source \in DOMAIN step /\ Fetched(j.source)
  /\ s.by = j.by /\ s.anchor = j.anchor /\ s.at =< j.at
  /\ ContextHolds(j.source, j.at)

\* The context a command reads has lost nothing, and its READs last
SourceWhole(j) ==
  /\ lost[j.source] = {}
  /\ \A n \in step[j.source].got : ReadLasts(j.source, n, j.at)

JobBack(j) ==
  /\ j.pc \in {"look", "read", "save"} => j.grant = grant[j.by]
  /\ j.pc \in {"read", "save"} =>
       /\ j.origin = "virtual graph" => RowsTrue(j) /\ AsFetched(j)
       /\ j.origin = "memory" =>
            /\ Sourced(j)
            /\ SourceWhole(j) => RowsTrue(j) /\ RowsFollow(j, step[j.source].at)
  /\ j.pc = "save" => j.hop = LastHop(Label[j.anchor], j.grant)
JobsBack == \A c \in Command : JobBack(job[c])

BackInv ==
  /\ RestInv
  /\ changes = 0 => MemoryTrue /\ FetchesAre /\ ContextTrue /\ JobsBack

\* A world that has not changed yet did not change
LEMMA WorldStood ==
  ASSUME TypeOK, [Next]_vars, changes' = 0
  PROVE  changes = 0 /\ UNCHANGED <<wh, admits, grant>>
PROOF
  <1>1. changes \in Nat
    BY TimeAssumption DEF TypeOK, WorldOk
  <1>2. ~Change
    BY <1>1 DEF Change
  <1>3. ASSUME NEW c \in Command, Recall(c)
        PROVE  changes = 0 /\ UNCHANGED <<wh, admits, grant>>
    BY <1>3 DEF Recall, Begin, Look, Hop, Remember, Record, Kill, world
  <1>4. CASE Sweep
    BY <1>1, <1>4 DEF Sweep, SweepMatch, SweepDelete, SweepFail, world
  <1>5. CASE World
    BY <1>2, <1>5 DEF World, Tick, WarehouseWrite, Admit, Revoke, Regrant
  <1>6. CASE UNCHANGED vars
    BY <1>6 DEF vars, world
  <1> QED
    BY <1>3, <1>4, <1>5, <1>6 DEF Next

\* Of what a Step says, all but what it READs stays; and what it lost is lost
StepsStay ==
  \A d \in DOMAIN step :
    /\ d \in DOMAIN step' /\ lost[d] \subseteq lost'[d]
    /\ step'[d].by = step[d].by /\ step'[d].at = step[d].at
    /\ step'[d].anchor = step[d].anchor /\ step'[d].origin = step[d].origin
    /\ step'[d].got = step[d].got /\ step'[d].read \subseteq step[d].read

LEMMA StepsDoStay == ASSUME RestInv, [Next]_vars PROVE StepsStay
PROOF
  <1>0. ASSUME step' = step, lost' = lost PROVE StepsStay
    BY <1>0 DEF StepsStay
  <1>1. ASSUME NEW c \in Command, Remember(c) \/ Record(c) PROVE StepsStay
    <2>1. PICK read : Leaves(c, StepOf(job[c], read))
      BY <1>1 DEF Remember, Record
    <2>2. c \notin DOMAIN step
      BY <1>1 DEF RestInv, StepsEnded, Remember, Record
    <2>3. \A d \in DOMAIN step : d \in DOMAIN step' /\ step'[d] = step[d]
      BY <2>1, <2>2 DEF Leaves
    <2>4. \A d \in DOMAIN step : lost[d] \subseteq lost'[d]
      BY <1>1, StepNumbers DEF RestInv, Remember, Record, Loses
    <2> QED
      BY <2>3, <2>4 DEF StepsStay
  <1>2. CASE SweepDelete
    <2>1. PICK batch :
            /\ step' = [d \in DOMAIN step |->
                          [step[d] EXCEPT !.read = step[d].read \ batch]]
            /\ Loses(batch, DOMAIN step)
      BY <1>2 DEF SweepDelete
    <2>2. \A d \in DOMAIN step : step[d] \in StepType /\ d \in Command
      BY StepNumbers DEF RestInv
    <2>3. \A d \in DOMAIN step : lost[d] \subseteq lost'[d]
      BY <2>1, <2>2 DEF Loses
    <2>4. \A d \in DOMAIN step :
            /\ d \in DOMAIN step'
            /\ step'[d].by = step[d].by /\ step'[d].at = step[d].at
            /\ step'[d].anchor = step[d].anchor /\ step'[d].origin = step[d].origin
            /\ step'[d].got = step[d].got
            /\ step'[d].read \subseteq step[d].read
      BY <2>1, <2>2 DEF StepType
    <2> QED
      BY <2>3, <2>4 DEF StepsStay
  <1>3. ASSUME NEW c \in Command, Begin(c) \/ Look(c) \/ Hop(c) \/ Kill(c)
        PROVE  StepsStay
    BY <1>0, <1>3 DEF Begin, Look, Hop, Kill
  <1>4. CASE SweepMatch \/ SweepFail \/ World \/ UNCHANGED vars
    BY <1>0, <1>4, WorldKeeps DEF SweepMatch, SweepFail, vars, RestInv
  <1> QED
    BY <1>1, <1>2, <1>3, <1>4 DEF Next, Recall, Sweep

\* A command's record stays right while the world stands
LEMMA JobBackStays ==
  ASSUME UNCHANGED <<wh, admits, grant>>, StepsStay, NEW j, JobBack(j)
  PROVE  JobBack(j)'
PROOF
  <1>1. wh' = wh /\ admits' = admits /\ grant' = grant
    OBVIOUS
  <1>2. RowsTrue(j)' <=> RowsTrue(j)
    BY <1>1 DEF RowsTrue
  <1>3. AsFetched(j)' <=> AsFetched(j)
    BY <1>1 DEF AsFetched, LayerOf
  <1>4. \A time : RowsFollow(j, time)' <=> RowsFollow(j, time)
    BY <1>1 DEF RowsFollow, LayerOf
  <1>5. ASSUME Sourced(j)
        PROVE  /\ Sourced(j)' /\ (SourceWhole(j)' => SourceWhole(j))
               /\ step'[j.source].at = step[j.source].at
    <2>1. /\ j.source \in DOMAIN step /\ j.source \in DOMAIN step'
          /\ lost[j.source] \subseteq lost'[j.source]
          /\ step'[j.source].by = step[j.source].by
          /\ step'[j.source].at = step[j.source].at
          /\ step'[j.source].anchor = step[j.source].anchor
          /\ step'[j.source].origin = step[j.source].origin
          /\ step'[j.source].got = step[j.source].got
      BY <1>5 DEF StepsStay, Sourced
    <2>2. Sourced(j)'
      BY <1>5, <2>1 DEF Sourced, Fetched, ContextHolds
    <2>3. SourceWhole(j)' => SourceWhole(j)
      BY <2>1 DEF SourceWhole, ReadLasts
    <2> QED
      BY <2>1, <2>2, <2>3
  <1>6. ASSUME Sourced(j), SourceWhole(j) => RowsTrue(j) /\ RowsFollow(j, step[j.source].at),
               SourceWhole(j)'
        PROVE  RowsTrue(j)' /\ RowsFollow(j, step[j.source].at)'
    <2>1. RowsTrue(j) /\ RowsFollow(j, step[j.source].at)
      BY <1>5, <1>6
    <2>2. PICK time : time = step[j.source].at
      OBVIOUS
    <2>3. RowsFollow(j, time)'
      BY <1>4, <2>1, <2>2
    <2>4. time = step'[j.source].at
      BY <1>5, <1>6, <2>2
    <2> QED
      BY <1>2, <2>1, <2>3, <2>4
  <1> QED
    BY <1>1, <1>2, <1>3, <1>5, <1>6 DEF JobBack

LEMMA JobStays ==
  ASSUME UNCHANGED <<wh, admits, grant>>, StepsStay, NEW c \in Command,
         JobBack(job[c]), job'[c] = job[c]
  PROVE  JobBack(job[c])'
PROOF
  <1>1. PICK j : j = job[c]
    OBVIOUS
  <1>2. JobBack(j)
    BY <1>1
  <1>3. JobBack(j)'
    BY <1>2, JobBackStays
  <1> QED
    BY <1>1, <1>3

\* A command that is not running has nothing to be right about
LEMMA IdleBack == ASSUME NEW c, ~Running(c) PROVE JobBack(job[c])
PROOF
  BY DEF Running, JobBack

LEMMA IdleBackNext == ASSUME NEW c, ~Running(c)' PROVE JobBack(job[c])'
PROOF
  BY DEF Running, JobBack

\* Every command but the one that steps stays right
LEMMA OthersStay ==
  ASSUME UNCHANGED <<wh, admits, grant>>, StepsStay, JobsBack, NEW c \in Command,
         \A d \in Command \ {c} : job'[d] = job[d], JobBack(job[c])'
  PROVE  JobsBack'
PROOF
  <1> SUFFICES ASSUME NEW d \in Command PROVE JobBack(job[d])'
    BY DEF JobsBack
  <1>1. CASE d = c
    BY <1>1
  <1>2. CASE d # c
    BY <1>2, JobStays DEF JobsBack
  <1> QED
    BY <1>1, <1>2

\* What is said of memory, while memory, the Steps and the world are as they are
LEMMA MemorySaidSame ==
  ASSUME UNCHANGED <<wh, admits, grant, mem, step, lost>>,
         MemoryTrue, FetchesAre, ContextTrue
  PROVE  MemoryTrue' /\ FetchesAre' /\ ContextTrue'
PROOF
  <1>1. /\ wh' = wh /\ admits' = admits /\ grant' = grant /\ mem' = mem
        /\ step' = step /\ lost' = lost
    OBVIOUS
  <1>2. MemoryTrue'
    BY <1>1 DEF MemoryTrue
  <1>3. FetchesAre'
    BY <1>1 DEF FetchesAre, FetchIs, Fetched
  <1>4. \A d : ValuesTrue(d)' <=> ValuesTrue(d)
    BY <1>1 DEF ValuesTrue
  <1>5. ContextTrue'
    BY <1>1, <1>4 DEF ContextTrue, Fetched
  <1> QED
    BY <1>2, <1>3, <1>5

\* What memory has for a command that reads a context that lost nothing
LEMMA SourceIsHere ==
  ASSUME BackInv, changes = 0, NEW j, j.at \in Nat,
         j.grant = grant[j.by], Sourced(j), SourceWhole(j)
  PROVE  SourceHere(j, step[j.source].at)
PROOF
  <1> DEFINE f == j.source
             s == step[f]
             got == LayerOf(j, s.at, LastHop(Label[j.anchor], j.grant) + 1)
  <1>0. RestInv /\ MemoryTrue /\ FetchesAre /\ ContextTrue
    BY DEF BackInv
  <1>1. /\ f \in DOMAIN step /\ Fetched(f) /\ s.by = j.by /\ s.anchor = j.anchor
        /\ ContextHolds(f, j.at)
    BY DEF Sourced
  <1>2. FetchIs(f) /\ ValuesTrue(f) /\ s.got \subseteq Node /\ lost[f] = {}
    BY <1>0, <1>1, StepNumbers DEF RestInv, FetchesAre, ContextTrue, SourceWhole
  <1>3. got = s.got
    BY <1>1, <1>2 DEF FetchIs, LayerOf
  <1>4. ASSUME NEW n \in s.got
        PROVE  /\ n \in Node /\ Guard(j.by, n, j.at)
               /\ \A t \in Kept(j.grant) : mem[n].val[t] = wh[n][t]
    <2>1. n \in s.got \ lost[f] /\ ReadLasts(f, n, j.at)
      BY <1>2, <1>4 DEF SourceWhole
    <2>2. Guard(s.by, n, j.at)
      BY <1>0, <1>1, <2>1, RestIsShown
    <2>3. \A t \in Kept(j.grant) : mem[n].val[t] = wh[n][t]
      BY <1>1, <1>2, <2>1 DEF ValuesTrue
    <2> QED
      BY <1>1, <1>2, <2>2, <2>3
  <1>5. ASSUME NEW n \in DOMAIN mem, Guard(j.by, n, j.at)
        PROVE  Admitted(admits[j.by], n)
    <2> SUFFICES ASSUME Label[n] \in Policied PROVE n \in admits[j.by]
      BY DEF Admitted
    <2>1. PICK d \in DOMAIN step :
            step[d].by = j.by /\ Fetched(d) /\ n \in step[d].read
      BY <1>5 DEF Guard, Seen
    <2>2. n \in Layer(wh, admits[j.by], grant[j.by], step[d].anchor,
                      Since[step[d].at],
                      LastHop(Label[step[d].anchor], grant[j.by]) + 1)
      BY <1>0, <2>1 DEF FetchesAre, FetchIs
    <2>3. Admitted(admits[j.by], n)
      BY <2>2, LayersAdmitted
    <2> QED
      BY <2>3 DEF Admitted
  <1>6. \A n \in DOMAIN mem : \A t \in Rel : mem[n].val[t] \in {Null, wh[n][t]}
    BY <1>0 DEF MemoryTrue
  <1> HIDE DEF got, f
  <1>7. \A n \in got : /\ n \in Node /\ Guard(j.by, n, j.at)
                       /\ \A t \in Kept(j.grant) : mem[n].val[t] = wh[n][t]
    BY <1>3, <1>4
  <1> QED
    BY <1>5, <1>6, <1>7 DEF SourceHere, got, f

LEMMA BackBegin ==
  ASSUME BackInv, RestInv', changes = 0, UNCHANGED <<wh, admits, grant>>, StepsStay,
         NEW c \in Command, Begin(c)
  PROVE  BackInv'
PROOF
  <1> DEFINE k == job'[c]
  <1>1. TypeOK /\ MemoryTrue /\ FetchesAre /\ ContextTrue /\ JobsBack
    BY DEF BackInv, RestInv
  <1>2. UNCHANGED <<mem, step, lost>>
    BY DEF Begin
  <1>3. /\ k.grant = grant[k.by]
        /\ k.hop = 0 /\ DOMAIN k.rows = {}
        /\ \/ k.pc = "look"
           \/ k.pc = "read" /\ k.origin = "virtual graph"
        /\ \A d \in Command \ {c} : job'[d] = job[d]
    <2>1. \E r \in Reader : k.by = r /\ k.grant = grant[r]
      BY <1>1, BeginEffect
    <2>2. /\ k.hop = 0 /\ DOMAIN k.rows = {}
          /\ \/ k.pc = "look"
             \/ k.pc = "read" /\ k.origin = "virtual graph"
          /\ \A d \in Command \ {c} : job'[d] = job[d]
      BY <1>1, BeginEffect
    <2> QED
      BY <2>1, <2>2
  <1>4. JobBack(job[c])'
    <2>1. PICK j : j = k
      OBVIOUS
    <2>2. RowsTrue(j)'
      BY <1>3, <2>1 DEF RowsTrue
    <2>3. j.pc = "read" => AsFetched(j)'
      <3>1. j.pc = "read" => Depth(j) = 0
        BY <1>3, <2>1 DEF Depth
      <3>2. LayerOf(j, j.at, 0)' = {}
        BY DEF LayerOf, Layer
      <3> QED
        BY <1>3, <2>1, <3>1, <3>2 DEF AsFetched
    <2>4. j.grant = grant'[j.by]
      BY <1>3, <2>1
    <2>5. j.pc = "look" \/ (j.pc = "read" /\ j.origin = "virtual graph")
      BY <1>3, <2>1
    <2>6. JobBack(j)'
      BY <2>2, <2>3, <2>4, <2>5 DEF JobBack
    <2> QED
      BY <2>1, <2>6
  <1> HIDE DEF k
  <1>5. JobsBack'
    BY <1>1, <1>3, <1>4, OthersStay
  <1> QED
    BY <1>1, <1>2, <1>5, MemorySaidSame DEF BackInv

LEMMA BackLook ==
  ASSUME BackInv, RestInv', changes = 0, UNCHANGED <<wh, admits, grant>>, StepsStay,
         NEW c \in Command, Look(c)
  PROVE  BackInv'
PROOF
  <1> DEFINE k == job'[c]
  <1>1. TypeOK /\ MemoryTrue /\ FetchesAre /\ ContextTrue /\ JobsBack
    BY DEF BackInv, RestInv
  <1>2. UNCHANGED <<mem, step, lost>>
    BY DEF Look
  <1>3. PICK j : j = job[c]
    OBVIOUS
  <1>4. /\ j.pc = "look" /\ k.pc = "read" /\ GoesOn(j, k)
        /\ k.hop = 0 /\ DOMAIN k.rows = {}
        /\ \/ k.origin = "virtual graph"
           \/ k.origin = "memory" /\ Sourced(k)
    <2>1. /\ j.pc = "look" /\ k.pc = "read" /\ GoesOn(j, k)
          /\ k.hop = 0 /\ DOMAIN k.rows = {}
          /\ \/ k.origin = "virtual graph"
             \/ /\ k.origin = "memory"
                /\ k.source \in Fresh(j.by, j.anchor,
                                      Digest(Label[j.anchor], j.grant), j.at)
      BY <1>1, <1>3, LookEffect
    <2>2. ASSUME k.source \in Fresh(j.by, j.anchor,
                                    Digest(Label[j.anchor], j.grant), j.at)
          PROVE  Sourced(k)
      BY <2>1, <2>2 DEF Fresh, GoesOn, Sourced
    <2> QED
      BY <2>1, <2>2
  <1>5. j.grant = grant[j.by]
    BY <1>1, <1>3, <1>4 DEF JobsBack, JobBack
  <1>6. JobBack(job[c])'
    <2>1. PICK i : i = k
      OBVIOUS
    <2>2. RowsTrue(i)'
      BY <1>4, <2>1 DEF RowsTrue
    <2>3. Depth(i) = 0
      BY <1>4, <2>1 DEF Depth
    <2>4. \A time : LayerOf(i, time, 0)' = {}
      BY DEF LayerOf, Layer
    <2>5. AsFetched(i)'
      BY <1>4, <2>1, <2>3, <2>4 DEF AsFetched
    <2>6. \A time : RowsFollow(i, time)'
      BY <1>4, <2>1, <2>3, <2>4 DEF RowsFollow
    <2>7. Sourced(i) => Sourced(i)'
      BY <1>2 DEF Sourced, Fetched, ContextHolds
    <2>8. i.origin # "virtual graph" => Sourced(i)'
      BY <1>4, <2>1, <2>7
    <2>9. i.grant = grant'[i.by] /\ i.pc = "read"
      BY <1>4, <1>5, <2>1 DEF GoesOn
    <2>10. JobBack(i)'
      BY <2>2, <2>5, <2>6, <2>8, <2>9 DEF JobBack
    <2> QED
      BY <2>1, <2>10
  <1>7. JobsBack'
    BY <1>1, <1>6, LookEffect, OthersStay
  <1> HIDE DEF k
  <1> QED
    BY <1>1, <1>2, <1>7, MemorySaidSame DEF BackInv

\* The window slides on: what a command began with is no later day's than now
LEMMA WindowNumbers ==
  ASSUME WindowSlides, NEW x \in Times, NEW y \in Times, x =< y
  PROVE  Since[x] \in Nat /\ Since[y] \in Nat /\ Since[x] =< Since[y]
PROOF
  BY TimeAssumption DEF WindowSlides

\* A hop leaves a command that goes on right: of the warehouse, or of the context it
\* reads, if that has lost nothing
LEMMA HopBack ==
  ASSUME WindowSlides, BackInv, changes = 0, NEW j \in JobType, JobOk(j), JobBack(j),
         j.pc = "read", NEW i, GoesOn(j, i), i.origin = j.origin,
         i.source = j.source, i.rows = HopRows(j),
         IF j.hop = LastHop(Label[j.anchor], j.grant)
           THEN i.pc = "save" /\ i.hop = j.hop
           ELSE i.pc = "read" /\ i.hop = j.hop + 1
  PROVE  JobBack(i)
PROOF
  <1>1. /\ j.by \in Reader /\ j.anchor \in Node /\ j.at \in Times /\ j.at \in Nat
        /\ j.hop \in 0 .. 2 /\ j.hop =< LastHop(Label[j.anchor], j.grant)
        /\ j.origin \in {"memory", "virtual graph"}
    BY TimesAreNat DEF JobOk, JobType
  <1>2. Depth(i) = j.hop + 1 /\ Depth(j) = j.hop /\ i.pc \in {"read", "save"}
    BY DEF Depth
  <1>3. DOMAIN i.rows = DOMAIN j.rows \cup Reached(j)
    BY DEF HopRows
  <1>4. /\ j.grant = grant[j.by]
        /\ j.origin = "virtual graph" => RowsTrue(j) /\ AsFetched(j)
        /\ j.origin = "memory" =>
             /\ Sourced(j)
             /\ SourceWhole(j) => RowsTrue(j) /\ RowsFollow(j, step[j.source].at)
    BY DEF JobBack
  <1>5. \A time, h : LayerOf(i, time, h) = LayerOf(j, time, h)
    BY DEF LayerOf, GoesOn
  <1>6. ASSUME RowsTrue(j),
               \A n \in Reached(j) : \A t \in Kept(j.grant) :
                 Row(j, n).val[t] = wh[n][t]
        PROVE  RowsTrue(i)
    <2> SUFFICES ASSUME NEW n \in DOMAIN i.rows, NEW t \in Kept(i.grant)
                 PROVE  i.rows[n].val[t] = wh[n][t]
      BY DEF RowsTrue
    <2>1. i.rows[n] = IF n \in DOMAIN j.rows THEN j.rows[n] ELSE Row(j, n)
      BY <1>3 DEF HopRows
    <2>2. t \in Kept(j.grant)
      BY DEF GoesOn
    <2>3. n \in DOMAIN j.rows => j.rows[n].val[t] = wh[n][t]
      BY <1>6, <2>2 DEF RowsTrue
    <2>4. n \notin DOMAIN j.rows => Row(j, n).val[t] = wh[n][t]
      BY <1>3, <1>6, <2>2
    <2> QED
      BY <2>1, <2>3, <2>4
  <1>7. ASSUME j.origin = "virtual graph" PROVE RowsTrue(i) /\ AsFetched(i)
    <2>1. /\ DOMAIN j.rows \cup Reached(j) = LayerOf(j, j.at, j.hop + 1)
          /\ \A n : \A t \in Kept(j.grant) : Row(j, n).val[t] = wh[n][t]
      BY <1>1, <1>4, <1>7, FetchHop
    <2>2. DOMAIN i.rows = LayerOf(j, j.at, j.hop + 1) /\ i.at = j.at
      BY <1>3, <2>1 DEF GoesOn
    <2>3. AsFetched(i)
      BY <1>2, <1>5, <2>2 DEF AsFetched
    <2> QED
      BY <1>4, <1>6, <1>7, <2>1, <2>3
  <1>8. i.source = j.source /\ i.at = j.at /\ i.by = j.by /\ i.anchor = j.anchor
    BY DEF GoesOn
  <1>9. ASSUME j.origin = "memory" PROVE Sourced(i)
    BY <1>4, <1>8, <1>9 DEF Sourced
  <1>10. ASSUME j.origin = "memory", SourceWhole(i)
         PROVE  RowsTrue(i) /\ RowsFollow(i, step[i.source].at)
    <2> DEFINE time == step[j.source].at
    <2>1. SourceWhole(j)
      BY <1>8, <1>10 DEF SourceWhole
    <2>2. Sourced(j) /\ RowsTrue(j) /\ RowsFollow(j, time)
      BY <1>4, <1>10, <2>1
    <2>3. SourceHere(j, time)
      BY <1>1, <1>4, <2>1, <2>2, SourceIsHere
    <2>4. time \in Times /\ time =< j.at
      BY <2>2 DEF Sourced, BackInv, RestInv, TypeOK, StepsOk, PartialOn, StepType
    <2>5. Since[time] \in Nat /\ Since[j.at] \in Nat /\ Since[time] =< Since[j.at]
      BY <1>1, <2>4, WindowNumbers
    <2> HIDE DEF time
    <2>6. /\ DOMAIN j.rows \cup Reached(j) \subseteq LayerOf(j, time, j.hop + 1)
          /\ Since[j.at] = Since[time] =>
               DOMAIN j.rows \cup Reached(j) = LayerOf(j, time, j.hop + 1)
          /\ \A n \in Reached(j) : \A t \in Kept(j.grant) :
               Row(j, n).val[t] = wh[n][t]
      BY <1>1, <1>10, <2>2, <2>3, <2>5, RecallHop DEF WindowSlides
    <2>7. RowsFollow(i, time)
      BY <1>2, <1>3, <1>5, <1>8, <2>6 DEF RowsFollow
    <2>8. RowsTrue(i)
      BY <1>6, <2>2, <2>6
    <2> QED
      BY <1>8, <2>7, <2>8 DEF time
  <1>11. i.grant = grant[i.by]
         /\ (i.pc = "save" => i.hop = LastHop(Label[i.anchor], i.grant))
    BY <1>4 DEF GoesOn
  <1> QED
    BY <1>7, <1>9, <1>10, <1>11 DEF JobBack

LEMMA BackHop ==
  ASSUME WindowSlides, BackInv, RestInv', changes = 0,
         UNCHANGED <<wh, admits, grant>>, StepsStay, NEW c \in Command, Hop(c)
  PROVE  BackInv'
PROOF
  <1> DEFINE k == job'[c]
  <1>1. TypeOK /\ MemoryTrue /\ FetchesAre /\ ContextTrue /\ JobsBack
    BY DEF BackInv, RestInv
  <1>2. UNCHANGED <<mem, step, lost>>
    BY DEF Hop
  <1>3. PICK j : j = job[c]
    OBVIOUS
  <1>4. j.pc = "read" /\ j \in JobType /\ JobOk(j) /\ JobBack(j)
    BY <1>1, <1>3, HopEffect, JobsTyped DEF TypeOK, JobsBack
  <1>5. \/ k.pc = "done"
        \/ /\ GoesOn(j, k) /\ k.origin = j.origin /\ k.source = j.source
           /\ k.rows = HopRows(j)
           /\ IF j.hop = LastHop(Label[j.anchor], j.grant)
                THEN k.pc = "save" /\ k.hop = j.hop
                ELSE k.pc = "read" /\ k.hop = j.hop + 1
    BY <1>1, <1>3, HopEffect
  <1>6. JobBack(job[c])'
    <2>1. CASE k.pc = "done"
      BY <2>1, IdleBackNext DEF Running
    <2>2. CASE k.pc # "done"
      <3>1. PICK i : i = k
        OBVIOUS
      <3>2. /\ GoesOn(j, i) /\ i.origin = j.origin /\ i.source = j.source
            /\ i.rows = HopRows(j)
            /\ IF j.hop = LastHop(Label[j.anchor], j.grant)
                 THEN i.pc = "save" /\ i.hop = j.hop
                 ELSE i.pc = "read" /\ i.hop = j.hop + 1
        BY <1>5, <2>2, <3>1
      <3>3. JobBack(i)
        BY <1>4, <3>2, HopBack
      <3>4. JobBack(i)'
        BY <3>3, JobBackStays
      <3> QED
        BY <3>1, <3>4
    <2> QED
      BY <2>1, <2>2
  <1>7. JobsBack'
    BY <1>1, <1>6, HopEffect, OthersStay
  <1> HIDE DEF k
  <1> QED
    BY <1>1, <1>2, <1>7, MemorySaidSame DEF BackInv

\* What a write merges into a row it finds is the warehouse's
LEMMA MergedTrue ==
  ASSUME MemoryTrue, NEW j, RowsTrue(j), NEW n \in DOMAIN j.rows, NEW t \in Rel
  PROVE  /\ Merged(j, n).val[t] \in {Null, wh[n][t]}
         /\ t \in Kept(j.grant) => Merged(j, n).val[t] = wh[n][t]
         /\ n \in DOMAIN mem /\ mem[n].val[t] = wh[n][t] =>
              Merged(j, n).val[t] = wh[n][t]
PROOF
  <1> DEFINE old == IF n \in DOMAIN mem THEN mem[n]
                    ELSE [val |-> [x \in Rel |-> Null], asOf |-> [x \in Rel |-> 0],
                          at |-> 0, derived |-> {}]
             val == [x \in Rel |-> IF x \in Kept(j.grant) THEN j.rows[n].val[x]
                                                          ELSE old.val[x]]
  <1>1. Merged(j, n).val = val
    BY DEF Merged
  <1>2. n \in DOMAIN mem => old = mem[n]
    OBVIOUS
  <1>3. n \notin DOMAIN mem => old.val[t] = Null
    OBVIOUS
  <1>4. val[t] = IF t \in Kept(j.grant) THEN j.rows[n].val[t] ELSE old.val[t]
    OBVIOUS
  <1>5. t \in Kept(j.grant) => j.rows[n].val[t] = wh[n][t]
    BY DEF RowsTrue
  <1>6. n \in DOMAIN mem => mem[n].val[t] \in {Null, wh[n][t]}
    BY DEF MemoryTrue
  <1> HIDE DEF old, val
  <1> QED
    BY <1>1, <1>2, <1>3, <1>4, <1>5, <1>6

LEMMA BackRemember ==
  ASSUME BackInv, changes = 0, UNCHANGED <<wh, admits, grant>>, StepsStay,
         NEW c \in Command, Remember(c)
  PROVE  MemoryTrue' /\ FetchesAre' /\ ContextTrue'
PROOF
  <1> DEFINE D == DOMAIN job[c].rows
  <1>0. PICK j : j = job[c]
    OBVIOUS
  <1>1. /\ j.pc = "save" /\ j.origin = "virtual graph"
        /\ mem' = [n \in DOMAIN mem \cup D |-> IF n \in D THEN Merged(j, n)
                                                          ELSE mem[n]]
        /\ step' = [x \in DOMAIN step \cup {c} |->
                      IF x = c THEN StepOf(j, {j.anchor} \cup
                                        {n \in D : Label[n] \in Policied})
                               ELSE step[x]]
    BY <1>0 DEF Remember, Leaves
  <1>2. /\ j \in JobType /\ JobOk(j) /\ JobBack(j) /\ D = DOMAIN j.rows
        /\ RestInv /\ MemoryTrue /\ FetchesAre /\ ContextTrue
    BY <1>0, JobsTyped DEF BackInv, RestInv, TypeOK, JobsBack
  <1>3. RowsTrue(j) /\ AsFetched(j) /\ j.grant = grant[j.by]
        /\ j.hop = LastHop(Label[j.anchor], j.grant)
    BY <1>1, <1>2 DEF JobBack
  <1>4. \A n \in D : \A t \in Rel :
          /\ mem'[n].val[t] \in {Null, wh[n][t]}
          /\ t \in Kept(j.grant) => mem'[n].val[t] = wh[n][t]
          /\ n \in DOMAIN mem /\ mem[n].val[t] = wh[n][t] =>
               mem'[n].val[t] = wh[n][t]
    <2> SUFFICES ASSUME NEW n \in D, NEW t \in Rel
                 PROVE  /\ mem'[n].val[t] \in {Null, wh[n][t]}
                        /\ t \in Kept(j.grant) => mem'[n].val[t] = wh[n][t]
                        /\ n \in DOMAIN mem /\ mem[n].val[t] = wh[n][t] =>
                             mem'[n].val[t] = wh[n][t]
      OBVIOUS
    <2>1. mem'[n] = Merged(j, n)
      BY <1>1
    <2>2. n \in DOMAIN j.rows
      BY <1>2
    <2> QED
      BY <1>2, <1>3, <2>1, <2>2, MergedTrue
  <1>5. \A n \in DOMAIN mem : n \in DOMAIN mem' /\ (n \notin D => mem'[n] = mem[n])
    BY <1>1
  <1>6. MemoryTrue'
    <2> SUFFICES ASSUME NEW n \in DOMAIN mem', NEW t \in Rel
                 PROVE  mem'[n].val[t] \in {Null, wh[n][t]}
      BY DEF MemoryTrue
    <2>1. n \in D \/ (n \in DOMAIN mem /\ mem'[n] = mem[n])
      BY <1>1
    <2> QED
      BY <1>2, <1>4, <2>1 DEF MemoryTrue
  <1>7. /\ step'[c].by = j.by /\ step'[c].at = j.at /\ step'[c].anchor = j.anchor
        /\ step'[c].got = D /\ c \in DOMAIN step'
        /\ step'[c].read = {j.anchor} \cup {n \in D : Label[n] \in Policied}
        /\ \A d \in DOMAIN step' : d # c => d \in DOMAIN step /\ step'[d] = step[d]
    BY <1>1, <1>2 DEF StepOf
  <1>8. FetchIs(c)'
    <2>1. D = LayerOf(j, j.at, j.hop + 1)
      BY <1>1, <1>2, <1>3 DEF AsFetched, Depth
    <2>2. D = Layer(wh, admits[j.by], grant[j.by], j.anchor, Since[j.at],
                    LastHop(Label[j.anchor], grant[j.by]) + 1)
      BY <1>3, <2>1 DEF LayerOf
    <2>3. step'[c].read \subseteq D
      BY <1>1, <1>2, <1>7 DEF JobOk
    <2> QED
      BY <1>7, <2>2, <2>3 DEF FetchIs
  <1>9. FetchesAre'
    <2> SUFFICES ASSUME NEW d \in DOMAIN step', Fetched(d)' PROVE FetchIs(d)'
      BY DEF FetchesAre
    <2>1. CASE d = c
      BY <1>8, <2>1
    <2>2. CASE d # c
      <3>1. FetchIs(d)
        BY <1>2, <1>7, <2>2 DEF FetchesAre, Fetched
      <3> QED
        BY <1>7, <2>2, <3>1 DEF FetchIs
    <2> QED
      BY <2>1, <2>2
  <1>10. ContextTrue'
    <2> SUFFICES ASSUME NEW d \in DOMAIN step', Fetched(d)',
                        NEW n \in step'[d].got \ lost'[d],
                        NEW t \in Kept(grant[step'[d].by])
                 PROVE  mem'[n].val[t] = wh[n][t]
      <3>1. wh' = wh /\ grant' = grant
        OBVIOUS
      <3> QED
        BY <3>1 DEF ContextTrue, ValuesTrue
    <2>0. t \in Rel
      BY ReadTypesKept
    <2>1. CASE d = c
      <3>1. n \in D /\ t \in Kept(j.grant)
        BY <1>3, <1>7, <2>1
      <3> QED
        BY <1>4, <2>0, <3>1
    <2>2. CASE d # c
      <3>1. /\ d \in DOMAIN step /\ step'[d] = step[d] /\ Fetched(d)
            /\ lost[d] \subseteq lost'[d]
        BY <1>7, <2>2 DEF Fetched, StepsStay
      <3>2. n \in step[d].got \ lost[d] /\ t \in Kept(grant[step[d].by])
        BY <3>1
      <3>3. n \in DOMAIN mem /\ mem[n].val[t] = wh[n][t]
        BY <1>2, <3>1, <3>2 DEF ContextTrue, ValuesTrue, RestInv, ContextKept,
                                StillThere
      <3> HIDE DEF D
      <3> QED
        BY <1>4, <1>5, <2>0, <3>3
    <2> QED
      BY <2>1, <2>2
  <1> QED
    BY <1>6, <1>9, <1>10

LEMMA BackEnd ==
  ASSUME BackInv, RestInv', changes = 0, UNCHANGED <<wh, admits, grant>>, StepsStay,
         NEW c \in Command, Remember(c) \/ Record(c) \/ Kill(c)
  PROVE  BackInv'
PROOF
  <1>1. TypeOK /\ MemoryTrue /\ FetchesAre /\ ContextTrue /\ JobsBack
    BY DEF BackInv, RestInv
  <1>2. job'[c].pc = "done" /\ \A d \in Command \ {c} : job'[d] = job[d]
    BY <1>1, EndEffect
  <1>3. JobsBack'
    <2>1. JobBack(job[c])'
      BY <1>2, IdleBackNext DEF Running
    <2> QED
      BY <1>1, <1>2, <2>1, OthersStay
  <1>4. MemoryTrue' /\ FetchesAre' /\ ContextTrue'
    <2>1. CASE Remember(c)
      BY <2>1, BackRemember
    <2>2. CASE Record(c)
      <3>1. mem' = mem /\ lost' = lost
        BY <2>2 DEF Record
      <3>2. \A d \in DOMAIN step' : step'[d].origin = "virtual graph" =>
              d \in DOMAIN step /\ step'[d] = step[d]
        <4>1. PICK read : Leaves(c, StepOf(job[c], read))
          BY <2>2 DEF Record
        <4>2. StepOf(job[c], read).origin = "memory"
          BY <2>2 DEF StepOf, Record
        <4>3. \A d \in DOMAIN step' :
                /\ d \in DOMAIN step \cup {c}
                /\ step'[d] = IF d = c THEN StepOf(job[c], read) ELSE step[d]
          BY <4>1 DEF Leaves
        <4> QED
          BY <4>2, <4>3
      <3>3. MemoryTrue'
        BY <1>1, <3>1 DEF MemoryTrue
      <3>4. FetchesAre'
        <4> SUFFICES ASSUME NEW d \in DOMAIN step', Fetched(d)' PROVE FetchIs(d)'
          BY DEF FetchesAre
        <4>1. d \in DOMAIN step /\ step'[d] = step[d] /\ FetchIs(d)
          BY <1>1, <3>2 DEF FetchesAre, Fetched
        <4> QED
          BY <4>1 DEF FetchIs
      <3>5. ContextTrue'
        <4> SUFFICES ASSUME NEW d \in DOMAIN step', Fetched(d)' PROVE ValuesTrue(d)'
          BY DEF ContextTrue
        <4>1. d \in DOMAIN step /\ step'[d] = step[d] /\ ValuesTrue(d)
          BY <1>1, <3>2 DEF ContextTrue, Fetched
        <4> QED
          BY <3>1, <4>1 DEF ValuesTrue
      <3> QED
        BY <3>3, <3>4, <3>5
    <2>3. CASE Kill(c)
      BY <1>1, <2>3, MemorySaidSame DEF Kill
    <2> QED
      BY <2>1, <2>2, <2>3
  <1> QED
    BY <1>3, <1>4 DEF BackInv

LEMMA BackSweep ==
  ASSUME BackInv, RestInv', changes = 0, UNCHANGED <<wh, admits, grant>>, StepsStay,
         Sweep
  PROVE  BackInv'
PROOF
  <1>1. TypeOK /\ MemoryTrue /\ FetchesAre /\ ContextTrue /\ JobsBack
    BY DEF BackInv, RestInv
  <1>2. job' = job /\ DOMAIN step' = DOMAIN step
    BY DEF Sweep, SweepMatch, SweepDelete, SweepFail
  <1>3. JobsBack'
    BY <1>1, <1>2, JobStays DEF JobsBack
  <1>4. /\ DOMAIN mem' \subseteq DOMAIN mem
        /\ \A n \in DOMAIN mem' : mem'[n] = mem[n]
    BY DEF Sweep, SweepMatch, SweepDelete, SweepFail
  <1>5. MemoryTrue'
    BY <1>1, <1>4 DEF MemoryTrue
  <1>6. FetchesAre'
    <2> SUFFICES ASSUME NEW d \in DOMAIN step, Fetched(d)' PROVE FetchIs(d)'
      BY <1>2 DEF FetchesAre
    <2>1. FetchIs(d)
      BY <1>1 DEF StepsStay, FetchesAre, Fetched
    <2>2. /\ step'[d].by = step[d].by /\ step'[d].at = step[d].at
          /\ step'[d].anchor = step[d].anchor /\ step'[d].got = step[d].got
          /\ step'[d].read \subseteq step[d].read
      BY DEF StepsStay
    <2> QED
      BY <2>1, <2>2 DEF FetchIs
  <1>7. ContextTrue'
    <2> SUFFICES ASSUME NEW d \in DOMAIN step, Fetched(d)',
                        NEW n \in step'[d].got \ lost'[d],
                        NEW t \in Kept(grant[step'[d].by])
                 PROVE  mem'[n].val[t] = wh[n][t]
      BY <1>2 DEF ContextTrue, ValuesTrue
    <2>1. StillThere(d)'
      BY <1>2 DEF RestInv, ContextKept
    <2>2. n \in DOMAIN mem'
      BY <2>1 DEF StillThere
    <2>3. /\ ValuesTrue(d) /\ n \in step[d].got \ lost[d]
          /\ t \in Kept(grant[step[d].by])
      BY <1>1 DEF StepsStay, ContextTrue, Fetched
    <2>4. mem[n].val[t] = wh[n][t]
      BY <2>3 DEF ValuesTrue
    <2> QED
      BY <1>4, <2>2, <2>4
  <1> QED
    BY <1>3, <1>5, <1>6, <1>7 DEF BackInv

LEMMA BackStep ==
  ASSUME WindowSlides PROVE BackInv /\ [Next]_vars => BackInv'
PROOF
  <1> SUFFICES ASSUME BackInv, [Next]_vars PROVE BackInv'
    OBVIOUS
  <1>0. RestInv /\ RestInv' /\ TypeOK
    BY RestStep DEF BackInv, RestInv
  <1> SUFFICES ASSUME changes' = 0 PROVE BackInv'
    BY <1>0 DEF BackInv
  <1>1. changes = 0 /\ UNCHANGED <<wh, admits, grant>> /\ StepsStay
    BY <1>0, WorldStood, StepsDoStay
  <1>2. ASSUME NEW c \in Command, Recall(c) PROVE BackInv'
    BY <1>0, <1>1, <1>2, BackBegin, BackLook, BackHop, BackEnd DEF Recall
  <1>3. CASE Sweep
    BY <1>0, <1>1, <1>3, BackSweep
  <1>4. CASE World \/ UNCHANGED vars
    <2>1. UNCHANGED <<mem, step, job, lost>>
      BY <1>0, <1>4, WorldKeeps DEF vars
    <2>2. MemoryTrue' /\ FetchesAre' /\ ContextTrue'
      BY <1>1, <2>1, MemorySaidSame DEF BackInv
    <2>3. JobsBack'
      BY <1>1, <2>1, JobStays DEF BackInv, JobsBack
    <2> QED
      BY <1>0, <2>2, <2>3 DEF BackInv
  <1> QED
    BY <1>2, <1>3, <1>4 DEF Next

LEMMA BackInit == Init => BackInv
PROOF
  <1> SUFFICES ASSUME Init PROVE BackInv
    OBVIOUS
  <1>1. \A c \in Command : ~Running(c)
    BY DEF Init, Idle, Running
  <1>2. DOMAIN step = {} /\ DOMAIN mem = {}
    BY DEF Init, NoRows
  <1>3. JobsBack
    BY <1>1, IdleBack DEF JobsBack
  <1> QED
    BY <1>1, <1>2, <1>3, RestInit DEF BackInv, MemoryTrue, FetchesAre, ContextTrue

\* While nothing changes in the world but the clock, a context read back from memory
\* that lost nothing to a sweep or to a command that began before it is the one its
\* source fetched: no row that was not in it, every row while the window has not
\* moved, and the warehouse's values; whatever other readers with other models
\* fetched into the same rows beside it
THEOREM ContextsReadBack ==
  ASSUME WindowSlides PROVE Spec => []ReadBack
PROOF
  <1>1. BackInv => ReadBack
    <2> SUFFICES ASSUME BackInv, NEW c \in Command, Delivers(c), changes = 0,
                        lost[job[c].source] = {},
                        \A n \in step[job[c].source].got :
                          ReadLasts(job[c].source, n, job[c].at)
                 PROVE  LET j == job[c]
                            s == step[j.source] IN
                        /\ DOMAIN j.rows \subseteq s.got
                        /\ Since[j.at] = Since[s.at] => DOMAIN j.rows = s.got
                        /\ \A n \in DOMAIN j.rows : \A t \in Kept(j.grant) :
                             j.rows[n].val[t] = wh[n][t]
      BY DEF ReadBack
    <2>1. PICK j : j = job[c]
      OBVIOUS
    <2>2. j.pc = "save" /\ j.origin = "memory" /\ JobBack(j) /\ SourceWhole(j)
      BY <2>1 DEF Delivers, BackInv, JobsBack, SourceWhole
    <2> DEFINE s == step[j.source]
    <2>3. /\ j.grant = grant[j.by] /\ RowsTrue(j) /\ Sourced(j)
          /\ RowsFollow(j, s.at) /\ j.hop = LastHop(Label[j.anchor], j.grant)
      BY <2>2 DEF JobBack
    <2>4. /\ FetchIs(j.source) /\ s.by = j.by /\ s.anchor = j.anchor
      BY <2>3 DEF Sourced, BackInv, FetchesAre
    <2>5. s.got = LayerOf(j, s.at, j.hop + 1)
      BY <2>3, <2>4 DEF FetchIs, LayerOf
    <2>6. s.got = LayerOf(j, s.at, Depth(j))
      BY <2>2, <2>5 DEF Depth
    <2> HIDE DEF s
    <2>7. /\ DOMAIN j.rows \subseteq s.got
          /\ Since[j.at] = Since[s.at] => DOMAIN j.rows = s.got
      BY <2>3, <2>6 DEF RowsFollow
    <2> QED
      BY <2>1, <2>3, <2>7 DEF RowsTrue, s
  <1> QED
    BY <1>1, BackInit, BackStep, PTL DEF Spec

=============================================================================
