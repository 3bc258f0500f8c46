---------------------------- MODULE ProcessProofs ----------------------------
(***************************************************************************)
(* The process graph, wherever a stage is killed.  GraphInv is its shape:  *)
(* PART_OF leads up, and only a build changes the first level.  TurnsInv   *)
(* is what it holds of the turns: an element's counts, a level's           *)
(* transitions and an element's support are counts over where each turn    *)
(* stands at a level, and each stage keeps the part of that it has not yet *)
(* written.  From it the counts of a level are conserved, roll up and      *)
(* bound the support; and what an outlook reads meanwhile is odds.         *)
(***************************************************************************)
EXTENDS Outlook, SumProofs, SequenceTheorems, TLAPS

NodeFields == {"level", "count", "ends", "stats"}

\* An element's id says its level.
NodesOk == \A e \in DOMAIN nodes : DOMAIN nodes[e] = NodeFields /\ nodes[e].level = e[2]
PartOk ==
  \A c \in DOMAIN part :
    c \in DOMAIN nodes /\ part[c] \in DOMAIN nodes /\ part[c][2] > c[2] /\ part[c][1] = c[1]
\* A first level's relationship is between elements of the first level.
RelsOk ==
  \A r \in DOMAIN rels :
    /\ DOMAIN rels[r] = {"num", "good"}
    /\ r[2] \in DOMAIN nodes /\ r[3] \in DOMAIN nodes
    /\ r[1] = 1 => r[2][2] = 1 /\ r[3][2] = 1

\* What a build still has to write is of the first level.
BuildOk ==
  /\ "stage" \in DOMAIN job
  /\ job.stage = "build" =>
       /\ DOMAIN job = {"stage", "step", "of"}
       /\ \A t \in DOMAIN job.of : job.of[t][2] = 1

\* What the next parents group is in the graph, below their level.
Below(k) == \A e \in job.top[k] : e \in DOMAIN nodes /\ e[1] = k /\ e[2] \in Nat /\ e[2] < job.level
UpTo(k) == \A e \in job.top[k] : e \in DOMAIN nodes /\ e[1] = k /\ e[2] \in Nat /\ e[2] <= job.level
Grouped(k) == \A g \in job.made[k] : g \subseteq job.top[k]
Climbing == job.stage = "abstract" /\ job.step # "clear"
AbstractOk == Climbing =>
  /\ DOMAIN job = {"stage", "step", "level", "top", "of", "stop", "made", "past"}
  /\ job.level \in Nat /\ job.level >= 2
  /\ DOMAIN job.top = Kinds
  /\ job.step = "group" => Below("state") /\ Below("action")
  /\ job.step = "state parents" =>
       Below("state") /\ Below("action") /\ Grouped("state") /\ Grouped("action")
  /\ job.step = "action parents" => UpTo("state") /\ Below("action") /\ Grouped("action")

GraphInv == NodesOk /\ PartOk /\ RelsOk /\ BuildOk /\ AbstractOk

LEMMA GraphInit == Init => GraphInv
  BY DEF Init, GraphInv, NodesOk, PartOk, RelsOk, BuildOk, AbstractOk, Climbing, Nothing, Idle

-----------------------------------------------------------------------------
(* What statements keep *)

LEMMA DetachKeeps ==
  ASSUME NodesOk, PartOk, RelsOk, NEW kept \in SUBSET DOMAIN nodes, Detach(kept)
  PROVE  NodesOk' /\ PartOk' /\ RelsOk'
  BY DEF NodesOk, PartOk, RelsOk, Detach

LEMMA LiftedOf ==
  ASSUME NEW rows, NEW of, NEW p \in Lifted(rows, of)
  PROVE  \E t, u \in rows : p = <<of[t], of[u]>>
<1>1. PICK q \in Pairs(rows) : p = <<of[q[1]], of[q[2]]>>
  BY DEF Lifted
<1>2. q[1] \in rows /\ q[2] \in rows
  BY <1>1 DEF Pairs
<1> QED
  BY <1>1, <1>2

\* What Created writes.
New(level, pairs) ==
  {<<level, p[1], p[2]>> : p \in {q \in pairs : q[1] \in DOMAIN nodes /\ q[2] \in DOMAIN nodes}}
Wrote(new) ==
  /\ DOMAIN rels' = DOMAIN rels \cup new
  /\ \A r \in new : DOMAIN rels'[r] = {"num", "good"}
  /\ \A r \in DOMAIN rels \ new : rels'[r] = rels[r]
LEMMA CreatedKeeps ==
  ASSUME RelsOk, NEW level \in Nat, NEW pairs,
         level = 1 => \A p \in pairs : p[1][2] = 1 /\ p[2][2] = 1,
         Wrote(New(level, pairs)),
         UNCHANGED nodes
  PROVE  /\ RelsOk'
         /\ \A r \in DOMAIN rels : r \in DOMAIN rels' /\ (r[1] # level => rels'[r] = rels[r])
         /\ \A r \in DOMAIN rels' : r[1] # level => r \in DOMAIN rels
<1> DEFINE new == New(level, pairs)
<1>1. \A r \in new : r[1] = level /\ r[2] \in DOMAIN nodes /\ r[3] \in DOMAIN nodes
                     /\ (level = 1 => r[2][2] = 1 /\ r[3][2] = 1)
  BY DEF New
<1> HIDE DEF new
<1>2. /\ DOMAIN rels' = DOMAIN rels \cup new
      /\ \A r \in new : DOMAIN rels'[r] = {"num", "good"}
      /\ \A r \in DOMAIN rels \ new : rels'[r] = rels[r]
  BY DEF new, Wrote
<1>3. RelsOk'
  BY <1>1, <1>2 DEF RelsOk
<1> QED
  BY <1>1, <1>2, <1>3

-----------------------------------------------------------------------------
(* build *)

LEMMA BuildKeeps == GraphInv /\ Build => GraphInv'
<1> SUFFICES ASSUME GraphInv, Build PROVE GraphInv'
  OBVIOUS
<1> USE DEF GraphInv
<1>1. CASE BuildStart
  <2>1. UNCHANGED <<nodes, rels, part>>
    BY <1>1 DEF BuildStart
  <2>2. NodesOk' /\ PartOk' /\ RelsOk'
    BY <2>1 DEF NodesOk, PartOk, RelsOk
  <2>3. PICK g \in Groupings :
          job' = [stage |-> "build", step |-> "delete", of |-> Elements(annotations, g)]
    BY <1>1 DEF BuildStart
  <2>4. \A t \in DOMAIN Elements(annotations, g) : Elements(annotations, g)[t][2] = 1
    BY DEF Elements
  <2>5. BuildOk' /\ AbstractOk'
    BY <2>3, <2>4 DEF BuildOk, AbstractOk, Climbing
  <2> QED
    BY <2>2, <2>5
<1>2. CASE BuildDelete
  <2>1. NodesOk' /\ PartOk' /\ RelsOk'
    BY <1>2, DetachKeeps DEF BuildDelete
  <2>2. BuildOk' /\ AbstractOk'
    BY <1>2 DEF BuildDelete, BuildOk, AbstractOk, Climbing
  <2> QED
    BY <2>1, <2>2
<1>3. ASSUME NEW kind, NEW step, NEW next, BuildNodes(kind, step, next) PROVE GraphInv'
  <2>1. NodesOk'
    BY <1>3 DEF BuildNodes, NodesOk, BuildOk, Node, NodeFields
  <2>2. DOMAIN nodes \subseteq DOMAIN nodes' /\ UNCHANGED <<rels, part>>
    BY <1>3 DEF BuildNodes
  <2>3. PartOk' /\ RelsOk'
    BY <2>2 DEF PartOk, RelsOk
  <2>4. BuildOk' /\ AbstractOk'
    BY <1>3 DEF BuildNodes, BuildOk, AbstractOk, Climbing
  <2> QED
    BY <2>1, <2>3, <2>4
<1>4. ASSUME NEW kind, NEW step, NEW next, BuildRels(kind, step, next) PROVE GraphInv'
  <2>1. UNCHANGED <<nodes, part>>
    BY <1>4 DEF BuildRels
  <2>2. NodesOk' /\ PartOk'
    BY <2>1 DEF NodesOk, PartOk
  <2>3. BuildOk' /\ AbstractOk'
    BY <1>4 DEF BuildRels, BuildOk, AbstractOk, Climbing
  <2> DEFINE rows == DOMAIN job.of
             pairs == {p \in Lifted(rows, job.of) : p[1][1] = kind}
             number == [p \in pairs |-> Num(rows, job.of, p[1], p[2])]
  <2>4. \A p \in pairs : p[1][2] = 1 /\ p[2][2] = 1
    <3>1. \A t \in rows : job.of[t][2] = 1
      BY <1>4 DEF BuildRels, BuildOk
    <3>2. SUFFICES ASSUME NEW p \in Lifted(rows, job.of) PROVE p[1][2] = 1 /\ p[2][2] = 1
      OBVIOUS
    <3>3. PICK t \in rows, u \in rows : p = <<job.of[t], job.of[u]>>
      BY LiftedOf
    <3> QED
      BY <3>1, <3>3
  <2>5. Wrote(New(1, pairs))
    <3>1. rels' = Created(1, pairs, number)
      BY <1>4 DEF BuildRels
    <3> HIDE DEF pairs, number
    <3>2. Created(1, pairs, number) = [r \in DOMAIN rels \cup New(1, pairs) |->
            IF r \notin New(1, pairs) THEN rels[r]
            ELSE [num |-> number[<<r[2], r[3]>>] + (IF r \in DOMAIN rels THEN rels[r].num ELSE 0),
                  good |-> IF r \in DOMAIN rels THEN rels[r].good ELSE Nil]]
      BY Zenon DEF Created, New
    <3> DEFINE new == New(1, pairs)
    <3>3. rels' = [r \in DOMAIN rels \cup new |->
            IF r \notin new THEN rels[r]
            ELSE [num |-> number[<<r[2], r[3]>>] + (IF r \in DOMAIN rels THEN rels[r].num ELSE 0),
                  good |-> IF r \in DOMAIN rels THEN rels[r].good ELSE Nil]]
      BY Zenon, <3>1, <3>2
    <3> HIDE DEF new
    <3>4. Wrote(new)
      BY <3>3 DEF Wrote
    <3> QED
      BY <3>4 DEF new
  <2> HIDE DEF pairs
  <2>6. RelsOk'
    BY <2>1, <2>4, <2>5, CreatedKeeps
  <2> QED
    BY <2>2, <2>3, <2>6
<1>5. CASE BuildRecord
  BY <1>5 DEF BuildRecord, NodesOk, PartOk, RelsOk, BuildOk, AbstractOk, Climbing, Idle
<1> QED
  BY <1>1, <1>2, <1>3, <1>4, <1>5 DEF Build

-----------------------------------------------------------------------------
(* The first level *)

FirstNodes == {e \in DOMAIN nodes : LevelOf(e) = 1}
FirstSteps == {r \in DOMAIN rels : r[1] = 1}

LEMMA FirstLevelSame ==
  ASSUME FirstNodes' = FirstNodes, FirstSteps' = FirstSteps,
         \A e \in FirstNodes : nodes'[e].count = nodes[e].count /\ nodes'[e].ends = nodes[e].ends,
         \A r \in FirstSteps : rels'[r].num = rels[r].num
  PROVE  FirstLevel' = FirstLevel
<1>1. [e \in FirstNodes' |-> <<nodes'[e].count, nodes'[e].ends>>]
        = [e \in FirstNodes |-> <<nodes[e].count, nodes[e].ends>>]
  OBVIOUS
<1>2. [r \in FirstSteps' |-> rels'[r].num] = [r \in FirstSteps |-> rels[r].num]
  OBVIOUS
<1> QED
  BY <1>1, <1>2 DEF FirstLevel, FirstNodes, FirstSteps

-----------------------------------------------------------------------------
(* Steps that leave the graph alone *)

LEMMA GraphStands ==
  ASSUME GraphInv, UNCHANGED graph, BuildOk', AbstractOk'
  PROVE  GraphInv' /\ FirstLevel' = FirstLevel
  BY DEF GraphInv, NodesOk, PartOk, RelsOk, graph, FirstLevel, LevelOf

LEMMA IdleStands ==
  ASSUME GraphInv, UNCHANGED graph, job' = Idle
  PROVE  GraphInv' /\ FirstLevel' = FirstLevel
<1>1. BuildOk' /\ AbstractOk'
  BY DEF BuildOk, AbstractOk, Climbing, Idle
<1> QED
  BY <1>1, GraphStands

LEMMA OthersKeep ==
  ASSUME GraphInv, Annotate \/ Outcomes \/ Kill \/ Group \/ AbstractEnd \/ AbsorbEnd
  PROVE  GraphInv' /\ FirstLevel' = FirstLevel
<1>1. CASE Annotate
  <2>1. UNCHANGED graph /\ job' = Idle
    BY <1>1 DEF Annotate, Start, graph
  <2> QED
    BY <2>1, IdleStands
<1>2. CASE Outcomes
  <2>1. UNCHANGED graph /\ (job' = Idle \/ job' = [stage |-> "outcomes", step |-> "types"])
    BY <1>2 DEF Outcomes, OutcomesWrite, OutcomesTypes, graph
  <2>2. CASE job' = [stage |-> "outcomes", step |-> "types"]
    <3>1. job'.stage = "outcomes" /\ "stage" \in DOMAIN job'
      BY <2>2
    <3>2. BuildOk' /\ AbstractOk'
      BY <3>1 DEF BuildOk, AbstractOk, Climbing
    <3> QED
      BY <2>1, <3>2, GraphStands
  <2> QED
    BY <2>1, <2>2, IdleStands
<1>3. CASE Kill
  <2>1. UNCHANGED graph /\ job' = Idle
    BY <1>3 DEF Kill, graph
  <2> QED
    BY <2>1, IdleStands
<1>4. CASE AbstractEnd \/ AbsorbEnd
  <2>1. UNCHANGED graph /\ job' = Idle
    BY <1>4 DEF AbstractEnd, AbsorbEnd, graph
  <2> QED
    BY <2>1, IdleStands
<1>5. CASE Group
  <2>1. PICK s \in Makes("state"), a \in Makes("action") :
          LET made == [k \in Kinds |-> IF k = "state" THEN s ELSE a]
          IN  job' = IF s = {} /\ a = {}
                     THEN [job EXCEPT !.step = "state rels", !.level = 2]
                     ELSE [job EXCEPT !.step = "state parents", !.made = made,
                                      !.stop = @ \cup {k \in Kinds : made[k] = {}}]
    BY <1>5 DEF Group
  <2>2. UNCHANGED graph /\ job.stage = "abstract" /\ job.step = "group"
    BY <1>5 DEF Group, graph
  <2>3. (\A g \in s : g \subseteq job.top["state"]) /\ (\A g \in a : g \subseteq job.top["action"])
    BY DEF Makes, Communities
  <2>4. AbstractOk
    BY DEF GraphInv
  <2>5. CASE s = {} /\ a = {}
    <3>1. job' = [job EXCEPT !.step = "state rels", !.level = 2]
      BY <2>1, <2>5
    <3>2. BuildOk' /\ AbstractOk'
      BY <2>2, <2>4, <3>1 DEF BuildOk, AbstractOk, Climbing
    <3> QED
      BY <2>2, <3>2, GraphStands
  <2>6. CASE ~ (s = {} /\ a = {})
    <3> DEFINE made == [k \in Kinds |-> IF k = "state" THEN s ELSE a]
    <3>1. job' = [job EXCEPT !.step = "state parents", !.made = made,
                             !.stop = @ \cup {k \in Kinds : made[k] = {}}]
      BY <2>1, <2>6
    <3>2. made["state"] = s /\ made["action"] = a
      BY DEF Kinds
    <3> HIDE DEF made
    <3>3. /\ job'.stage = "abstract" /\ job'.step = "state parents" /\ job'.made = made
          /\ job'.level = job.level /\ job'.top = job.top /\ DOMAIN job' = DOMAIN job
      BY <2>2, <2>4, <3>1 DEF AbstractOk, Climbing
    <3>4. Below("state")' /\ Below("action")'
      BY <2>2, <2>4, <3>3 DEF AbstractOk, Climbing, Below, graph
    <3>5. Grouped("state")' /\ Grouped("action")'
      BY <2>3, <3>2, <3>3 DEF Grouped
    <3>6. BuildOk' /\ AbstractOk'
      BY <2>2, <2>4, <3>3, <3>4, <3>5 DEF BuildOk, AbstractOk, Climbing
    <3> QED
      BY <2>2, <3>6, GraphStands
  <2> QED
    BY <2>5, <2>6
<1> QED
  BY <1>1, <1>2, <1>3, <1>4, <1>5

-----------------------------------------------------------------------------
(* absorb *)

LEMMA AbsorbKeeps ==
  ASSUME GraphInv, Absorb
  PROVE  GraphInv' /\ FirstLevel' = FirstLevel
<1> USE DEF GraphInv
<1> DEFINE Stands == /\ DOMAIN nodes' = DOMAIN nodes /\ DOMAIN rels' = DOMAIN rels /\ part' = part
                     /\ \A e \in DOMAIN nodes : DOMAIN nodes'[e] = NodeFields /\ nodes'[e].level = nodes[e].level
                          /\ nodes'[e].count = nodes[e].count /\ nodes'[e].ends = nodes[e].ends
                     /\ \A r \in DOMAIN rels : DOMAIN rels'[r] = {"num", "good"} /\ rels'[r].num = rels[r].num
<1>1. ASSUME Stands PROVE NodesOk' /\ PartOk' /\ RelsOk' /\ FirstLevel' = FirstLevel
  <2>1. NodesOk' /\ PartOk' /\ RelsOk'
    BY <1>1 DEF NodesOk, PartOk, RelsOk
  <2>2. FirstNodes' = FirstNodes /\ FirstSteps' = FirstSteps
    BY <1>1 DEF FirstNodes, FirstSteps, LevelOf
  <2>3. FirstLevel' = FirstLevel
    BY <1>1, <2>2, FirstLevelSame DEF FirstNodes, FirstSteps
  <2> QED
    BY <2>1, <2>3
<1>2. ASSUME job'.stage \notin {"build", "abstract"}, "stage" \in DOMAIN job' PROVE BuildOk' /\ AbstractOk'
  BY <1>2 DEF BuildOk, AbstractOk, Climbing
<1>3. CASE AbsorbStart
  <2>1. Stands
    BY <1>3 DEF AbsorbStart, Start, NodesOk, NodeFields, RelsOk
  <2>2. job'.stage = "absorb" /\ "stage" \in DOMAIN job'
    BY <1>3 DEF AbsorbStart
  <2> QED
    BY <1>1, <1>2, <2>1, <2>2
<1>4. CASE AbsorbRemove
  <2>1. Stands
    BY <1>4 DEF AbsorbRemove, NodesOk, RelsOk
  <2>2. job'.stage = "absorb" /\ "stage" \in DOMAIN job'
    BY <1>4 DEF AbsorbRemove
  <2> QED
    BY <1>1, <1>2, <2>1, <2>2
<1>5. ASSUME NEW kind, NEW step, NEW next, next \in {"action nodes", "state rels"},
             AbsorbNodes(kind, step, next)
      PROVE  GraphInv' /\ FirstLevel' = FirstLevel
  <2>1. Stands
    BY <1>5 DEF AbsorbNodes, NodesOk, NodeFields, RelsOk
  <2>2. job'.stage = "absorb" /\ "stage" \in DOMAIN job'
    BY <1>5 DEF AbsorbNodes, BuildOk
  <2> QED
    BY <1>1, <1>2, <2>1, <2>2
<1>6. ASSUME NEW kind, NEW step, AbsorbRels(kind, step)
      PROVE  GraphInv' /\ FirstLevel' = FirstLevel
  <2>1. Stands
    BY <1>6 DEF AbsorbRels, NodesOk, RelsOk
  <2>2. job'.stage = "absorb" /\ "stage" \in DOMAIN job'
    BY <1>6 DEF AbsorbRels, BuildOk
  <2> QED
    BY <1>1, <1>2, <2>1, <2>2
<1> QED
  BY <1>3, <1>4, <1>5, <1>6, OthersKeep DEF Absorb

-----------------------------------------------------------------------------
(* abstract *)

LEMMA StartKeeps ==
  ASSUME GraphInv, AbstractStart
  PROVE  GraphInv' /\ FirstLevel' = FirstLevel
<1> DEFINE kept == {e \in DOMAIN nodes : LevelOf(e) < 2}
<1>1. Detach(kept) /\ job' = [stage |-> "abstract", step |-> "clear"]
  BY DEF AbstractStart
<1>2. NodesOk' /\ PartOk' /\ RelsOk'
  BY <1>1, DetachKeeps DEF GraphInv
<1>3. BuildOk' /\ AbstractOk'
  BY <1>1 DEF BuildOk, AbstractOk, Climbing
<1>4. FirstNodes \subseteq kept
  BY DEF FirstNodes
<1>5. \A r \in FirstSteps : r[2] \in kept /\ r[3] \in kept
  BY DEF FirstSteps, GraphInv, RelsOk, NodesOk, LevelOf
<1>6. FirstNodes' = FirstNodes /\ \A e \in FirstNodes : nodes'[e] = nodes[e]
  BY <1>1, <1>4 DEF Detach, FirstNodes, LevelOf
<1>7. FirstSteps' = FirstSteps /\ \A r \in FirstSteps : rels'[r] = rels[r]
  BY <1>1, <1>5 DEF Detach, FirstSteps
<1> QED
  BY <1>2, <1>3, <1>6, <1>7, FirstLevelSame DEF GraphInv

LEMMA ClearKeeps ==
  ASSUME GraphInv, AbstractClear
  PROVE  GraphInv' /\ FirstLevel' = FirstLevel
<1>1. UNCHANGED <<nodes, part>> /\ rels' = [r \in FirstRels |-> rels[r]]
  BY DEF AbstractClear
<1>2. NodesOk' /\ PartOk' /\ RelsOk'
  BY <1>1 DEF GraphInv, NodesOk, PartOk, RelsOk, FirstRels
<1>3. FirstNodes' = FirstNodes /\ \A e \in FirstNodes : nodes'[e] = nodes[e]
  BY <1>1 DEF FirstNodes, LevelOf
<1>4. FirstSteps' = FirstSteps /\ \A r \in FirstSteps : rels'[r] = rels[r]
  BY <1>1 DEF FirstSteps, FirstRels
<1>5. FirstLevel' = FirstLevel
  BY <1>3, <1>4, FirstLevelSame
<1>6. CASE job' = Idle
  BY <1>2, <1>5, <1>6 DEF GraphInv, BuildOk, AbstractOk, Climbing, Idle
<1>7. CASE job' = [stage |-> "abstract", step |-> "group", level |-> 2, top |-> First,
                   of |-> observations, stop |-> {}, made |-> [k \in Kinds |-> {}], past |-> <<>>]
  <2>1. /\ job'.stage = "abstract" /\ job'.step = "group" /\ job'.level = 2 /\ job'.top = First
        /\ DOMAIN job' = {"stage", "step", "level", "top", "of", "stop", "made", "past"}
    BY <1>7
  <2>2. \A k \in Kinds : \A e \in First[k] : e \in DOMAIN nodes /\ e[1] = k /\ e[2] = 1
    BY DEF First, At, LevelOf, GraphInv, NodesOk
  <2>3. Below("state")' /\ Below("action")'
    BY <1>1, <2>1, <2>2 DEF Below, Kinds
  <2>4. DOMAIN First = Kinds
    BY DEF First
  <2>5. BuildOk' /\ AbstractOk'
    BY <2>1, <2>3, <2>4 DEF BuildOk, AbstractOk, Climbing
  <2> QED
    BY <1>2, <1>5, <2>5 DEF GraphInv
<1> QED
  BY <1>6, <1>7 DEF AbstractClear

LEMMA Two == 2 \in Nat /\ 2 >= 2
  OBVIOUS

LEMMA LevelNumbers ==
  ASSUME NEW n \in Nat, n >= 2
  PROVE  /\ n # 1 /\ n <= n /\ n < n + 1 /\ n + 1 \in Nat /\ n + 1 >= 2
         /\ \A i \in Nat : (i < n => i <= n) /\ (i <= n => i < n + 1)
  OBVIOUS

\* The parents of one kind: a new element for each group, above all in it.
LEMMA ParentsKeep ==
  ASSUME GraphInv, NEW kind \in Kinds,
         NEW step \in {"state parents", "action parents"}, (kind = "state") = (step = "state parents"),
         Parents(kind, step)
  PROVE  GraphInv' /\ FirstLevel' = FirstLevel
<1> DEFINE groups == job.made[kind]
           grouped == UNION groups
           parent(c) == <<kind, job.level, CHOOSE g \in groups : c \in g>>
           new == {<<kind, job.level, g>> : g \in groups}
           top == [job.top EXCEPT ![kind] = (@ \ grouped) \cup new]
           of == [t \in DOMAIN job.of |->
                    IF job.of[t] \in grouped THEN parent(job.of[t]) ELSE job.of[t]]
           last == job.level = MaxLevels + 1
           node(e) == Node(job.level, Sum(Counts, e[3]), Sum(EndsOf, e[3]))
<1>1. /\ job.stage = "abstract" /\ job.step = step /\ UNCHANGED rels
      /\ nodes' = [e \in DOMAIN nodes \cup new |-> IF e \in new THEN node(e) ELSE nodes[e]]
      /\ part' = [c \in DOMAIN part \cup grouped |-> IF c \in grouped THEN parent(c) ELSE part[c]]
      /\ job' = IF kind = "state"
                THEN [job EXCEPT !.step = "action parents", !.top = top, !.of = of]
                ELSE [job EXCEPT !.step = IF last THEN "state rels" ELSE "group",
                                 !.level = IF last THEN 2 ELSE @ + 1,
                                 !.top = top, !.of = of,
                                 !.past = Append(@, [top |-> top, of |-> of])]
  BY DEF Parents
<1>2. /\ DOMAIN job = {"stage", "step", "level", "top", "of", "stop", "made", "past"}
      /\ job.level \in Nat /\ job.level >= 2 /\ DOMAIN job.top = Kinds
      /\ Below(kind) /\ Grouped(kind)
      /\ kind = "state" => Below("action") /\ Grouped("action")
      /\ kind = "action" => UpTo("state")
  BY <1>1 DEF GraphInv, AbstractOk, Climbing, Kinds
<1>2a. /\ job.level \in Nat /\ job.level # 1 /\ job.level <= job.level /\ job.level < job.level + 1
       /\ job.level + 1 \in Nat /\ job.level + 1 >= 2
       /\ \A i \in Nat : (i < job.level => i <= job.level) /\ (i <= job.level => i < job.level + 1)
  BY Zenon, <1>2, LevelNumbers
<1>3. \A c \in grouped : c \in DOMAIN nodes /\ c[1] = kind /\ c[2] \in Nat /\ c[2] < job.level
  BY <1>2 DEF Below, Grouped
<1>4. \A c \in grouped : parent(c) \in new
  OBVIOUS
<1>5. \A e \in new : e[1] = kind /\ e[2] = job.level
  <2> SUFFICES ASSUME NEW g \in groups
               PROVE  <<kind, job.level, g>>[1] = kind /\ <<kind, job.level, g>>[2] = job.level
    OBVIOUS
  <2> QED
    OBVIOUS
<1>6. \A e : DOMAIN node(e) = NodeFields /\ node(e).level = job.level
  BY DEF Node, NodeFields
<1>7. (\A c \in grouped : parent(c)[1] = kind /\ parent(c)[2] = job.level)
  OBVIOUS
<1> HIDE DEF new, parent, node
<1>8. NodesOk'
  BY <1>1, <1>5, <1>6 DEF GraphInv, NodesOk
<1>9. DOMAIN nodes' = DOMAIN nodes \cup new
  BY <1>1
<1>10. PartOk'
  <2> SUFFICES ASSUME NEW c \in DOMAIN part'
               PROVE  c \in DOMAIN nodes' /\ part'[c] \in DOMAIN nodes' /\ part'[c][2] > c[2] /\ part'[c][1] = c[1]
    BY DEF PartOk
  <2> HIDE DEF grouped
  <2>1. CASE c \in grouped
    <3>1. part'[c] = parent(c)
      BY <1>1, <2>1
    <3>2. parent(c)[2] > c[2]
      BY <1>2, <1>3, <1>7, <2>1
    <3>3. c \in DOMAIN nodes' /\ c[1] = kind
      BY <1>3, <1>9, <2>1
    <3>4. parent(c) \in DOMAIN nodes' /\ parent(c)[1] = kind
      BY <1>4, <1>7, <1>9, <2>1
    <3> QED
      BY <3>1, <3>2, <3>3, <3>4
  <2>2. CASE c \notin grouped
    <3>1. c \in DOMAIN part /\ part'[c] = part[c]
      BY <1>1, <2>2
    <3>2. c \in DOMAIN nodes /\ part[c] \in DOMAIN nodes /\ part[c][2] > c[2] /\ part[c][1] = c[1]
      BY <3>1 DEF GraphInv, PartOk
    <3> QED
      BY <1>9, <3>1, <3>2
  <2> QED
    BY <2>1, <2>2
<1>11. RelsOk'
  BY <1>1, <1>9 DEF GraphInv, RelsOk
<1>12. FirstLevel' = FirstLevel
  <2>1. \A e \in new : nodes'[e].level # 1 /\ e \notin FirstNodes
    <3> SUFFICES ASSUME NEW e \in new PROVE nodes'[e].level # 1 /\ e \notin FirstNodes
      OBVIOUS
    <3>1. e[2] = job.level /\ job.level # 1
      BY Zenon, <1>2a, <1>5
    <3>2. nodes'[e] = node(e)
      BY <1>1
    <3>3. nodes'[e].level # 1
      BY <1>6, <3>1, <3>2
    <3>4. e \in DOMAIN nodes => nodes[e].level = e[2]
      BY DEF GraphInv, NodesOk
    <3>5. e \notin FirstNodes
      BY <3>1, <3>4 DEF FirstNodes, LevelOf
    <3> QED
      BY <3>3, <3>5
  <2>2. \A e \in DOMAIN nodes \ new : nodes'[e] = nodes[e]
    BY <1>1
  <2>3. FirstNodes' = FirstNodes /\ \A e \in FirstNodes : nodes'[e] = nodes[e]
    BY <1>9, <2>1, <2>2 DEF FirstNodes, LevelOf
  <2>4. FirstSteps' = FirstSteps /\ \A r \in FirstSteps : rels'[r] = rels[r]
    BY <1>1 DEF FirstSteps
  <2> QED
    BY <2>3, <2>4, FirstLevelSame
<1>13. BuildOk' /\ AbstractOk'
  <2> HIDE DEF top, of, groups, grouped
  <2>1. DOMAIN top = Kinds /\ \A k \in Kinds \ {kind} : top[k] = job.top[k]
    BY <1>2 DEF top
  <2>2. top[kind] \subseteq job.top[kind] \cup new
    BY <1>2 DEF top
  <2>3. CASE kind = "state"
    <3>1. /\ job'.stage = "abstract" /\ job'.step = "action parents" /\ job'.top = top
          /\ job'.level = job.level /\ job'.made = job.made /\ DOMAIN job' = DOMAIN job
      BY <1>1, <1>2, <2>3
    <3>2. top["action"] = job.top["action"] /\ top["state"] \subseteq job.top["state"] \cup new
      BY <2>1, <2>2, <2>3 DEF Kinds
    <3>3. Below("action")' /\ Grouped("action")'
      BY <1>2, <1>9, <2>3, <3>1, <3>2 DEF Below, Grouped
    <3>4. UpTo("state")'
      <4>1. SUFFICES ASSUME NEW e \in top["state"]
                     PROVE  e \in DOMAIN nodes' /\ e[1] = "state" /\ e[2] \in Nat /\ e[2] <= job.level
        BY <3>1 DEF UpTo
      <4>2. CASE e \in job.top["state"]
        BY <1>2, <1>2a, <1>9, <2>3, <4>2 DEF Below
      <4>3. CASE e \in new
        <5>1. e[1] = "state" /\ e[2] = job.level
          BY Zenon, <1>5, <2>3, <4>3
        <5> QED
          BY <1>2a, <1>9, <4>3, <5>1
      <4> QED
        BY <3>2, <4>2, <4>3
    <3> QED
      BY <1>2, <2>1, <3>1, <3>3, <3>4 DEF BuildOk, AbstractOk, Climbing
  <2>4. CASE kind = "action"
    <3>1. /\ job'.stage = "abstract" /\ job'.top = top /\ DOMAIN job' = DOMAIN job
          /\ \/ job'.step = "state rels" /\ job'.level = 2
             \/ job'.step = "group" /\ job'.level = job.level + 1
      BY <1>1, <1>2, <2>4
    <3>2. top["state"] = job.top["state"] /\ top["action"] \subseteq job.top["action"] \cup new
      BY <2>1, <2>2, <2>4 DEF Kinds
    <3>3. ASSUME job'.level = job.level + 1 PROVE Below("state")' /\ Below("action")'
      <4>1. \A e \in job.top["state"] :
              e \in DOMAIN nodes' /\ e[1] = "state" /\ e[2] \in Nat /\ e[2] < job.level + 1
        <5> SUFFICES ASSUME NEW e \in job.top["state"]
                     PROVE  e \in DOMAIN nodes' /\ e[1] = "state" /\ e[2] \in Nat /\ e[2] < job.level + 1
          OBVIOUS
        <5> QED
          BY <1>2, <1>2a, <1>9, <2>4 DEF UpTo
      <4>2. \A e \in top["action"] :
              e \in DOMAIN nodes' /\ e[1] = "action" /\ e[2] \in Nat /\ e[2] < job.level + 1
        <5> SUFFICES ASSUME NEW e \in top["action"]
                     PROVE  e \in DOMAIN nodes' /\ e[1] = "action" /\ e[2] \in Nat /\ e[2] < job.level + 1
          OBVIOUS
        <5>1. CASE e \in job.top["action"]
          BY <1>2, <1>2a, <1>9, <2>4, <5>1 DEF Below
        <5>2. CASE e \in new
          <6>1. e[1] = "action" /\ e[2] = job.level
            BY Zenon, <1>5, <2>4, <5>2
          <6> QED
            BY <1>2a, <1>9, <5>2, <6>1
        <5> QED
          BY <3>2, <5>1, <5>2
      <4> QED
        BY <3>1, <3>2, <3>3, <4>1, <4>2 DEF Below
    <3>4. "stage" \in DOMAIN job' /\ DOMAIN job'.top = Kinds /\ job'.stage # "build"
      BY <1>2, <2>1, <3>1
    <3>5. CASE job'.step = "state rels" /\ job'.level = 2
      <4>1. job'.level \in Nat /\ job'.level >= 2
        BY Zenon, <3>5, Two
      <4>2. job'.step \notin {"group", "state parents", "action parents"}
        BY <3>5
      <4> QED
        BY Zenon, <1>2, <3>1, <3>4, <4>1, <4>2 DEF BuildOk, AbstractOk, Climbing
    <3>6. CASE job'.step = "group" /\ job'.level = job.level + 1
      <4>1. job'.level \in Nat /\ job'.level >= 2
        BY Zenon, <1>2a, <3>6
      <4>2. job'.step \notin {"state parents", "action parents"}
        BY <3>6
      <4> QED
        BY Zenon, <1>2, <3>1, <3>3, <3>4, <3>6, <4>1, <4>2 DEF BuildOk, AbstractOk, Climbing
    <3> QED
      BY <3>1, <3>5, <3>6
  <2> QED
    BY <2>3, <2>4 DEF Kinds
<1> QED
  BY <1>8, <1>10, <1>11, <1>12, <1>13 DEF GraphInv

\* The transitions of a level above the first.
LEMMA TransitionsKeep ==
  ASSUME GraphInv, NEW kind \in Kinds, NEW step \in {"state rels", "action rels"}, Transitions(kind, step)
  PROVE  GraphInv' /\ FirstLevel' = FirstLevel
<1> DEFINE at == job.past[job.level - 1]
           rows == DOMAIN at.of
           pairs == {p \in Lifted(rows, at.of) : p[1] \in at.top[kind]}
           number == [p \in pairs |-> Num(rows, at.of, p[1], p[2])]
<1>1. /\ job.stage = "abstract" /\ job.step = step /\ UNCHANGED <<nodes, part>>
      /\ rels' = Created(job.level, pairs, number)
      /\ job' = IF kind = "state" THEN [job EXCEPT !.step = "action rels"]
                ELSE [job EXCEPT !.step = "state rels", !.level = @ + 1]
  BY DEF Transitions
<1>2. /\ DOMAIN job = {"stage", "step", "level", "top", "of", "stop", "made", "past"}
      /\ job.level \in Nat /\ job.level >= 2 /\ DOMAIN job.top = Kinds
  BY <1>1 DEF GraphInv, AbstractOk, Climbing
<1>3. job.level # 1 /\ job.level + 1 \in Nat /\ job.level + 1 >= 2
  BY Zenon, <1>2, LevelNumbers
<1>4. Wrote(New(job.level, pairs))
  <2>1. rels' = Created(job.level, pairs, number)
    BY <1>1
  <2> HIDE DEF pairs, number
  <2>2. Created(job.level, pairs, number) = [r \in DOMAIN rels \cup New(job.level, pairs) |->
          IF r \notin New(job.level, pairs) THEN rels[r]
          ELSE [num |-> number[<<r[2], r[3]>>] + (IF r \in DOMAIN rels THEN rels[r].num ELSE 0),
                good |-> IF r \in DOMAIN rels THEN rels[r].good ELSE Nil]]
    BY Zenon DEF Created, New
  <2> DEFINE new == New(job.level, pairs)
  <2>3. rels' = [r \in DOMAIN rels \cup new |->
          IF r \notin new THEN rels[r]
          ELSE [num |-> number[<<r[2], r[3]>>] + (IF r \in DOMAIN rels THEN rels[r].num ELSE 0),
                good |-> IF r \in DOMAIN rels THEN rels[r].good ELSE Nil]]
    BY Zenon, <2>1, <2>2
  <2> HIDE DEF new
  <2>4. Wrote(new)
    BY <2>3 DEF Wrote
  <2> QED
    BY <2>4 DEF new
<1> HIDE DEF pairs
<1>6. /\ RelsOk'
      /\ \A r \in DOMAIN rels : r \in DOMAIN rels' /\ (r[1] # job.level => rels'[r] = rels[r])
      /\ \A r \in DOMAIN rels' : r[1] # job.level => r \in DOMAIN rels
  <2>1. job.level = 1 => \A p \in pairs : p[1][2] = 1 /\ p[2][2] = 1
    BY Zenon, <1>3
  <2>2. RelsOk /\ UNCHANGED nodes
    BY <1>1 DEF GraphInv
  <2>3. job.level \in Nat
    BY <1>2
  <2> QED
    BY <1>4, <2>1, <2>2, <2>3, CreatedKeeps
<1>7. FirstLevel' = FirstLevel
  <2>1. FirstNodes' = FirstNodes /\ \A e \in FirstNodes : nodes'[e] = nodes[e]
    BY <1>1 DEF FirstNodes, LevelOf
  <2>2. FirstSteps' = FirstSteps /\ \A r \in FirstSteps : rels'[r] = rels[r]
    BY Zenon, <1>3, <1>6 DEF FirstSteps
  <2> QED
    BY <2>1, <2>2, FirstLevelSame
<1>8. BuildOk' /\ AbstractOk'
  <2>1. /\ DOMAIN job' = DOMAIN job /\ job'.stage = "abstract" /\ job'.top = job.top
        /\ job'.step \in {"state rels", "action rels"}
        /\ job'.level \in {job.level, job.level + 1}
    BY <1>1, <1>2
  <2>2. job'.level \in Nat /\ job'.level >= 2
    BY Zenon, <1>2, <1>3, <2>1
  <2>3. job'.step \notin {"group", "state parents", "action parents"} /\ job'.stage # "build"
    BY <2>1
  <2>4. "stage" \in DOMAIN job'
    BY <1>2, <2>1
  <2> QED
    BY Zenon, <1>2, <2>1, <2>2, <2>3, <2>4 DEF BuildOk, AbstractOk, Climbing
<1>9. NodesOk' /\ PartOk'
  BY <1>1 DEF GraphInv, NodesOk, PartOk
<1> QED
  BY <1>6, <1>7, <1>8, <1>9 DEF GraphInv

LEMMA AbstractKeeps ==
  ASSUME GraphInv, Abstract
  PROVE  GraphInv' /\ FirstLevel' = FirstLevel
<1>1. "state" \in Kinds /\ "action" \in Kinds
  BY DEF Kinds
<1>2. CASE Parents("state", "state parents")
  BY <1>1, <1>2, ParentsKeep
<1>3. CASE Parents("action", "action parents")
  BY <1>1, <1>3, ParentsKeep
<1>4. CASE Transitions("state", "state rels") \/ Transitions("action", "action rels")
  BY <1>1, <1>4, TransitionsKeep
<1> QED
  BY <1>2, <1>3, <1>4, StartKeeps, ClearKeeps, OthersKeep DEF Abstract

-----------------------------------------------------------------------------
(* Every step *)

LEMMA GraphStep ==
  ASSUME GraphInv, [OutlookNext]_outlookVars
  PROVE  GraphInv' /\ (job.stage # "build" => FirstLevel' = FirstLevel)
<1>1. CASE UNCHANGED vars
  <2>1. UNCHANGED graph /\ UNCHANGED job
    BY <1>1 DEF vars, graph
  <2>2. BuildOk' /\ AbstractOk'
    BY <2>1 DEF GraphInv, BuildOk, AbstractOk, Climbing, Below, UpTo, Grouped, graph
  <2> QED
    BY <2>1, <2>2, GraphStands
<1>2. CASE Locate
  <2>1. UNCHANGED graph /\ UNCHANGED job
    BY <1>2 DEF Locate, graph
  <2>2. BuildOk' /\ AbstractOk'
    BY <2>1 DEF GraphInv, BuildOk, AbstractOk, Climbing, Below, UpTo, Grouped, graph
  <2> QED
    BY <2>1, <2>2, GraphStands
<1>3. CASE Build
  <2>1. GraphInv'
    BY <1>3, BuildKeeps
  <2>2. ASSUME job.stage # "build" PROVE FirstLevel' = FirstLevel
    <3>1. UNCHANGED graph
      BY <1>3, <2>2 DEF Build, BuildStart, BuildDelete, BuildNodes, BuildRels, BuildRecord, graph
    <3> QED
      BY <3>1 DEF FirstLevel, LevelOf, graph
  <2> QED
    BY <2>1, <2>2
<1>4. CASE Next
  BY <1>3, <1>4, AbstractKeeps, AbsorbKeeps, OthersKeep DEF Next
<1>5. UNCHANGED vars \/ Locate \/ Next
  BY DEF OutlookNext, Ask, ReadStates, ReadNexts, ReadBase, outlookVars
<1> QED
  BY <1>1, <1>2, <1>4, <1>5

\* The graph keeps its shape wherever a stage is killed.
THEOREM GraphKept == OutlookSpec => []GraphInv
<1>1. OutlookInit => GraphInv
  BY GraphInit DEF OutlookInit
<1>2. GraphInv /\ [OutlookNext]_outlookVars => GraphInv'
  BY GraphStep
<1> QED
  BY <1>1, <1>2, PTL DEF OutlookSpec

\* PART_OF leads up from every element to one of its kind that is there, so
\* the walk of absorb.ancestor_at ends: in every graph a stage, killed or
\* whole, leaves.
THEOREM PartOfLeadsUp == OutlookSpec => []Upward
<1>1. GraphInv => Upward
  BY DEF GraphInv, NodesOk, PartOk, Upward, LevelOf
<1> QED
  BY <1>1, GraphKept, PTL

\* No stage but the build writes the first level's elements, counts and
\* transitions: what abstract clears and lifts, and what absorb writes, is
\* beside them.
THEOREM FirstLevelKept == OutlookSpec => FirstLevelStands
<1>1. GraphInv /\ [OutlookNext]_outlookVars => [job.stage # "build" => FirstLevel' = FirstLevel]_vars
  BY GraphStep
<1> QED
  BY <1>1, GraphKept, PTL DEF OutlookSpec, FirstLevelStands

-----------------------------------------------------------------------------
(* Turns: what is counted of them adds up *)

LEMMA EventsFinite == IsFiniteSet(Events)
<1> DEFINE of == [c \in Conversations |-> {<<c, i>> : i \in 1 .. Len(Script[c])}]
           parts == {{<<c, i>> : i \in 1 .. Len(Script[c])} : c \in Conversations}
<1>1. \A y \in parts : \E c \in Conversations : of[c] = y
  OBVIOUS
<1>2. IsFiniteSet(parts)
  <2> HIDE DEF of, parts
  <2> QED
    BY <1>1, TurnsAssumption, CountImage
<1>3. \A y \in parts : IsFiniteSet(y)
  <2> SUFFICES ASSUME NEW c \in Conversations PROVE IsFiniteSet({<<c, i>> : i \in 1 .. Len(Script[c])})
    OBVIOUS
  <2> DEFINE n == Len(Script[c])
             turn == [i \in 1 .. n |-> <<c, i>>]
             turns == {<<c, i>> : i \in 1 .. n}
  <2>1. n \in Nat
    BY TurnsAssumption
  <2>2. \A y \in turns : \E i \in 1 .. n : turn[i] = y
    OBVIOUS
  <2>3. IsFiniteSet(1 .. n)
    BY <2>1, FS_Interval
  <2> HIDE DEF turn, turns, n
  <2>4. IsFiniteSet(turns)
    BY <2>2, <2>3, CountImage
  <2> QED
    BY <2>4 DEF turns, n
<1> HIDE DEF parts
<1>4. IsFiniteSet(UNION parts)
  BY <1>2, <1>3, FS_UNION
<1> QED
  BY <1>4 DEF Events, parts

LEMMA EventShape ==
  ASSUME NEW t \in Events
  PROVE  t = <<t[1], t[2]>> /\ t[1] \in Conversations /\ t[1] \in Nat /\ t[2] \in Nat /\ Kind(t) \in Kinds
<1>1. PICK c \in Conversations : t \in {<<c, i>> : i \in 1 .. Len(Script[c])}
  BY DEF Events
<1>2. PICK i \in 1 .. Len(Script[c]) : t = <<c, i>>
  BY <1>1
<1>3. Script[c] \in Seq(Kinds) /\ c \in Nat
  BY TurnsAssumption
<1>4. Script[c][i] \in Kinds /\ i \in Nat
  BY <1>2, <1>3
<1>5. t[1] = c /\ t[2] = i
  BY <1>2
<1> QED
  BY <1>2, <1>3, <1>4, <1>5 DEF Kind

LEMMA RowsFinite ==
  ASSUME NEW rows \in SUBSET Events
  PROVE  IsFiniteSet(rows) /\ IsFiniteSet(Pairs(rows))
<1>1. IsFiniteSet(rows)
  BY EventsFinite, FS_Subset
<1>2. IsFiniteSet(rows \X rows)
  BY <1>1, FS_Product
<1>3. Pairs(rows) \in SUBSET (rows \X rows)
  BY DEF Pairs
<1> QED
  BY <1>1, <1>2, <1>3, FS_Subset

LEMMA PairShape ==
  ASSUME NEW rows, NEW p \in Pairs(rows)
  PROVE  /\ p = <<p[1], p[2]>> /\ p[1] \in rows /\ p[2] \in rows
         /\ Follows(rows, p[1], p[2]) /\ Kind(p[2]) = Other(Kind(p[1]))
  BY DEF Pairs

\* One turn follows a turn, so one pair begins with it.
LEMMA OnePair ==
  ASSUME NEW rows \in SUBSET Events, NEW p \in Pairs(rows), NEW q \in Pairs(rows), p[1] = q[1]
  PROVE  p = q
<1> DEFINE t == p[1]
           u == p[2]
           v == q[2]
<1>1. /\ p = <<t, u>> /\ q = <<t, v>> /\ u \in rows /\ v \in rows
      /\ Follows(rows, t, u) /\ Follows(rows, t, v)
  BY PairShape
<1>2. u[2] \in Nat /\ v[2] \in Nat /\ u = <<u[1], u[2]>> /\ v = <<v[1], v[2]>>
  BY <1>1, EventShape
<1>3. u[1] = t[1] /\ v[1] = t[1] /\ t[2] < u[2] /\ t[2] < v[2]
      /\ ~ (t[2] < v[2] /\ v[2] < u[2]) /\ ~ (t[2] < u[2] /\ u[2] < v[2])
  BY <1>1 DEF Follows
<1> HIDE DEF t, u, v
<1>4. u[2] = v[2]
  BY <1>2, <1>3
<1>5. u = v
  BY <1>2, <1>3, <1>4
<1> QED
  BY <1>1, <1>5

\* The pairs of P between elements a and b.
Led(P, of, a, b) == {p \in P : of[p[1]] = a /\ of[p[2]] = b}
\* The pairs that begin in e.
Out(rows, of, e) == {p \in Pairs(rows) : of[p[1]] = e}

\* An element's turns are those that ended there and those that led on.
LEMMA CountSplits ==
  ASSUME NEW rows \in SUBSET Events, NEW of, NEW e
  PROVE  /\ Count(rows, of, e) = Ends(rows, of, e) + Cardinality(Out(rows, of, e))
         /\ Count(rows, of, e) \in Nat /\ Ends(rows, of, e) \in Nat
<1> DEFINE all == {t \in rows : of[t] = e}
           ended == {t \in rows : of[t] = e /\ \A p \in Pairs(rows) : p[1] # t}
           led == {t \in rows : of[t] = e /\ \E p \in Pairs(rows) : p[1] = t}
           first == [p \in Out(rows, of, e) |-> p[1]]
<1>1. IsFiniteSet(all) /\ IsFiniteSet(ended) /\ IsFiniteSet(led)
  <2>1. all \in SUBSET rows /\ ended \in SUBSET rows /\ led \in SUBSET rows
    OBVIOUS
  <2> HIDE DEF all, ended, led
  <2> QED
    BY <2>1, RowsFinite, FS_Subset
<1>2. IsFiniteSet(Out(rows, of, e))
  <2>1. Out(rows, of, e) \in SUBSET Pairs(rows)
    BY DEF Out
  <2> QED
    BY <2>1, RowsFinite, FS_Subset
<1>3. all = ended \cup led /\ ended \cap led = {}
  OBVIOUS
<1>4. \A t \in led : \E p \in Out(rows, of, e) : first[p] = t
  BY DEF Out
<1>5. \A p \in Out(rows, of, e) : first[p] \in led
  BY PairShape DEF Out
<1>6. \A p, q \in Out(rows, of, e) : first[p] = first[q] => p = q
  <2> SUFFICES ASSUME NEW p \in Out(rows, of, e), NEW q \in Out(rows, of, e), p[1] = q[1] PROVE p = q
    OBVIOUS
  <2> QED
    BY OnePair DEF Out
<1>7. Cardinality(led) = Cardinality(Out(rows, of, e))
  <2> HIDE DEF first, led
  <2> QED
    BY <1>2, <1>4, <1>5, <1>6, CountImage
<1>8. Cardinality(all) = Cardinality(ended) + Cardinality(led)
  <2> HIDE DEF all, ended, led
  <2>1. Cardinality(ended \cup led) = Cardinality(ended) + Cardinality(led)
    BY <1>1, <1>3, CountTwo
  <2> QED
    BY Zenon, <1>3, <2>1
<1>9. Cardinality(all) \in Nat /\ Cardinality(ended) \in Nat
  BY <1>1, FS_CardinalityType
<1>10. Count(rows, of, e) = Cardinality(all) /\ Ends(rows, of, e) = Cardinality(ended)
  BY DEF Count, Ends
<1> HIDE DEF all, ended, led
<1> QED
  BY <1>7, <1>8, <1>9, <1>10

\* What leads from an element, over all it leads to: C holds a relationship
\* <<level, e, b>> for every b a pair leads to, and num says how often.
LeadsFrom(rows, of, e, level, C, num) ==
  /\ \A p \in Pairs(rows) : of[p[1]] = e => <<level, e, of[p[2]]>> \in C
  /\ \A r \in C : /\ r = <<level, e, r[3]>> /\ num[r] = Num(rows, of, e, r[3])
                  /\ \E p \in Pairs(rows) : of[p[1]] = e /\ of[p[2]] = r[3]
LEMMA CountConserved ==
  ASSUME NEW rows \in SUBSET Events, NEW of, NEW e, NEW level, NEW C, NEW num,
         LeadsFrom(rows, of, e, level, C, num)
  PROVE  Count(rows, of, e) = Ends(rows, of, e) + Sum(num, C)
<1> USE DEF LeadsFrom
<1> DEFINE S == Out(rows, of, e)
           h == [p \in S |-> <<level, e, of[p[2]]>>]
<1>1. IsFiniteSet(S)
  <2>1. S \in SUBSET Pairs(rows)
    BY DEF Out
  <2> QED
    BY <2>1, RowsFinite, FS_Subset
<1>2. \A p \in S : h[p] \in C
  BY DEF Out
<1>3. \A r \in C : \E p \in S : h[p] = r
  <2> SUFFICES ASSUME NEW r \in C PROVE \E p \in S : h[p] = r
    OBVIOUS
  <2>1. PICK p \in Pairs(rows) : of[p[1]] = e /\ of[p[2]] = r[3]
    OBVIOUS
  <2>2. p \in S /\ h[p] = <<level, e, r[3]>>
    BY <2>1 DEF Out
  <2> QED
    BY <2>2
<1>4. \A r \in C : num[r] = Cardinality(Part(S, h, r))
  <2> SUFFICES ASSUME NEW r \in C PROVE num[r] = Cardinality(Part(S, h, r))
    OBVIOUS
  <2>1. \A p \in Pairs(rows) : of[p[1]] = e => (<<level, e, of[p[2]]>> = r <=> of[p[2]] = r[3])
    OBVIOUS
  <2>2. Part(S, h, r) = {p \in Pairs(rows) : of[p[1]] = e /\ of[p[2]] = r[3]}
    BY <2>1 DEF Part, Out
  <2>3. num[r] = Num(rows, of, e, r[3])
    OBVIOUS
  <2> QED
    BY Zenon, <2>2, <2>3 DEF Num
<1> HIDE DEF S, h
<1>5. IsFiniteSet(C)
  BY <1>1, <1>3, CountImage
<1>6. Cardinality(S) = Sum(num, C)
  BY <1>1, <1>2, <1>4, <1>5, CountParts
<1> QED
  BY <1>6, CountSplits DEF S

\* The pairs between two elements are those between what they are made of:
\* C holds a relationship for every two elements of `base` a pair of P
\* between a and b is in, and no other.
LeadsBeneath(P, of, base, a, b, C, num) ==
  /\ \A p \in P : of[p[1]] = a /\ of[p[2]] = b => <<1, base[p[1]], base[p[2]]>> \in C
  /\ \A q \in C : q = <<1, q[2], q[3]>> /\ num[q] = Cardinality(Led(P, base, q[2], q[3]))
  /\ \A q \in C, p \in P : base[p[1]] = q[2] /\ base[p[2]] = q[3] => of[p[1]] = a /\ of[p[2]] = b
LEMMA CountRolled ==
  ASSUME NEW P, IsFiniteSet(P), NEW of, NEW base, NEW a, NEW b, NEW C, IsFiniteSet(C), NEW num,
         LeadsBeneath(P, of, base, a, b, C, num)
  PROVE  Cardinality(Led(P, of, a, b)) = Sum(num, C)
<1> USE DEF LeadsBeneath
<1> DEFINE S == Led(P, of, a, b)
           h == [p \in S |-> <<1, base[p[1]], base[p[2]]>>]
<1>1. IsFiniteSet(S)
  <2>1. S \in SUBSET P
    BY DEF Led
  <2> QED
    BY <2>1, FS_Subset
<1>2. \A p \in S : h[p] \in C
  BY DEF Led
<1>3. \A q \in C : num[q] = Cardinality(Part(S, h, q))
  <2> SUFFICES ASSUME NEW q \in C PROVE num[q] = Cardinality(Part(S, h, q))
    OBVIOUS
  <2>1. \A p \in S : h[p] = q <=> base[p[1]] = q[2] /\ base[p[2]] = q[3]
    <3> SUFFICES ASSUME NEW p \in S PROVE h[p] = q <=> base[p[1]] = q[2] /\ base[p[2]] = q[3]
      OBVIOUS
    <3>1. h[p] = <<1, base[p[1]], base[p[2]]>> /\ q = <<1, q[2], q[3]>>
      OBVIOUS
    <3> HIDE DEF h, S
    <3> QED
      BY <3>1
  <2>2. Part(S, h, q) = Led(P, base, q[2], q[3])
    <3> HIDE DEF h
    <3> QED
      BY <2>1 DEF Part, Led
  <2>3. num[q] = Cardinality(Led(P, base, q[2], q[3]))
    OBVIOUS
  <2> QED
    BY Zenon, <2>2, <2>3
<1> HIDE DEF S, h
<1>4. Cardinality(S) = Sum(num, C)
  BY <1>1, <1>2, <1>3, CountParts
<1> QED
  BY <1>4 DEF S


-----------------------------------------------------------------------------
(* The walk up PART_OF, over any nodes N and any parents P that lead up *)

WalkOk(N, P) ==
  /\ \A e \in DOMAIN N : e[2] \in Nat /\ N[e].level = e[2]
  /\ \A c \in DOMAIN P : c \in DOMAIN N /\ P[c] \in DOMAIN N /\ P[c][2] > c[2] /\ P[c][1] = c[1]
Goes(N, P, level, x) == x \in DOMAIN P /\ N[P[x]].level <= level
Walks(N, P, level, g) ==
  g = [x \in DOMAIN N |-> IF x \in DOMAIN P /\ N[P[x]].level <= level THEN g[P[x]] ELSE x]
Walk(N, P, level) == CHOOSE g : Walks(N, P, level, g)
\* How far an element is below the level.
Under(level, x) == IF x[2] <= level THEN level - x[2] ELSE 0

LEMMA AncestorIsWalk ==
  ASSUME NEW e \in DOMAIN nodes, NEW level
  PROVE  AncestorAt(e, level) = Walk(nodes, part, level)[e]
<1>1. DOMAIN nodes \cup {e} = DOMAIN nodes
  OBVIOUS
<1> QED
  BY <1>1, Zenon DEF AncestorAt, Walk, Walks, LevelOf

LEMMA AncestorIsWalkNext ==
  ASSUME NEW e \in DOMAIN nodes', NEW level
  PROVE  AncestorAt(e, level)' = Walk(nodes', part', level)[e]
<1>1. DOMAIN nodes' \cup {e} = DOMAIN nodes'
  OBVIOUS
<1> QED
  BY <1>1, Zenon DEF AncestorAt, Walk, Walks, LevelOf

\* A step up is nearer to the level.
LEMMA GoesNearer ==
  ASSUME NEW N, NEW P, WalkOk(N, P), NEW level \in Nat, NEW x \in DOMAIN N
  PROVE  /\ Under(level, x) \in Nat
         /\ Goes(N, P, level, x) => P[x] \in DOMAIN N /\ P[x][2] <= level /\ Under(level, P[x]) < Under(level, x)
<1>1. x[2] \in Nat
  BY DEF WalkOk
<1>2. ASSUME Goes(N, P, level, x)
      PROVE  P[x] \in DOMAIN N /\ P[x][2] \in Nat /\ P[x][2] > x[2] /\ P[x][2] <= level
  BY <1>2 DEF WalkOk, Goes
<1> QED
  BY <1>1, <1>2 DEF Under

\* What obeys the walk's recursion on the way up is alike.
LEMMA WalksAgree ==
  ASSUME NEW N, NEW P, WalkOk(N, P), NEW level \in Nat, NEW g, NEW h,
         \A x \in DOMAIN N : g[x] = IF Goes(N, P, level, x) THEN g[P[x]] ELSE x,
         \A x \in DOMAIN N : h[x] = IF Goes(N, P, level, x) THEN h[P[x]] ELSE x
  PROVE  \A x \in DOMAIN N : g[x] = h[x]
<1> DEFINE B == {x \in DOMAIN N : g[x] # h[x]}
           far == {Under(level, x) : x \in B}
<1> SUFFICES ASSUME B # {} PROVE FALSE
  OBVIOUS
<1>1. far \subseteq Nat /\ far # {}
  BY GoesNearer
<1>2. PICK n \in far : \A m \in far : n <= m
  <2> HIDE DEF far
  <2> QED
    BY <1>1, LeastNumber
<1>3. PICK x \in B : n = Under(level, x)
  OBVIOUS
<1>4. x \in DOMAIN N /\ g[x] # h[x]
  OBVIOUS
<1>5. Goes(N, P, level, x)
  BY <1>4
<1>6. P[x] \in DOMAIN N /\ Under(level, P[x]) < Under(level, x) /\ Under(level, P[x]) \in Nat
      /\ Under(level, x) \in Nat
  BY <1>4, <1>5, GoesNearer
<1>7. g[P[x]] # h[P[x]]
  BY <1>4, <1>5
<1>8. Under(level, P[x]) \in far
  BY <1>6, <1>7
<1>9. Under(level, x) <= Under(level, P[x])
  BY <1>2, <1>3, <1>8
<1> HIDE DEF B, far
<1> QED
  BY <1>6, <1>9

LEMMA WalkExists ==
  ASSUME NEW N, NEW P, WalkOk(N, P), NEW level \in Nat
  PROVE  Walks(N, P, level, Walk(N, P, level))
<1> DEFINE D(n) == {x \in DOMAIN N : Under(level, x) < n}
           Is(n, g) == g = [x \in D(n) |-> IF Goes(N, P, level, x) THEN g[P[x]] ELSE x]
           B == {n \in Nat : ~ \E g : Is(n, g)}
<1>1. B = {}
  <2> SUFFICES ASSUME B # {} PROVE FALSE
    OBVIOUS
  <2>1. PICK n \in B : \A m \in B : n <= m
    <3>1. B \subseteq Nat
      OBVIOUS
    <3> HIDE DEF B
    <3> QED
      BY <3>1, LeastNumber
  <2>2. n # 0
    <3>1. D(0) = {}
      BY GoesNearer
    <3>2. Is(0, [x \in {} |-> x])
      BY <3>1
    <3> QED
      BY <3>2
  <2>3. n \in Nat /\ n - 1 \in Nat /\ n - 1 \notin B
    <3>1. n \in Nat
      OBVIOUS
    <3> HIDE DEF B
    <3> QED
      BY <2>1, <2>2, <3>1
  <2>4. PICK g : Is(n - 1, g)
    BY <2>3
  <2> DEFINE h == [x \in D(n) |-> IF Goes(N, P, level, x) THEN g[P[x]] ELSE x]
  <2>5. \A x \in D(n) : Goes(N, P, level, x) => h[P[x]] = g[P[x]]
    <3> SUFFICES ASSUME NEW x \in DOMAIN N, Under(level, x) < n, Goes(N, P, level, x) PROVE h[P[x]] = g[P[x]]
      OBVIOUS
    <3>1. P[x] \in DOMAIN N /\ Under(level, P[x]) < n - 1 /\ Under(level, P[x]) < n
      BY <2>3, GoesNearer
    <3>2. P[x] \in D(n - 1) /\ P[x] \in D(n)
      BY <3>1
    <3> HIDE DEF D
    <3>3. g[P[x]] = IF Goes(N, P, level, P[x]) THEN g[P[P[x]]] ELSE P[x]
      BY <2>4, <3>2
    <3> QED
      BY <3>2, <3>3
  <2>6. h = [x \in D(n) |-> IF Goes(N, P, level, x) THEN h[P[x]] ELSE x]
    <3>1. \A x \in D(n) : h[x] = IF Goes(N, P, level, x) THEN h[P[x]] ELSE x
      BY <2>5
    <3>2. h = [x \in D(n) |-> h[x]]
      OBVIOUS
    <3> HIDE DEF h, D
    <3> QED
      BY <3>1, <3>2
  <2>7. Is(n, h)
    <3> HIDE DEF h, D
    <3> QED
      BY <2>6
  <2> QED
    BY <2>7
<1>2. level + 1 \in Nat
  OBVIOUS
<1>3. PICK g : Is(level + 1, g)
  BY <1>1, <1>2
<1>4. D(level + 1) = DOMAIN N
  <2> SUFFICES ASSUME NEW x \in DOMAIN N PROVE Under(level, x) < level + 1
    OBVIOUS
  <2>1. x[2] \in Nat
    BY DEF WalkOk
  <2> QED
    BY <2>1 DEF Under
<1> HIDE DEF D
<1>5. Walks(N, P, level, g)
  BY <1>3, <1>4 DEF Walks, Goes
<1> QED
  BY <1>5 DEF Walk

LEMMA WalkStep ==
  ASSUME NEW N, NEW P, WalkOk(N, P), NEW level \in Nat, NEW x \in DOMAIN N
  PROVE  Walk(N, P, level)[x] = IF Goes(N, P, level, x) THEN Walk(N, P, level)[P[x]] ELSE x
<1>1. Walks(N, P, level, Walk(N, P, level))
  BY WalkExists
<1> DEFINE g == Walk(N, P, level)
<1> HIDE DEF g
<1>2. Walks(N, P, level, g)
  BY <1>1 DEF g
<1>3. g[x] = IF Goes(N, P, level, x) THEN g[P[x]] ELSE x
  BY <1>2 DEF Walks, Goes
<1> QED
  BY <1>3 DEF g

\* The walk is whatever obeys its recursion.
LEMMA WalkIs ==
  ASSUME NEW N, NEW P, WalkOk(N, P), NEW level \in Nat, NEW h,
         \A x \in DOMAIN N : h[x] = IF Goes(N, P, level, x) THEN h[P[x]] ELSE x
  PROVE  \A x \in DOMAIN N : Walk(N, P, level)[x] = h[x]
<1>1. \A x \in DOMAIN N :
        Walk(N, P, level)[x] = IF Goes(N, P, level, x) THEN Walk(N, P, level)[P[x]] ELSE x
  BY WalkStep
<1> QED
  BY <1>1, WalksAgree

\* Induction up the walk: what is wrong of an element is wrong of its parent.
LEMMA WalkLast ==
  ASSUME NEW N, NEW P, WalkOk(N, P), NEW level \in Nat, NEW B, B \subseteq DOMAIN N,
         \A x \in B : Goes(N, P, level, x) /\ P[x] \in B
  PROVE  B = {}
<1> DEFINE far == {Under(level, x) : x \in B}
<1> SUFFICES ASSUME B # {} PROVE FALSE
  OBVIOUS
<1>1. far \subseteq Nat /\ far # {}
  BY GoesNearer
<1>2. PICK n \in far : \A m \in far : n <= m
  <2> HIDE DEF far
  <2> QED
    BY <1>1, LeastNumber
<1>3. PICK x \in B : n = Under(level, x)
  OBVIOUS
<1>4. Under(level, P[x]) < Under(level, x) /\ Under(level, P[x]) \in Nat /\ Under(level, x) \in Nat
  BY GoesNearer
<1>5. Under(level, x) <= Under(level, P[x])
  BY <1>2, <1>3
<1> HIDE DEF far
<1> QED
  BY <1>4, <1>5

\* An element's ancestor at a level is one of its kind, no lower than it and,
\* but for itself, no higher than the level; and it has no parent so low.
LEMMA WalkEnds ==
  ASSUME NEW N, NEW P, WalkOk(N, P), NEW level \in Nat
  PROVE  \A x \in DOMAIN N : LET a == Walk(N, P, level)[x]
           IN  /\ a \in DOMAIN N /\ a[1] = x[1] /\ a[2] >= x[2] /\ (a = x \/ a[2] <= level)
               /\ ~ Goes(N, P, level, a)
<1> DEFINE w == Walk(N, P, level)
           Fine(x) == /\ w[x] \in DOMAIN N /\ w[x][1] = x[1] /\ w[x][2] >= x[2] /\ (w[x] = x \/ w[x][2] <= level)
                      /\ ~ Goes(N, P, level, w[x])
           B == {x \in DOMAIN N : ~ Fine(x)}
<1>1. \A x \in DOMAIN N : w[x] = IF Goes(N, P, level, x) THEN w[P[x]] ELSE x
  BY WalkStep
<1> HIDE DEF w
<1>2. ASSUME NEW x \in B PROVE Goes(N, P, level, x) /\ P[x] \in B
  <2>1. x \in DOMAIN N /\ ~ Fine(x) /\ x[2] \in Nat
    BY DEF WalkOk
  <2>2. Goes(N, P, level, x)
    <3> SUFFICES ASSUME ~ Goes(N, P, level, x) PROVE FALSE
      OBVIOUS
    <3>1. w[x] = x
      BY <1>1, <2>1
    <3> QED
      BY <2>1, <3>1
  <2>3. w[x] = w[P[x]] /\ P[x] \in DOMAIN N /\ P[x][2] <= level /\ P[x][2] > x[2] /\ P[x][1] = x[1] /\ P[x][2] \in Nat
    BY <1>1, <2>1, <2>2, GoesNearer DEF Goes, WalkOk
  <2>4. ~ Fine(P[x])
    <3> SUFFICES ASSUME Fine(P[x]) PROVE Fine(x)
      BY <2>1
    <3>1. w[x][2] \in Nat
      BY <2>3 DEF WalkOk
    <3> QED
      BY <2>1, <2>3, <3>1
  <2> QED
    BY <2>2, <2>3, <2>4
<1>3. B = {}
  <2>1. B \subseteq DOMAIN N
    OBVIOUS
  <2> HIDE DEF B
  <2> QED
    BY <1>2, <2>1, WalkLast
<1> QED
  BY <1>3 DEF w

LEMMA WalkEndsAt ==
  ASSUME NEW N, NEW P, WalkOk(N, P), NEW level \in Nat, NEW x \in DOMAIN N, NEW a, a = Walk(N, P, level)[x]
  PROVE  /\ a \in DOMAIN N /\ a[1] = x[1] /\ a[2] >= x[2] /\ (a = x \/ a[2] <= level)
         /\ ~ Goes(N, P, level, a)
  BY WalkEnds

\* Up to a level, and on from there.
LEMMA WalkOn ==
  ASSUME NEW N, NEW P, WalkOk(N, P), NEW low \in Nat, NEW high \in Nat, low <= high
  PROVE  \A x \in DOMAIN N : Walk(N, P, high)[Walk(N, P, low)[x]] = Walk(N, P, high)[x]
<1> DEFINE lo == Walk(N, P, low)
           hi == Walk(N, P, high)
           B == {x \in DOMAIN N : hi[lo[x]] # hi[x]}
<1>1. \A x \in DOMAIN N : lo[x] = IF Goes(N, P, low, x) THEN lo[P[x]] ELSE x
  BY WalkStep
<1>2. \A x \in DOMAIN N : hi[x] = IF Goes(N, P, high, x) THEN hi[P[x]] ELSE x
  BY WalkStep
<1> HIDE DEF lo, hi
<1>3. ASSUME NEW x \in B PROVE Goes(N, P, low, x) /\ P[x] \in B
  <2>1. x \in DOMAIN N /\ hi[lo[x]] # hi[x]
    OBVIOUS
  <2>2. Goes(N, P, low, x)
    BY <1>1, <2>1
  <2>3. Goes(N, P, high, x) /\ P[x] \in DOMAIN N
    BY <2>2 DEF Goes, WalkOk
  <2> QED
    BY <1>1, <1>2, <2>1, <2>2, <2>3
<1>4. B = {}
  <2>1. B \subseteq DOMAIN N
    OBVIOUS
  <2> HIDE DEF B
  <2> QED
    BY <1>3, <2>1, WalkLast
<1> QED
  BY <1>4 DEF lo, hi

\* An ancestor that is not the element itself is reached through a child:
\* the element's ancestor at the child's level.
LEMMA WalkThroughChild ==
  ASSUME NEW N, NEW P, WalkOk(N, P), NEW level \in Nat, NEW x \in DOMAIN N, Walk(N, P, level)[x] # x
  PROVE  \E c \in DOMAIN P : P[c] = Walk(N, P, level)[x] /\ Walk(N, P, c[2])[x] = c
<1> DEFINE w == Walk(N, P, level)
           Fine(y) == w[y] # y => \E c \in DOMAIN P : P[c] = w[y] /\ Walk(N, P, c[2])[y] = c
           B == {y \in DOMAIN N : ~ Fine(y)}
<1>1. \A y \in DOMAIN N : w[y] = IF Goes(N, P, level, y) THEN w[P[y]] ELSE y
  BY WalkStep
<1> HIDE DEF w
<1>2. ASSUME NEW y \in B PROVE Goes(N, P, level, y) /\ P[y] \in B
  <2>1. y \in DOMAIN N /\ ~ Fine(y) /\ w[y] # y
    OBVIOUS
  <2>2. Goes(N, P, level, y)
    BY <1>1, <2>1
  <2>3. /\ y \in DOMAIN P /\ P[y] \in DOMAIN N /\ w[y] = w[P[y]] /\ P[y][2] \in Nat /\ y[2] \in Nat
        /\ P[y][2] > y[2] /\ N[P[y]].level = P[y][2]
    BY <1>1, <2>1, <2>2 DEF Goes, WalkOk
  <2>4. ASSUME Fine(P[y]) PROVE FALSE
    <3>1. CASE w[P[y]] = P[y]
      <4>1. ~ Goes(N, P, y[2], y)
        BY <2>3 DEF Goes
      <4>2. Walk(N, P, y[2])[y] = y
        BY <2>1, <2>3, <4>1, WalkStep
      <4> QED
        BY <2>1, <2>3, <3>1, <4>2
    <3>2. CASE w[P[y]] # P[y]
      <4>1. PICK c \in DOMAIN P : P[c] = w[P[y]] /\ Walk(N, P, c[2])[P[y]] = c
        BY <2>4, <3>2
      <4>2. c \in DOMAIN N /\ c[2] \in Nat
        BY DEF WalkOk
      <4>3. c[2] >= P[y][2]
        BY <2>3, <4>1, <4>2, WalkEndsAt
      <4>4. Goes(N, P, c[2], y)
        BY <2>3, <4>2, <4>3 DEF Goes
      <4>5. Walk(N, P, c[2])[y] = c
        BY <2>1, <4>1, <4>2, <4>4, WalkStep
      <4> QED
        BY <2>1, <2>3, <4>1, <4>5
    <3> QED
      BY <3>1, <3>2
  <2> QED
    BY <2>2, <2>3, <2>4
<1>3. B = {}
  <2>1. B \subseteq DOMAIN N
    OBVIOUS
  <2> HIDE DEF B
  <2> QED
    BY <1>2, <2>1, WalkLast
<1> QED
  BY <1>3 DEF w


-----------------------------------------------------------------------------
(* What a graph holds of the turns: nodes N, relationships R, parents P,   *)
(* and `of`, the element of each turn at the first level                   *)

Heights == Nat \ {0}
HeightsOf(N) == {N[e].level : e \in DOMAIN N}
\* The element each turn is in at a level.
StoodIn(N, P, of, level) == [t \in DOMAIN of |-> Walk(N, P, level)[of[t]]]
\* Turns' elements as a build makes them.
FirstOf(of) ==
  /\ DOMAIN of \subseteq Events /\ of = [t \in DOMAIN of |-> of[t]]
  /\ \A t \in DOMAIN of : of[t][1] = Kind(t) /\ of[t][2] = 1

\* The elements the turns are in at a level have their counts; a relationship
\* of the level is of a pair of turns, with its number; every pair has one.
CountedBy(N, at) ==
  \A t \in DOMAIN at : /\ N[at[t]].count = Count(DOMAIN at, at, at[t])
                       /\ N[at[t]].ends = Ends(DOMAIN at, at, at[t])
FitsBy(R, at, r) ==
  /\ \E p \in Pairs(DOMAIN at) : r[2] = at[p[1]] /\ r[3] = at[p[2]]
  /\ R[r].num = Num(DOMAIN at, at, r[2], r[3])
CompleteBy(R, at, level) ==
  \A p \in Pairs(DOMAIN at) : <<level, at[p[1]], at[p[2]]>> \in DOMAIN R

\* A built graph, and one whose levels are all there.
Holds(N, R, P, of) ==
  /\ \A e \in DOMAIN N : e[2] = 1 => \E t \in DOMAIN of : of[t] = e
  /\ \A t \in DOMAIN of : of[t] \in DOMAIN N
  /\ \A l \in Heights : CountedBy(N, StoodIn(N, P, of, l))
  /\ CompleteBy(R, of, 1)
  /\ \A r \in DOMAIN R : r[1] \in HeightsOf(N) => FitsBy(R, StoodIn(N, P, of, r[1]), r)
  /\ \A r \in DOMAIN R : R[r].good # Nil => R[r].good <= R[r].num
Carried(N, R, P, of) ==
  /\ \A r \in DOMAIN R : r[1] \in HeightsOf(N)
  /\ \A l \in HeightsOf(N) : CompleteBy(R, StoodIn(N, P, of, l), l)

\* The absorption of the outcomes oc, `at` a level's elements.
ToldIn(at, oc) == {t \in DOMAIN at : oc[t[1]] # Nil}
ThroughIn(at, oc, e) == {t[1] : t \in {u \in ToldIn(at, oc) : at[u] = e}}
Supports(S, at, oc, e) ==
  LET C == ThroughIn(at, oc, e)
  IN  /\ C # {} /\ S.n = Cardinality(C)
      /\ S.good = Sum([c \in C |-> oc[c].good], C)
      /\ S.kinds = [o \in Types |-> Cardinality({c \in C : oc[c].type = o})]
WellIn(at, oc) == {p \in Pairs(ToldIn(at, oc)) : oc[p[1][1]].good = 1}
TakenIn(at, oc, r) == \E p \in Pairs(ToldIn(at, oc)) : at[p[1]] = r[2] /\ at[p[2]] = r[3]
GoodIn(good, at, oc, r) ==
  good = IF TakenIn(at, oc, r) THEN Cardinality(Led(WellIn(at, oc), at, r[2], r[3])) ELSE Nil
Absorbed(N, R, P, of, oc) ==
  /\ \A e \in DOMAIN N : N[e].stats # Nil /\ Supports(N[e].stats, StoodIn(N, P, of, e[2]), oc, e)
  /\ \A r \in DOMAIN R : r[1] \in HeightsOf(N) => GoodIn(R[r].good, StoodIn(N, P, of, r[1]), oc, r)

-----------------------------------------------------------------------------
(* What the stages keep of the turns *)

Stood(level) == StoodIn(nodes, part, observations, level)

Lifting == job.stage = "abstract" /\ job.step \in {"group", "state parents", "action parents"}
Carrying == job.stage = "abstract" /\ job.step \in {"state rels", "action rels"}

\* What a stage reads is there, and stays while it runs.
FilesInv ==
  /\ annotations \in (SUBSET Events) \cup {Nil}
  /\ observations # Nil => FirstOf(observations)
  /\ outcomes \in Endings \cup {Nil}
  /\ types \in (SUBSET Types) \cup {Nil}
  /\ left \in [Commands -> Nat] /\ done \subseteq Stages
  /\ "stage" \in DOMAIN job /\ job.stage \in Stages \cup {"none"}
  /\ job.stage = "build" => FirstOf(job.of)
  /\ job.stage = "outcomes" => outcomes \in Endings
  /\ job.stage = "absorb" => observations # Nil /\ outcomes \in Endings
  /\ job.stage = "abstract" =>
       job.step = "clear" \/ ((Lifting \/ Carrying) /\ observations # Nil /\ DOMAIN job.of = DOMAIN observations)

\* Counts are numbers of finitely many elements, the levels without a gap.
NumbersInv ==
  /\ IsFiniteSet(DOMAIN nodes)
  /\ \A e \in DOMAIN nodes : e[2] \in Heights /\ nodes[e].count \in Nat /\ nodes[e].ends \in Nat
  /\ \A r \in DOMAIN rels :
       r = <<r[1], r[2], r[3]>> /\ r[1] \in Heights /\ rels[r].num \in Nat /\ rels[r].good \in Nat \cup {Nil}
  /\ \A e \in DOMAIN nodes : \A l \in 1 .. e[2] : l \in Levels
\* The next level has the one below it, and will have an element.
MadeInv == Lifting =>
  /\ job.level > 2 => job.level - 1 \in Levels
  /\ job.step # "group" => \A k \in Kinds : \A g \in job.made[k] : g # {}
  /\ job.step = "state parents" => job.made["state"] # {} \/ job.made["action"] # {}
  /\ job.step = "action parents" => job.level \in Levels \/ job.made["action"] # {}

\* Support is a count of conversations, each ended in one kind.
IsSupport(S) ==
  S.n \in Nat /\ S.n > 0 /\ S.good \in Nat /\ S.good <= S.n /\ Sum(S.kinds, Types) = S.n
StatsInv == \A e \in DOMAIN nodes : nodes[e].stats # Nil => IsSupport(nodes[e].stats)

\* What a build has written so far.
NodeKinds(step) ==
  {k \in Kinds : step # "state nodes" /\ (k = "state" \/ step # "action nodes")}
RelKinds(step) ==
  {k \in Kinds : step = "record" \/ (step = "action rels" /\ k = "state")}
WroteNodes(N, of, kinds) ==
  /\ DOMAIN N = {of[t] : t \in {u \in DOMAIN of : Kind(u) \in kinds}}
  /\ \A e \in DOMAIN N : N[e].count = Count(DOMAIN of, of, e) /\ N[e].ends = Ends(DOMAIN of, of, e)
WroteRels(R, of, kinds) ==
  /\ DOMAIN R = {<<1, p[1], p[2]>> : p \in {q \in Lifted(DOMAIN of, of) : q[1][1] \in kinds}}
  /\ \A r \in DOMAIN R : R[r].num = Num(DOMAIN of, of, r[2], r[3]) /\ R[r].good = Nil
BuildInv ==
  job.stage = "build" /\ job.step # "delete" =>
    /\ job.step \in {"state nodes", "action nodes", "state rels", "action rels", "record"}
    /\ done = {} /\ DOMAIN part = {}
    /\ WroteNodes(nodes, job.of, NodeKinds(job.step)) /\ WroteRels(rels, job.of, RelKinds(job.step))

BuiltInv ==
  /\ "build" \in done => FirstOf(observations) /\ Holds(nodes, rels, part, observations)
  /\ {"build", "abstract"} \subseteq done => Carried(nodes, rels, part, observations)

\* What the climb keeps of the turns, level by level.
PastOk(i) ==
  LET at == job.past[i]
  IN  /\ at.of = Stood(i + 1)
      /\ \A t \in DOMAIN observations : at.of[t] \in at.top[Kind(t)]
      /\ \A k \in Kinds : \A e \in at.top[k] : e[1] = k
Entries(s) == {s[i] : i \in DOMAIN s}
ClimbInv ==
  Lifting \/ Carrying =>
    /\ job.past \in Seq(Entries(job.past))
    /\ \A i \in DOMAIN job.past : DOMAIN job.past[i].of = DOMAIN observations
    /\ "build" \in done =>
         /\ \A i \in DOMAIN job.past : PastOk(i)
         /\ \A t \in DOMAIN observations : job.of[t] \in job.top[Kind(t)]
Apart(groups) == \A g, h \in groups : (\E c \in g : c \in h) => g = h
LiftInv ==
  "build" \in done /\ Lifting =>
    /\ Len(job.past) = job.level - 2
    /\ \A l \in Heights : l >= job.level => job.of = Stood(l)
    /\ \A k \in Kinds : \A e \in job.top[k] : e \notin DOMAIN part
    /\ \A e \in DOMAIN nodes : e[2] < job.level \/ (job.step = "action parents" /\ e[1] = "state" /\ e[2] = job.level)
    /\ \A r \in DOMAIN rels : r[1] = 1
    /\ job.step # "group" => \A k \in Kinds : Apart(job.made[k])
    /\ \A k \in Kinds : \A e \in job.top[k] : \E t \in DOMAIN observations : e = job.of[t]
CarryInv ==
  "build" \in done /\ Carrying =>
    /\ job.level <= Len(job.past) + 2
    /\ job.step = "action rels" => job.level - 1 \in DOMAIN job.past
    /\ \A e \in DOMAIN nodes : e[2] <= Len(job.past) + 1
    /\ \A l \in Heights : l > 1 /\ l <= Len(job.past) + 1 => l \in Levels
    /\ \A r \in DOMAIN rels : FitsBy(rels, Stood(r[1]), r)
    /\ \A r \in DOMAIN rels :
         r[1] < job.level \/ (r[1] = job.level /\ job.step = "action rels" /\ r[2][1] = "state")
    /\ \A l \in Heights : l < job.level => CompleteBy(rels, Stood(l), l)
    /\ job.step = "action rels" =>
         \A p \in Pairs(DOMAIN observations) : Kind(p[1]) = "state" =>
           <<job.level, Stood(job.level)[p[1]], Stood(job.level)[p[2]]>> \in DOMAIN rels

\* The absorption, by the outcomes it read.
Handled(r) ==
  r[1] < job.level \/ (r[1] = job.level /\ job.step = "action rels" /\ r[2][1] = "state")
Absorbing == job.stage = "absorb" /\ job.step # "remove"
AbsorbInv ==
  /\ job.stage = "absorb" =>
       job.step \in {"remove", "state nodes", "action nodes", "state rels", "action rels"}
  /\ job.stage = "absorb" /\ job.step = "remove" => \A e \in DOMAIN nodes : nodes[e].stats = Nil
  /\ Absorbing =>
       DOMAIN job = {"stage", "step", "level"} /\ job.level \in Heights /\ (job.step # "state nodes" => job.level \in Levels)
  /\ Absorbing /\ "build" \in done =>
       /\ \A e \in DOMAIN nodes : nodes[e].stats # Nil => Supports(nodes[e].stats, Stood(e[2]), outcomes, e)
       /\ \A r \in DOMAIN rels : r[1] \in Levels =>
            IF Handled(r) THEN GoodIn(rels[r].good, Stood(r[1]), outcomes, r) ELSE rels[r].good = Nil
AbsorbedInv ==
  {"build", "absorb"} \subseteq done =>
    \E oc \in Endings : Absorbed(nodes, rels, part, observations, oc)

\* What a stage that is running has undone.
UndoneInv ==
  /\ job.stage \in {"abstract", "absorb"} => "absorb" \notin done
  /\ job.stage = "abstract" => "abstract" \notin done
  /\ job.stage = "abstract" /\ job.step = "clear" =>
       DOMAIN part = {} /\ \A e \in DOMAIN nodes : e[2] < 2

TurnsInv ==
  /\ FilesInv /\ NumbersInv /\ MadeInv /\ StatsInv /\ BuildInv /\ BuiltInv /\ ClimbInv /\ LiftInv /\ CarryInv
  /\ AbsorbInv /\ AbsorbedInv /\ UndoneInv

LookInv ==
  /\ DOMAIN look = {"step", "near", "states", "nexts", "base", "sound"}
  /\ \A e \in DOMAIN look.states : IsSupport(look.states[e])
  /\ \A r \in DOMAIN look.nexts :
       /\ look.nexts[r].action # Nil => IsSupport(look.nexts[r].action)
       /\ look.sound /\ look.nexts[r].good # Nil => look.nexts[r].good <= look.nexts[r].num
  /\ look.step = "answered" =>
       /\ look.base.good <= look.base.n
       /\ \A r \in DOMAIN look.nexts : look.nexts[r].good # Nil /\ look.nexts[r].action # Nil


-----------------------------------------------------------------------------
(* What a graph that holds the turns shows *)

LEMMA GraphWalks == GraphInv /\ NumbersInv => WalkOk(nodes, part)
  BY DEF GraphInv, NodesOk, PartOk, NumbersInv, Heights, WalkOk

LEMMA StoodShape ==
  ASSUME NEW N, NEW R, NEW P, NEW of, WalkOk(N, P), FirstOf(of), Holds(N, R, P, of), NEW l \in Heights,
         NEW at, at = StoodIn(N, P, of, l)
  PROVE  /\ DOMAIN at = DOMAIN of /\ DOMAIN of \in SUBSET Events
         /\ \A t \in DOMAIN of :
              /\ at[t] = Walk(N, P, l)[of[t]] /\ at[t] \in DOMAIN N /\ at[t][1] = Kind(t)
              /\ at[t][2] \in Nat /\ at[t][2] >= 1 /\ at[t][2] <= l
<1>1. DOMAIN at = DOMAIN of /\ DOMAIN of \in SUBSET Events
  BY DEF StoodIn, FirstOf
<1>2. ASSUME NEW t \in DOMAIN of
      PROVE  /\ at[t] = Walk(N, P, l)[of[t]] /\ at[t] \in DOMAIN N /\ at[t][1] = Kind(t)
             /\ at[t][2] \in Nat /\ at[t][2] >= 1 /\ at[t][2] <= l
  <2>1. of[t] \in DOMAIN N /\ of[t][1] = Kind(t) /\ of[t][2] = 1 /\ l \in Nat /\ l >= 1
    BY DEF Holds, FirstOf, Heights
  <2>2. at[t] = Walk(N, P, l)[of[t]]
    BY DEF StoodIn
  <2>3. /\ at[t] \in DOMAIN N /\ at[t][1] = of[t][1] /\ at[t][2] >= of[t][2]
        /\ (at[t] = of[t] \/ at[t][2] <= l)
    BY <2>1, <2>2, WalkEndsAt
  <2>4. at[t][2] \in Nat
    BY <2>3 DEF WalkOk
  <2> QED
    BY <2>1, <2>2, <2>3, <2>4
<1> QED
  BY <1>1, <1>2

LEMMA StoodFirst ==
  ASSUME NEW N, NEW P, NEW of, WalkOk(N, P), FirstOf(of), \A t \in DOMAIN of : of[t] \in DOMAIN N
  PROVE  \A t \in DOMAIN of : StoodIn(N, P, of, 1)[t] = of[t]
<1> SUFFICES ASSUME NEW t \in DOMAIN of PROVE StoodIn(N, P, of, 1)[t] = of[t]
  OBVIOUS
<1>1. ~ Goes(N, P, 1, of[t])
  <2>1. of[t] \in DOMAIN P => P[of[t]][2] > 1 /\ P[of[t]] \in DOMAIN N
    BY DEF WalkOk, FirstOf
  <2>2. of[t] \in DOMAIN P => N[P[of[t]]].level = P[of[t]][2] /\ P[of[t]][2] \in Nat
    BY <2>1 DEF WalkOk
  <2> QED
    BY <2>1, <2>2 DEF Goes
<1>2. Walk(N, P, 1)[of[t]] = of[t]
  BY <1>1, WalkStep
<1> QED
  BY <1>2 DEF StoodIn

-----------------------------------------------------------------------------
(* Conserved *)

\* A level that every pair of turns has a relationship in.
Full(N, R, P, of, l) ==
  /\ CompleteBy(R, StoodIn(N, P, of, l), l)
  /\ \A r \in DOMAIN R : r[1] = l => r = <<r[1], r[2], r[3]>> /\ FitsBy(R, StoodIn(N, P, of, l), r)

LEMMA LevelConserved ==
  ASSUME NEW N, NEW R, NEW P, NEW of, WalkOk(N, P), FirstOf(of), Holds(N, R, P, of),
         NEW l \in Heights, Full(N, R, P, of, l), NEW t \in DOMAIN of, NEW e, e = StoodIn(N, P, of, l)[t],
         NEW num, \A r \in DOMAIN R : num[r] = R[r].num
  PROVE  N[e].count = N[e].ends + Sum(num, {r \in DOMAIN R : r[1] = l /\ r[2] = e})
<1> DEFINE at == StoodIn(N, P, of, l)
           C == {r \in DOMAIN R : r[1] = l /\ r[2] = e}
<1>1. DOMAIN at = DOMAIN of /\ DOMAIN at \in SUBSET Events
  BY StoodShape
<1>2. N[e].count = Count(DOMAIN at, at, e) /\ N[e].ends = Ends(DOMAIN at, at, e)
  BY <1>1 DEF Holds, CountedBy
<1>3. \A p \in Pairs(DOMAIN at) : at[p[1]] = e => <<l, e, at[p[2]]>> \in C
  BY DEF Full, CompleteBy
<1>4. \A r \in C : /\ r = <<l, e, r[3]>> /\ num[r] = Num(DOMAIN at, at, e, r[3])
                    /\ \E p \in Pairs(DOMAIN at) : at[p[1]] = e /\ at[p[2]] = r[3]
  <2> SUFFICES ASSUME NEW r \in C
               PROVE  /\ r = <<l, e, r[3]>> /\ num[r] = Num(DOMAIN at, at, e, r[3])
                      /\ \E p \in Pairs(DOMAIN at) : at[p[1]] = e /\ at[p[2]] = r[3]
    OBVIOUS
  <2>1. r \in DOMAIN R /\ r[1] = l /\ r[2] = e /\ r = <<r[1], r[2], r[3]>> /\ FitsBy(R, at, r)
    BY DEF Full
  <2> HIDE DEF at, C
  <2> QED
    BY <2>1 DEF FitsBy
<1> DEFINE rows == DOMAIN at
<1> HIDE DEF at, C, rows
<1>5. Count(rows, at, e) = Ends(rows, at, e) + Sum(num, C)
  <2>1. rows \in SUBSET Events /\ LeadsFrom(rows, at, e, l, C, num)
    BY <1>1, <1>3, <1>4 DEF rows, LeadsFrom
  <2> QED
    BY <2>1, CountConserved
<1> QED
  BY <1>2, <1>5 DEF C, rows

\* A level that is whole is full.
LEMMA LevelFull ==
  ASSUME GraphInv, NumbersInv, FilesInv, BuiltInv, "build" \in done, NEW l \in Levels, l = 1 \/ "abstract" \in done
  PROVE  Full(nodes, rels, part, observations, l) /\ l \in Heights
<1>1. WalkOk(nodes, part) /\ Holds(nodes, rels, part, observations) /\ FirstOf(observations)
  BY GraphWalks DEF BuiltInv, FilesInv
<1>2. Levels = HeightsOf(nodes)
  BY DEF Levels, HeightsOf, LevelOf
<1>3. l \in Heights
  BY DEF Levels, LevelOf, GraphInv, NodesOk, NumbersInv
<1>4. \A r \in DOMAIN rels : r[1] = l => r = <<r[1], r[2], r[3]>> /\ FitsBy(rels, Stood(l), r)
  BY <1>1, <1>2 DEF Holds, NumbersInv, Stood
<1>5. CompleteBy(rels, Stood(l), l)
  <2>1. CASE "abstract" \in done
    BY <1>2, <2>1 DEF BuiltInv, Carried, Stood
  <2>2. CASE l = 1
    <3>1. \A t \in DOMAIN observations : Stood(1)[t] = observations[t]
      BY <1>1, StoodFirst DEF Holds, Stood
    <3>2. DOMAIN Stood(1) = DOMAIN observations
      BY DEF Stood, StoodIn
    <3>3. CompleteBy(rels, observations, 1)
      BY <1>1 DEF Holds
    <3>4. \A p \in Pairs(DOMAIN observations) : p[1] \in DOMAIN observations /\ p[2] \in DOMAIN observations
      BY PairShape
    <3> QED
      BY <2>2, <3>1, <3>2, <3>3, <3>4 DEF CompleteBy
  <2> QED
    BY <2>1, <2>2
<1> QED
  BY <1>3, <1>4, <1>5 DEF Full, Stood

\* What stands at a level is where a turn stands.
LEMMA StandingIs ==
  ASSUME GraphInv, NumbersInv, FilesInv, BuiltInv, "build" \in done, NEW l \in Heights, NEW e \in Standing(l)
  PROVE  \E t \in DOMAIN observations : e = Stood(l)[t]
<1>1. Holds(nodes, rels, part, observations)
  BY DEF BuiltInv
<1>2. PICK x \in First["state"] \cup First["action"] : e = AncestorAt(x, l)
  BY DEF Standing
<1>3. x \in DOMAIN nodes /\ x[2] = 1
  BY <1>2 DEF First, At, LevelOf, Kinds, GraphInv, NodesOk
<1>4. PICK t \in DOMAIN observations : observations[t] = x
  BY <1>1, <1>3 DEF Holds
<1>5. e = Walk(nodes, part, l)[x]
  BY <1>2, <1>3, AncestorIsWalk
<1> QED
  BY <1>4, <1>5 DEF Stood, StoodIn

LEMMA StandsThere ==
  ASSUME GraphInv, NumbersInv, FilesInv, BuiltInv, "build" \in done, NEW l \in Heights, NEW t \in DOMAIN observations
  PROVE  Stood(l)[t] \in Standing(l)
<1>1. Holds(nodes, rels, part, observations) /\ FirstOf(observations)
  BY DEF BuiltInv, FilesInv
<1>2. observations[t] \in DOMAIN nodes /\ observations[t][1] = Kind(t) /\ observations[t][2] = 1 /\ Kind(t) \in Kinds
  BY <1>1, EventShape DEF Holds, FirstOf
<1>3. LevelOf(observations[t]) = 1
  BY <1>2 DEF LevelOf, GraphInv, NodesOk
<1>4. observations[t] \in First["state"] \cup First["action"]
  BY <1>2, <1>3 DEF First, At, Kinds
<1>5. Stood(l)[t] = AncestorAt(observations[t], l)
  BY <1>2, AncestorIsWalk DEF Stood, StoodIn
<1> QED
  BY <1>4, <1>5 DEF Standing

LEMMA ConservedHolds ==
  GraphInv /\ NumbersInv /\ FilesInv /\ BuiltInv => Conserved
<1> SUFFICES ASSUME GraphInv, NumbersInv, FilesInv, BuiltInv, NEW l \in Levels, Built(l), NEW e \in Standing(l)
             PROVE  nodes[e].count = nodes[e].ends + Sum(NumOf, From(l, e))
  BY DEF Conserved
<1>1. "build" \in done /\ (l = 1 \/ "abstract" \in done)
  BY DEF Built
<1>2. WalkOk(nodes, part) /\ Holds(nodes, rels, part, observations) /\ FirstOf(observations)
  BY <1>1, GraphWalks DEF BuiltInv, FilesInv
<1>3. Full(nodes, rels, part, observations, l) /\ l \in Heights
  BY <1>1, LevelFull
<1>4. PICK t \in DOMAIN observations : e = StoodIn(nodes, part, observations, l)[t]
  BY <1>1, <1>3, StandingIs DEF Stood
<1>5. \A r \in DOMAIN rels : NumOf[r] = rels[r].num
  BY DEF NumOf
<1> QED
  BY <1>2, <1>3, <1>4, <1>5, LevelConserved DEF From


-----------------------------------------------------------------------------
(* RollsUp *)

\* Where a turn stands is its element's ancestor.
LEMMA StoodIsAncestor ==
  ASSUME GraphInv, NumbersInv, FilesInv, BuiltInv, "build" \in done, NEW l \in Heights,
         NEW t \in DOMAIN observations
  PROVE  Stood(l)[t] = AncestorAt(observations[t], l) /\ observations[t] \in DOMAIN nodes
<1>1. Holds(nodes, rels, part, observations)
  BY DEF BuiltInv
<1>2. observations[t] \in DOMAIN nodes
  BY <1>1 DEF Holds
<1> QED
  BY <1>2, AncestorIsWalk DEF Stood, StoodIn

\* What a whole hierarchy says of its relationships: the first level's by the
\* observations, each level's by where the turns stand there.
LEMMA RelsSay ==
  ASSUME GraphInv, NumbersInv, FilesInv, BuiltInv, {"build", "abstract"} \subseteq done,
         NEW r \in DOMAIN rels
  PROVE  /\ r = <<r[1], r[2], r[3]>> /\ r[1] \in Levels /\ r[1] \in Heights
         /\ FitsBy(rels, Stood(r[1]), r)
         /\ r[1] = 1 => FitsBy(rels, observations, r)
<1>1. WalkOk(nodes, part) /\ Holds(nodes, rels, part, observations) /\ FirstOf(observations)
  BY GraphWalks DEF BuiltInv, FilesInv
<1>2. r[1] \in Levels
  BY DEF BuiltInv, Carried, Levels, HeightsOf, LevelOf
<1>3. r = <<r[1], r[2], r[3]>> /\ r[1] \in Heights
  BY DEF NumbersInv
<1>4. FitsBy(rels, Stood(r[1]), r)
  BY <1>2, LevelFull DEF Full, Stood
<1>5. ASSUME r[1] = 1 PROVE FitsBy(rels, observations, r)
  <2>1. \A t \in DOMAIN observations : Stood(1)[t] = observations[t]
    BY <1>1, StoodFirst DEF Holds, Stood
  <2>2. DOMAIN Stood(1) = DOMAIN observations
    BY DEF Stood, StoodIn
  <2>3. \A p \in Pairs(DOMAIN observations) : p[1] \in DOMAIN observations /\ p[2] \in DOMAIN observations
    BY PairShape
  <2> DEFINE rows == DOMAIN observations
             at == Stood(1)
  <2> HIDE DEF rows, at
  <2>4. Led(Pairs(rows), at, r[2], r[3]) = Led(Pairs(rows), observations, r[2], r[3])
    BY <2>1, <2>3 DEF Led, rows, at
  <2>5. Num(rows, at, r[2], r[3]) = Num(rows, observations, r[2], r[3])
    BY <2>4, Zenon DEF Num, Led
  <2>6. FitsBy(rels, at, r) /\ DOMAIN at = rows /\ \A p \in Pairs(rows) : at[p[1]] = observations[p[1]] /\ at[p[2]] = observations[p[2]]
    BY <1>4, <1>5, <2>1, <2>2, <2>3 DEF rows, at
  <2> QED
    BY <2>5, <2>6 DEF FitsBy, rows
<1> QED
  BY <1>2, <1>3, <1>4, <1>5

\* A count of the pairs P at every level that is there rolls up.
LEMMA RollUp ==
  ASSUME GraphInv, NumbersInv, FilesInv, BuiltInv, {"build", "abstract"} \subseteq done, IsFiniteSet(DOMAIN rels),
         NEW P \in SUBSET Pairs(DOMAIN observations), NEW num,
         \A r \in DOMAIN rels : r[1] = 1 => num[r] = Cardinality(Led(P, observations, r[2], r[3])),
         NEW r \in DOMAIN rels
  PROVE  Cardinality(Led(P, Stood(r[1]), r[2], r[3])) = Sum(num, Beneath(r))
<1> DEFINE l == r[1]
           at == Stood(l)
           rows == DOMAIN observations
           C == Beneath(r)
<1>1. l \in Heights
  BY RelsSay
<1>2. \A t \in rows : at[t] = AncestorAt(observations[t], l)
  BY <1>1, StoodIsAncestor
<1>3. \A p \in P : p[1] \in rows /\ p[2] \in rows /\ p \in Pairs(rows)
  BY PairShape
<1>4. IsFiniteSet(P) /\ IsFiniteSet(C)
  <2>1. DOMAIN observations \in SUBSET Events
    BY DEF FilesInv, FirstOf, BuiltInv
  <2>2. IsFiniteSet(Pairs(rows))
    BY <2>1, RowsFinite
  <2>3. C \subseteq DOMAIN rels
    BY DEF Beneath
  <2> QED
    BY <2>2, <2>3, FS_Subset
<1>5. \A q \in C : /\ q \in DOMAIN rels /\ q[1] = 1 /\ q = <<1, q[2], q[3]>>
                   /\ AncestorAt(q[2], l) = r[2] /\ AncestorAt(q[3], l) = r[3]
  BY RelsSay DEF Beneath
<1>6. \A p \in P : at[p[1]] = r[2] /\ at[p[2]] = r[3] => <<1, observations[p[1]], observations[p[2]]>> \in C
  <2> SUFFICES ASSUME NEW p \in P, at[p[1]] = r[2], at[p[2]] = r[3]
               PROVE  <<1, observations[p[1]], observations[p[2]]>> \in C
    OBVIOUS
  <2> DEFINE q == <<1, observations[p[1]], observations[p[2]]>>
  <2>1. CompleteBy(rels, observations, 1)
    BY DEF BuiltInv, Holds
  <2>2. q \in DOMAIN rels
    BY <1>3, <2>1 DEF CompleteBy
  <2>3. AncestorAt(q[2], l) = r[2] /\ AncestorAt(q[3], l) = r[3]
    BY <1>2, <1>3
  <2> QED
    BY <2>2, <2>3 DEF Beneath
<1> HIDE DEF l, at, rows, C
<1>7. LeadsBeneath(P, at, observations, r[2], r[3], C, num)
  <2>1. \A q \in C, p \in P : observations[p[1]] = q[2] /\ observations[p[2]] = q[3] => at[p[1]] = r[2] /\ at[p[2]] = r[3]
    BY <1>2, <1>3, <1>5
  <2> QED
    BY <1>5, <1>6, <2>1 DEF LeadsBeneath
<1> QED
  BY <1>4, <1>7, CountRolled DEF at, l, C

LEMMA TriplesFinite ==
  ASSUME NEW A, NEW B, NEW R, IsFiniteSet(A), IsFiniteSet(B),
         \A r \in R : r = <<r[1], r[2], r[3]>> /\ r[1] \in A /\ r[2] \in B /\ r[3] \in B
  PROVE  IsFiniteSet(R)
<1> DEFINE box == A \X (B \X B)
           h == [b \in box |-> <<b[1], b[2][1], b[2][2]>>]
<1>1. IsFiniteSet(box)
  BY FS_Product
<1>2. ASSUME NEW l \in A, NEW a \in B, NEW b \in B PROVE \E y \in box : h[y] = <<l, a, b>>
  <2>1. <<a, b>> \in B \X B
    OBVIOUS
  <2> DEFINE y == <<l, <<a, b>>>>
  <2>2. y \in box
    BY <2>1
  <2>3. y[1] = l /\ y[2] = <<a, b>> /\ <<a, b>>[1] = a /\ <<a, b>>[2] = b
    OBVIOUS
  <2> HIDE DEF y
  <2>4. h[y] = <<y[1], y[2][1], y[2][2]>>
    BY <2>2
  <2> HIDE DEF h, box
  <2>5. h[y] = <<l, a, b>>
    BY <2>3, <2>4
  <2> QED
    BY <2>2, <2>5
<1> HIDE DEF h, box
<1>3. \A r \in R : \E y \in box : h[y] = r
  BY <1>2
<1> QED
  BY <1>1, <1>3, CountImage

LEMMA RelsFinite ==
  ASSUME GraphInv, NumbersInv, FilesInv, BuiltInv, {"build", "abstract"} \subseteq done
  PROVE  IsFiniteSet(DOMAIN rels)
<1>1. IsFiniteSet(DOMAIN nodes)
  BY DEF NumbersInv
<1>2. IsFiniteSet(Levels)
  <2> DEFINE lv == [e \in DOMAIN nodes |-> LevelOf(e)]
  <2>1. \A y \in Levels : \E e \in DOMAIN nodes : lv[e] = y
    BY DEF Levels
  <2> HIDE DEF lv
  <2> QED
    BY <1>1, <2>1, CountImage
<1>3. \A r \in DOMAIN rels :
        r = <<r[1], r[2], r[3]>> /\ r[1] \in Levels /\ r[2] \in DOMAIN nodes /\ r[3] \in DOMAIN nodes
  BY RelsSay DEF GraphInv, RelsOk
<1> QED
  BY <1>1, <1>2, <1>3, TriplesFinite

LEMMA NumsRoll ==
  GraphInv /\ NumbersInv /\ FilesInv /\ BuiltInv /\ {"build", "abstract"} \subseteq done => NumsRollUp
<1> SUFFICES ASSUME GraphInv, NumbersInv, FilesInv, BuiltInv, {"build", "abstract"} \subseteq done
             PROVE  NumsRollUp
  OBVIOUS
<1> DEFINE rows == DOMAIN observations
<1>1. \A r \in DOMAIN rels : r[1] = 1 => NumOf[r] = Cardinality(Led(Pairs(rows), observations, r[2], r[3]))
  <2> SUFFICES ASSUME NEW r \in DOMAIN rels, r[1] = 1
               PROVE  NumOf[r] = Cardinality(Led(Pairs(rows), observations, r[2], r[3]))
    OBVIOUS
  <2>1. NumOf[r] = Num(rows, observations, r[2], r[3])
    BY RelsSay DEF FitsBy, NumOf
  <2> QED
    BY <2>1, Zenon DEF Num, Led
<1>2. ASSUME NEW r \in DOMAIN rels
      PROVE  rels[r].num = Sum(NumOf, Beneath(r)) /\ r[2] \in Standing(r[1])
  <2>1. r[1] \in Heights /\ FitsBy(rels, Stood(r[1]), r)
    BY RelsSay
  <2>2. DOMAIN Stood(r[1]) = rows
    BY DEF Stood, StoodIn
  <2>3. rels[r].num = Cardinality(Led(Pairs(rows), Stood(r[1]), r[2], r[3]))
    <3>1. rels[r].num = Num(rows, Stood(r[1]), r[2], r[3])
      BY <2>1, <2>2 DEF FitsBy
    <3> QED
      BY <3>1, Zenon DEF Num, Led
  <2>4. Pairs(rows) \in SUBSET Pairs(rows) /\ IsFiniteSet(DOMAIN rels)
    BY RelsFinite
  <2>5. Cardinality(Led(Pairs(rows), Stood(r[1]), r[2], r[3])) = Sum(NumOf, Beneath(r))
    <3> HIDE DEF rows
    <3> QED
      BY <1>1, <2>4, RollUp DEF rows
  <2>6. PICK p \in Pairs(rows) : r[2] = Stood(r[1])[p[1]]
    BY <2>1, <2>2 DEF FitsBy
  <2>7. p[1] \in rows
    BY PairShape
  <2> QED
    BY <2>1, <2>3, <2>5, <2>6, <2>7, StandsThere
<1>3. ASSUME NEW q \in DOMAIN rels, NEW level \in Levels, q[1] = 1
      PROVE  <<level, AncestorAt(q[2], level), AncestorAt(q[3], level)>> \in DOMAIN rels
  <2>1. PICK p \in Pairs(rows) : q[2] = observations[p[1]] /\ q[3] = observations[p[2]]
    BY <1>3, RelsSay DEF FitsBy
  <2>2. p[1] \in rows /\ p[2] \in rows
    BY PairShape
  <2>3. Full(nodes, rels, part, observations, level) /\ level \in Heights
    BY LevelFull
  <2>4. Stood(level)[p[1]] = AncestorAt(q[2], level) /\ Stood(level)[p[2]] = AncestorAt(q[3], level)
    BY <2>1, <2>2, <2>3, StoodIsAncestor
  <2>5. CompleteBy(rels, Stood(level), level) /\ DOMAIN Stood(level) = rows
    BY <2>3 DEF Full, Stood, StoodIn
  <2>6. <<level, Stood(level)[p[1]], Stood(level)[p[2]]>> \in DOMAIN rels
    BY <2>5 DEF CompleteBy
  <2> QED
    BY <2>4, <2>6
<1> QED
  BY <1>2, <1>3 DEF NumsRollUp

\* The turns of conversations with an outcome are followed as they were.
LEMMA ToldPairs ==
  ASSUME NEW at, NEW oc
  PROVE  Pairs(ToldIn(at, oc)) \subseteq Pairs(DOMAIN at)
<1> SUFFICES ASSUME NEW p \in Pairs(ToldIn(at, oc)) PROVE p \in Pairs(DOMAIN at)
  OBVIOUS
<1> DEFINE T == ToldIn(at, oc)
           t == p[1]
           u == p[2]
<1>1. p = <<t, u>> /\ t \in T /\ u \in T /\ Follows(T, t, u) /\ Kind(u) = Other(Kind(t))
  BY PairShape
<1>2. T \subseteq DOMAIN at /\ \A v \in DOMAIN at : v[1] = t[1] => v \in T
  BY <1>1 DEF ToldIn
<1>3. Follows(DOMAIN at, t, u)
  BY <1>1, <1>2 DEF Follows
<1> QED
  BY <1>1, <1>2, <1>3 DEF Pairs

LEMMA GoodsRoll ==
  GraphInv /\ NumbersInv /\ FilesInv /\ BuiltInv /\ AbsorbedInv /\ {"build", "abstract", "absorb"} \subseteq done
    => GoodRollsUp
<1> SUFFICES ASSUME GraphInv, NumbersInv, FilesInv, BuiltInv, AbsorbedInv,
                    {"build", "abstract", "absorb"} \subseteq done
             PROVE  GoodRollsUp
  OBVIOUS
<1> DEFINE rows == DOMAIN observations
<1>1. PICK oc \in Endings : Absorbed(nodes, rels, part, observations, oc)
  BY DEF AbsorbedInv
<1> DEFINE W == WellIn(observations, oc)
<1>2. W \in SUBSET Pairs(rows)
  BY ToldPairs DEF WellIn
<1>3. IsFiniteSet(W) /\ IsFiniteSet(Pairs(rows))
  <2>1. rows \in SUBSET Events
    BY DEF FilesInv, FirstOf, BuiltInv
  <2> QED
    BY <1>2, <2>1, RowsFinite, FS_Subset
<1>4. ASSUME NEW at, DOMAIN at = rows, NEW r \in DOMAIN rels, GoodIn(rels[r].good, at, oc, r)
      PROVE  GoodOf[r] = Cardinality(Led(W, at, r[2], r[3]))
  <2>1. ToldIn(at, oc) = ToldIn(observations, oc)
    BY <1>4 DEF ToldIn
  <2>2. WellIn(at, oc) = W
    BY <2>1 DEF WellIn
  <2>3. rels[r].good = IF TakenIn(at, oc, r) THEN Cardinality(Led(W, at, r[2], r[3])) ELSE Nil
    BY <1>4, <2>2 DEF GoodIn
  <2>4. CASE TakenIn(at, oc, r)
    <3>1. Led(W, at, r[2], r[3]) \in SUBSET W
      BY DEF Led
    <3>2. Cardinality(Led(W, at, r[2], r[3])) \in Nat
      BY <1>3, <3>1, FS_Subset, FS_CardinalityType
    <3>3. rels[r].good # Nil
      BY <2>3, <2>4, <3>2, ProcessAssumption
    <3> QED
      BY <2>3, <2>4, <3>3 DEF GoodOf
  <2>5. CASE ~ TakenIn(at, oc, r)
    <3>1. Led(W, at, r[2], r[3]) = {}
      BY <2>1, <2>5 DEF Led, WellIn, TakenIn
    <3>2. Cardinality(Led(W, at, r[2], r[3])) = 0
      BY <3>1, FS_EmptySet
    <3> QED
      BY <2>3, <2>5, <3>2 DEF GoodOf
  <2> QED
    BY <2>4, <2>5
<1>5. ASSUME NEW r \in DOMAIN rels
      PROVE  /\ GoodOf[r] = Cardinality(Led(W, Stood(r[1]), r[2], r[3]))
             /\ r[1] = 1 => GoodOf[r] = Cardinality(Led(W, observations, r[2], r[3]))
  <2>1. r[1] \in HeightsOf(nodes)
    BY DEF BuiltInv, Carried
  <2>2. GoodIn(rels[r].good, Stood(r[1]), oc, r)
    BY <1>1, <2>1 DEF Absorbed, Stood
  <2>3. DOMAIN Stood(r[1]) = rows
    BY DEF Stood, StoodIn
  <2>4. GoodOf[r] = Cardinality(Led(W, Stood(r[1]), r[2], r[3]))
    <3> HIDE DEF W, rows
    <3> QED
      BY <1>4, <2>2, <2>3
  <2>5. ASSUME r[1] = 1 PROVE Led(W, Stood(r[1]), r[2], r[3]) = Led(W, observations, r[2], r[3])
    <3>1. WalkOk(nodes, part) /\ Holds(nodes, rels, part, observations) /\ FirstOf(observations)
      BY GraphWalks DEF BuiltInv, FilesInv
    <3>2. \A t \in rows : Stood(1)[t] = observations[t]
      BY <3>1, StoodFirst DEF Holds, Stood
    <3>3. \A p \in W : p[1] \in rows /\ p[2] \in rows
      BY <1>2, PairShape
    <3> HIDE DEF W, rows
    <3> QED
      BY <2>5, <3>2, <3>3 DEF Led
  <2> QED
    BY <2>4, <2>5
<1> HIDE DEF W
<1> SUFFICES ASSUME NEW r \in DOMAIN rels
             PROVE  GoodOf[r] = Sum(GoodOf, Beneath(r)) /\ GoodOf[r] <= rels[r].num
  BY DEF GoodRollsUp
<1>6. GoodOf[r] = Sum(GoodOf, Beneath(r))
  <2>1. IsFiniteSet(DOMAIN rels)
    BY RelsFinite
  <2>2. Cardinality(Led(W, Stood(r[1]), r[2], r[3])) = Sum(GoodOf, Beneath(r))
    BY <1>2, <1>5, <2>1, RollUp
  <2> QED
    BY <1>5, <2>2
<1>7. GoodOf[r] <= rels[r].num
  <2> DEFINE at == Stood(r[1])
             good == Led(W, at, r[2], r[3])
             all == Led(Pairs(rows), at, r[2], r[3])
  <2>1. FitsBy(rels, at, r) /\ DOMAIN at = rows
    BY RelsSay DEF Stood, StoodIn
  <2>2. rels[r].num = Cardinality(all)
    <3>1. rels[r].num = Num(rows, at, r[2], r[3])
      BY <2>1 DEF FitsBy
    <3> QED
      BY <3>1, Zenon DEF Num, Led
  <2>3. good \in SUBSET all /\ all \in SUBSET Pairs(rows)
    BY <1>2 DEF Led
  <2>4. IsFiniteSet(all)
    BY <1>3, <2>3, FS_Subset
  <2> HIDE DEF good, all
  <2>5. Cardinality(good) <= Cardinality(all)
    BY <2>3, <2>4, FS_Subset
  <2> QED
    BY <1>5, <2>2, <2>5 DEF good
<1> QED
  BY <1>6, <1>7

LEMMA RollsUpHolds ==
  GraphInv /\ NumbersInv /\ FilesInv /\ BuiltInv /\ AbsorbedInv => RollsUp
  BY NumsRoll, GoodsRoll DEF RollsUp


-----------------------------------------------------------------------------
(* Supported *)

LEMMA TypesKept == IsFiniteSet(Types) /\ \A oc \in Endings, c \in Conversations :
                     oc[c] # Nil => oc[c].type \in Types /\ oc[c].good \in 0 .. 1
<1> SUFFICES ASSUME NEW oc \in Endings, NEW c \in Conversations, oc[c] # Nil
             PROVE  oc[c].type \in Types /\ oc[c].good \in 0 .. 1
  BY ProcessAssumption
<1>1. oc \in [Conversations -> [type : Types, good : 0 .. 1] \cup {Nil}]
  BY ProcessAssumption
<1>2. oc[c] \in [type : Types, good : 0 .. 1]
  BY <1>1
<1> QED
  BY <1>2

LEMMA ThroughFinite ==
  ASSUME NEW at, DOMAIN at \in SUBSET Events, NEW oc, NEW e
  PROVE  /\ ThroughIn(at, oc, e) \in SUBSET Conversations /\ IsFiniteSet(ThroughIn(at, oc, e))
         /\ \A c \in ThroughIn(at, oc, e) : oc[c] # Nil
         /\ \A c : c \in ThroughIn(at, oc, e) <=> \E u \in ToldIn(at, oc) : at[u] = e /\ c = u[1]
<1>1. ThroughIn(at, oc, e) \in SUBSET Conversations
  BY EventShape DEF ThroughIn, ToldIn
<1>2. IsFiniteSet(ThroughIn(at, oc, e))
  BY <1>1, TurnsAssumption, FS_Subset
<1> QED
  BY <1>1, <1>2 DEF ThroughIn, ToldIn

\* What the absorption writes of an element is a support.
LEMMA SupportIs ==
  ASSUME NEW at, DOMAIN at \in SUBSET Events, NEW oc \in Endings, NEW e, NEW S, Supports(S, at, oc, e)
  PROVE  IsSupport(S)
<1> DEFINE C == ThroughIn(at, oc, e)
           good == [c \in C |-> oc[c].good]
           type == [c \in C |-> oc[c].type]
           one == [c \in C |-> 1]
<1>1. /\ C \in SUBSET Conversations /\ IsFiniteSet(C) /\ \A c \in C : oc[c] # Nil
  BY ThroughFinite
<1>2. /\ C # {} /\ S.n = Cardinality(C) /\ S.good = Sum(good, C)
      /\ S.kinds = [o \in Types |-> Cardinality({c \in C : oc[c].type = o})]
  BY DEF Supports
<1>3. \A c \in C : good[c] \in Nat /\ one[c] \in Nat /\ one[c] = 1 /\ good[c] <= one[c] /\ type[c] \in Types
  BY <1>1, TypesKept
<1>4. \A o \in Types : S.kinds[o] = Cardinality(Part(C, type, o))
  <2> SUFFICES ASSUME NEW o \in Types PROVE S.kinds[o] = Cardinality(Part(C, type, o))
    OBVIOUS
  <2>1. Part(C, type, o) = {c \in C : oc[c].type = o}
    BY DEF Part
  <2>2. S.kinds[o] = Cardinality({c \in C : oc[c].type = o})
    BY <1>2
  <2> QED
    BY Zenon, <2>1, <2>2
<1> HIDE DEF C, good, type, one
<1>5. S.n \in Nat /\ S.n > 0
  <2>1. Cardinality(C) \in Nat /\ (Cardinality(C) = 0 <=> C = {})
    BY <1>1, FS_CardinalityType, FS_EmptySet
  <2> QED
    BY <1>2, <2>1
<1>6. S.good \in Nat
  BY <1>1, <1>2, <1>3, SumNat
<1>7. S.good <= S.n
  <2>1. Sum(good, C) <= Sum(one, C)
    BY <1>1, <1>3, SumAtMost
  <2>2. Sum(one, C) = Cardinality(C)
    BY <1>1, <1>3, SumOnes
  <2> QED
    BY <1>2, <2>1, <2>2
<1>8. Sum(S.kinds, Types) = S.n
  <2> DEFINE total == S.kinds
  <2>1. \A o \in Types : total[o] = Cardinality(Part(C, type, o))
    BY <1>4
  <2> HIDE DEF total
  <2>2. Cardinality(C) = Sum(total, Types)
    BY <1>1, <1>3, <2>1, TypesKept, CountParts
  <2> QED
    BY <1>2, <2>2 DEF total
<1> QED
  BY <1>5, <1>6, <1>7, <1>8 DEF IsSupport

\* An absorbed graph's support is no more than the turns.
LEMMA SupportCounted ==
  ASSUME NEW N, NEW R, NEW P, NEW of, WalkOk(N, P), FirstOf(of), Holds(N, R, P, of),
         NEW oc, NEW e \in DOMAIN N, e[2] \in Heights, Supports(N[e].stats, StoodIn(N, P, of, e[2]), oc, e)
  PROVE  N[e].stats.n <= N[e].count
<1> DEFINE at == StoodIn(N, P, of, e[2])
           C == ThroughIn(at, oc, e)
           all == {t \in DOMAIN at : at[t] = e}
           told == {u \in ToldIn(at, oc) : at[u] = e}
           h == [u \in told |-> u[1]]
<1>1. DOMAIN at = DOMAIN of /\ DOMAIN at \in SUBSET Events
  BY StoodShape
<1>2. C # {} /\ N[e].stats.n = Cardinality(C)
  BY DEF Supports
<1>3. told \in SUBSET all /\ all \in SUBSET DOMAIN at
  BY DEF ToldIn
<1>4. IsFiniteSet(all) /\ IsFiniteSet(told)
  <2>1. IsFiniteSet(DOMAIN at)
    BY <1>1, RowsFinite
  <2> QED
    BY <1>3, <2>1, FS_Subset
<1>5. PICK t \in DOMAIN of : at[t] = e
  BY <1>1, <1>2 DEF ThroughIn, ToldIn
<1>6. N[e].count = Count(DOMAIN at, at, e)
  BY <1>1, <1>5 DEF Holds, CountedBy
<1>7. N[e].count = Cardinality(all)
  BY <1>6, Zenon DEF Count
<1>8. \A c \in C : \E u \in told : h[u] = c
  BY DEF ThroughIn
<1> HIDE DEF C, all, told, h
<1>9. Cardinality(C) <= Cardinality(told) /\ IsFiniteSet(C)
  BY <1>4, <1>8, CountImage
<1>10. Cardinality(told) <= Cardinality(all)
  BY <1>3, <1>4, FS_Subset
<1>11. Cardinality(C) \in Nat /\ Cardinality(told) \in Nat /\ Cardinality(all) \in Nat
  BY <1>4, <1>9, FS_CardinalityType
<1> QED
  BY <1>2, <1>7, <1>9, <1>10, <1>11

\* Where a turn stands at its child's level it is in the parent at the
\* parent's; and where it is in a parent that has children it is in a child.
LEMMA ChildOf ==
  ASSUME NEW N, NEW P, WalkOk(N, P), NEW x \in DOMAIN N, x[2] \in Heights, NEW c \in DOMAIN P,
         Walk(N, P, c[2])[x] = c
  PROVE  Walk(N, P, P[c][2])[x] = P[c]
<1> DEFINE e == P[c]
<1>1. c \in DOMAIN N /\ e \in DOMAIN N /\ c[2] \in Nat /\ e[2] \in Nat /\ e[2] > c[2] /\ N[e].level = e[2]
  BY DEF WalkOk
<1>2. Walk(N, P, e[2])[c] = Walk(N, P, e[2])[e]
  BY <1>1, WalkStep DEF Goes
<1>3. ~ Goes(N, P, e[2], e)
  BY <1>1 DEF Goes, WalkOk
<1>4. Walk(N, P, e[2])[e] = e
  BY <1>1, <1>3, WalkStep
<1>5. Walk(N, P, e[2])[Walk(N, P, c[2])[x]] = Walk(N, P, e[2])[x]
  BY <1>1, WalkOn
<1> QED
  BY <1>2, <1>4, <1>5

Grouping(P, e) == {c \in DOMAIN P : P[c] = e}
LEMMA SupportCovered ==
  ASSUME NEW N, NEW R, NEW P, NEW of, WalkOk(N, P), FirstOf(of), Holds(N, R, P, of), IsFiniteSet(DOMAIN N),
         \A x \in DOMAIN N : x[2] \in Heights,
         NEW oc, Absorbed(N, R, P, of, oc), NEW e \in DOMAIN N,
         NEW children, children = Grouping(P, e),
         NEW n, \A c \in children : n[c] = N[c].stats.n
  PROVE  /\ children # {} => N[e].stats.n <= Sum(n, children)
         /\ \A c \in children : n[c] <= N[e].stats.n
<1> DEFINE at(l) == StoodIn(N, P, of, l)
           C(x) == ThroughIn(at(x[2]), oc, x)
           m == [c \in children |-> C(c)]
<1>1. children \in SUBSET DOMAIN N /\ \A c \in children : c \in DOMAIN P /\ P[c] = e /\ c[2] \in Nat /\ e[2] > c[2]
  BY DEF WalkOk, Grouping
<1>2. IsFiniteSet(children)
  <2> QED
    BY <1>1, FS_Subset
<1>3. \A l : DOMAIN at(l) = DOMAIN of /\ ToldIn(at(l), oc) = ToldIn(of, oc)
             /\ \A t \in DOMAIN of : at(l)[t] = Walk(N, P, l)[of[t]]
  BY DEF StoodIn, ToldIn
<1>4. DOMAIN of \in SUBSET Events /\ \A t \in DOMAIN of : of[t] \in DOMAIN N /\ of[t][2] = 1
  BY DEF FirstOf, Holds
<1>5. \A u \in ToldIn(of, oc) : u \in DOMAIN of
  BY DEF ToldIn
<1>6. \A x \in DOMAIN N : N[x].stats.n = Cardinality(C(x)) /\ IsFiniteSet(C(x))
  <2> SUFFICES ASSUME NEW x \in DOMAIN N PROVE N[x].stats.n = Cardinality(C(x)) /\ IsFiniteSet(C(x))
    OBVIOUS
  <2>1. Supports(N[x].stats, at(x[2]), oc, x)
    BY DEF Absorbed
  <2>2. IsFiniteSet(C(x))
    BY <1>3, <1>4, ThroughFinite
  <2> QED
    BY <2>1, <2>2 DEF Supports
<1>7. ASSUME NEW x \in DOMAIN N, NEW c
      PROVE  c \in C(x) <=> \E u \in ToldIn(of, oc) : Walk(N, P, x[2])[of[u]] = x /\ c = u[1]
  BY <1>3, <1>5 DEF ThroughIn
<1>8. ASSUME NEW c \in children PROVE C(c) \subseteq C(e)
  <2> SUFFICES ASSUME NEW k \in C(c) PROVE k \in C(e)
    OBVIOUS
  <2>1. c \in DOMAIN N
    BY <1>1
  <2>2. PICK u \in ToldIn(of, oc) : Walk(N, P, c[2])[of[u]] = c /\ k = u[1]
    BY <1>7, <2>1
  <2>3. of[u] \in DOMAIN N /\ of[u][2] \in Heights
    BY <1>4, <1>5
  <2>4. Walk(N, P, e[2])[of[u]] = e
    BY <1>1, <2>2, <2>3, ChildOf
  <2> QED
    BY <1>7, <2>2, <2>4
<1>9. ASSUME children # {}, NEW k \in C(e) PROVE \E c \in children : k \in C(c)
  <2>1. PICK u \in ToldIn(of, oc) : Walk(N, P, e[2])[of[u]] = e /\ k = u[1]
    BY <1>7
  <2>2. of[u] \in DOMAIN N /\ of[u][2] = 1
    BY <1>4, <1>5
  <2>3. e[2] \in Nat /\ e[2] > 1
    BY <1>1, <1>9 DEF Heights, WalkOk
  <2>4. Walk(N, P, e[2])[of[u]] # of[u]
    BY <2>1, <2>2, <2>3
  <2>5. PICK c \in DOMAIN P : P[c] = e /\ Walk(N, P, c[2])[of[u]] = c
    BY <2>1, <2>2, <2>3, <2>4, WalkThroughChild
  <2>6. c \in children /\ c \in DOMAIN N
    BY <1>1, <2>5 DEF Grouping
  <2> QED
    BY <1>7, <2>1, <2>5, <2>6
<1> HIDE DEF C, at
<1>10. ASSUME children # {} PROVE N[e].stats.n <= Sum(n, children)
  <2> DEFINE S == C(e)
  <2>1. \A k \in S : \E c \in children : k \in m[c]
    BY <1>9, <1>10
  <2>2. \A c \in children : IsFiniteSet(m[c]) /\ n[c] = Cardinality(m[c])
    BY <1>1, <1>6
  <2>3. IsFiniteSet(S) /\ N[e].stats.n = Cardinality(S)
    BY <1>6
  <2> HIDE DEF m, S
  <2>4. Cardinality(S) <= Sum(n, children)
    BY <1>2, <2>1, <2>2, <2>3, CountCover
  <2> QED
    BY <2>3, <2>4
<1>11. ASSUME NEW c \in children PROVE n[c] <= N[e].stats.n
  <2> DEFINE S == C(e)
             T == C(c)
  <2>1. T \subseteq S /\ IsFiniteSet(S) /\ N[e].stats.n = Cardinality(S) /\ n[c] = Cardinality(T)
    BY <1>1, <1>6, <1>8
  <2> HIDE DEF S, T
  <2> QED
    BY <2>1, FS_Subset
<1> QED
  BY <1>10, <1>11

LEMMA SupportedHolds ==
  GraphInv /\ NumbersInv /\ FilesInv /\ StatsInv /\ BuiltInv /\ AbsorbedInv => Supported
<1> SUFFICES ASSUME GraphInv, NumbersInv, FilesInv, StatsInv, BuiltInv, AbsorbedInv,
                    {"build", "absorb"} \subseteq done, NEW e \in DOMAIN nodes
             PROVE  LET S == nodes[e].stats
                        children == {c \in DOMAIN part : part[c] = e}
                        n == [c \in children |-> nodes[c].stats.n]
                    IN  /\ S.good <= S.n /\ S.n <= nodes[e].count
                        /\ S.n = Sum(S.kinds, Types)
                        /\ children # {} => S.n <= Sum(n, children) /\ \A c \in children : n[c] <= S.n
  BY DEF Supported
<1> DEFINE S == nodes[e].stats
           children == {c \in DOMAIN part : part[c] = e}
           n == [c \in children |-> nodes[c].stats.n]
<1>1. PICK oc \in Endings : Absorbed(nodes, rels, part, observations, oc)
  BY DEF AbsorbedInv
<1>2. WalkOk(nodes, part) /\ Holds(nodes, rels, part, observations) /\ FirstOf(observations)
  BY GraphWalks DEF BuiltInv, FilesInv
<1>3. S # Nil /\ Supports(S, StoodIn(nodes, part, observations, e[2]), oc, e)
  BY <1>1 DEF Absorbed
<1>4. IsSupport(S)
  BY <1>3 DEF StatsInv
<1>5. S.n <= nodes[e].count
  BY <1>2, <1>3, SupportCounted DEF NumbersInv
<1>6. \A c \in children : n[c] = nodes[c].stats.n
  OBVIOUS
<1>7. children = {c \in DOMAIN part : part[c] = e}
  OBVIOUS
<1> HIDE DEF children, n
<1>8. /\ children # {} => S.n <= Sum(n, children)
      /\ \A c \in children : n[c] <= S.n
  <2>1. IsFiniteSet(DOMAIN nodes) /\ \A x \in DOMAIN nodes : x[2] \in Heights
    BY DEF NumbersInv
  <2>2. children = Grouping(part, e)
    BY <1>7 DEF Grouping
  <2> QED
    BY <1>1, <1>2, <1>6, <2>1, <2>2, SupportCovered
<1> QED
  BY <1>4, <1>5, <1>8 DEF children, n, IsSupport

-----------------------------------------------------------------------------
(* Types and odds *)

LEMMA TypesHold == GraphInv /\ NumbersInv /\ FilesInv => TypeOK
  BY DEF GraphInv, NodesOk, PartOk, RelsOk, NumbersInv, Heights, FilesInv, FirstOf, TypeOK

LEMMA OddsHold == LookInv => Odds
  BY DEF LookInv, IsSupport, Odds


-----------------------------------------------------------------------------
(* Steps that leave the graph alone *)

\* What TurnsInv says of the graph and its turns, and of the stage.
GraphTold == NumbersInv /\ StatsInv /\ BuiltInv /\ AbsorbedInv
StageInv == MadeInv /\ BuildInv /\ ClimbInv /\ LiftInv /\ CarryInv /\ AbsorbInv /\ UndoneInv

LEMMA TurnsParts == TurnsInv <=> FilesInv /\ GraphTold /\ StageInv
  BY DEF TurnsInv, GraphTold, StageInv

LEMMA ToldStands ==
  ASSUME GraphTold, UNCHANGED <<nodes, rels, part, observations, done>>
  PROVE  GraphTold'
  BY DEF GraphTold, NumbersInv, StatsInv, BuiltInv, AbsorbedInv, Levels, LevelOf

LEMMA StageQuiet ==
  ASSUME "stage" \in DOMAIN job', job'.stage \in {"none", "outcomes", "annotate"}
  PROVE  StageInv'
  BY DEF StageInv, MadeInv, BuildInv, ClimbInv, LiftInv, CarryInv, AbsorbInv, UndoneInv, Lifting, Carrying, Absorbing

LEMMA StageStands ==
  ASSUME StageInv, UNCHANGED <<nodes, rels, part, observations, outcomes, done, job>>
  PROVE  StageInv'
<1>1. Lifting' = Lifting /\ Carrying' = Carrying /\ Absorbing' = Absorbing /\ Levels' = Levels
  BY DEF Lifting, Carrying, Absorbing, Levels, LevelOf
<1>2. \A l : Stood(l)' = Stood(l)
  BY DEF Stood
<1>3. MadeInv' /\ BuildInv' /\ UndoneInv'
  BY <1>1 DEF StageInv, MadeInv, BuildInv, UndoneInv
<1>4. ClimbInv'
  <2>1. \A i : PastOk(i)' = PastOk(i)
    BY <1>2 DEF PastOk
  <2> QED
    BY <1>1, <2>1 DEF StageInv, ClimbInv
<1>5. LiftInv'
  BY <1>1, <1>2 DEF StageInv, LiftInv
<1>6. CarryInv'
  BY <1>1, <1>2 DEF StageInv, CarryInv
<1>7. AbsorbInv'
  BY <1>1, <1>2 DEF StageInv, AbsorbInv, Handled
<1> QED
  BY <1>3, <1>4, <1>5, <1>6, <1>7 DEF StageInv

LEMMA StutterStands ==
  ASSUME TurnsInv, UNCHANGED vars \/ Locate
  PROVE  TurnsInv'
<1>1. UNCHANGED <<annotations, observations, outcomes, types, nodes, rels, part, job, done>>
  BY DEF vars, Locate
<1>2. GraphTold' /\ StageInv'
  BY <1>1, TurnsParts, ToldStands, StageStands
<1>3. left' \in [Commands -> Nat]
  <2>1. CASE UNCHANGED vars
    BY <2>1 DEF TurnsInv, FilesInv, vars
  <2>2. CASE Locate
    <3>1. left' = [left EXCEPT !["outlook"] = @ - 1] /\ left["outlook"] > 0
      BY <2>2 DEF Locate
    <3>2. left \in [Commands -> Nat] /\ "outlook" \in Commands
      BY DEF TurnsInv, FilesInv, Commands
    <3> QED
      BY <3>1, <3>2
  <2> QED
    BY <2>1, <2>2
<1>4. FilesInv'
  BY <1>1, <1>3 DEF TurnsInv, FilesInv, Lifting, Carrying
<1> QED
  BY <1>2, <1>4, TurnsParts DEF TurnsInv, GraphTold, StageInv

\* A budget is spent.
LEMMA LeftSpent ==
  ASSUME FilesInv, NEW stage \in Stages, Start(stage)
  PROVE  left' \in [Commands -> Nat] /\ job = Idle
<1>1. left \in [Commands -> Nat] /\ stage \in Commands
  BY DEF FilesInv, Commands
<1>2. left[stage] > 0 /\ left' = [left EXCEPT ![stage] = @ - 1] /\ job = Idle
  BY DEF Start
<1> QED
  BY <1>1, <1>2

-----------------------------------------------------------------------------
(* Steps of the files: annotate, outcomes, a kill *)

LEMMA FilesSteps ==
  ASSUME TurnsInv, Annotate \/ Outcomes
  PROVE  TurnsInv'
<1>1. FilesInv /\ GraphTold /\ StageInv
  BY TurnsParts
<1>2. UNCHANGED <<nodes, rels, part, observations, done>>
  BY DEF Annotate, Outcomes, OutcomesWrite, OutcomesTypes
<1>3. GraphTold'
  BY <1>1, <1>2, ToldStands
<1>4. CASE Annotate
  <2>1. left' \in [Commands -> Nat] /\ job = Idle /\ job' = Idle /\ UNCHANGED <<outcomes, types>>
    <3>1. Start("annotate") /\ "annotate" \in Stages
      BY <1>4 DEF Annotate, Stages
    <3> QED
      BY <1>1, <1>4, <3>1, LeftSpent DEF Annotate
  <2>2. annotations' \in SUBSET Events
    BY <1>4, ProcessAssumption DEF Annotate
  <2>3. FilesInv'
    BY <1>1, <1>2, <2>1, <2>2 DEF FilesInv, Idle
  <2>4. StageInv'
    BY <2>1, StageQuiet DEF Idle
  <2> QED
    BY <1>3, <2>3, <2>4, TurnsParts DEF TurnsInv, GraphTold, StageInv
<1>5. CASE OutcomesWrite
  <2>1. /\ left' \in [Commands -> Nat] /\ job = Idle /\ job' = [stage |-> "outcomes", step |-> "types"]
        /\ UNCHANGED <<annotations, types>> /\ outcomes' \in Endings
    <3>1. Start("outcomes") /\ "outcomes" \in Stages
      BY <1>5 DEF OutcomesWrite, Stages
    <3> QED
      BY <1>1, <1>5, <3>1, LeftSpent DEF OutcomesWrite
  <2>2. "stage" \in DOMAIN job' /\ job'.stage = "outcomes"
    BY <2>1
  <2>3. FilesInv'
    BY <1>1, <1>2, <2>1, <2>2 DEF FilesInv, Stages
  <2>4. StageInv'
    BY <2>2, StageQuiet
  <2> QED
    BY <1>3, <2>3, <2>4, TurnsParts DEF TurnsInv, GraphTold, StageInv
<1>6. CASE OutcomesTypes
  <2>1. job.stage = "outcomes" /\ job' = Idle /\ UNCHANGED <<annotations, outcomes, left>>
    BY <1>6 DEF OutcomesTypes
  <2>2. types' \in SUBSET Types
    <3>1. outcomes \in Endings
      BY <1>1, <2>1 DEF FilesInv
    <3> QED
      BY <1>6, <3>1, TypesKept DEF OutcomesTypes
  <2>3. FilesInv'
    BY <1>1, <1>2, <2>1, <2>2 DEF FilesInv, Idle
  <2>4. StageInv'
    BY <2>1, StageQuiet DEF Idle
  <2> QED
    BY <1>3, <2>3, <2>4, TurnsParts DEF TurnsInv, GraphTold, StageInv
<1> QED
  BY <1>4, <1>5, <1>6 DEF Outcomes

LEMMA KillStep ==
  ASSUME TurnsInv, Kill
  PROVE  TurnsInv'
<1>1. FilesInv /\ GraphTold /\ StageInv
  BY TurnsParts
<1>2. job' = Idle /\ UNCHANGED <<annotations, outcomes, types, nodes, rels, part, left, done>>
  BY DEF Kill
<1>3. StageInv'
  BY <1>2, StageQuiet DEF Idle
<1>4. CASE UNCHANGED observations
  <2>1. GraphTold'
    BY <1>1, <1>2, <1>4, ToldStands
  <2>2. FilesInv'
    BY <1>1, <1>2, <1>4 DEF FilesInv, Idle
  <2> QED
    BY <1>3, <2>1, <2>2, TurnsParts DEF TurnsInv, GraphTold, StageInv
<1>5. CASE ~ UNCHANGED observations
  <2>1. /\ job.stage = "build" /\ job.step = "record"
        /\ \E u \in DOMAIN job.of :
             observations' = [t \in {v \in DOMAIN job.of : Earlier(v, u)} |-> job.of[t]]
    BY <1>5 DEF Kill
  <2>2. PICK u \in DOMAIN job.of :
          observations' = [t \in {v \in DOMAIN job.of : Earlier(v, u)} |-> job.of[t]]
    BY <2>1
  <2>3. FirstOf(job.of)
    BY <1>1, <2>1 DEF FilesInv
  <2>4. FirstOf(observations')
    BY <2>2, <2>3 DEF FirstOf
  <2>5. FilesInv'
    BY <1>1, <1>2, <2>4 DEF FilesInv, Idle
  <2>6. done = {}
    BY <1>1, <2>1 DEF StageInv, BuildInv
  <2>7. GraphTold'
    BY <1>1, <1>2, <2>6 DEF GraphTold, NumbersInv, StatsInv, BuiltInv, AbsorbedInv, Levels, LevelOf
  <2> QED
    BY <1>3, <2>5, <2>7, TurnsParts DEF TurnsInv, GraphTold, StageInv
<1> QED
  BY <1>4, <1>5


-----------------------------------------------------------------------------
(* build, step by step *)

LEMMA StageOfBuild ==
  ASSUME job'.stage = "build", BuildInv'
  PROVE  StageInv'
  BY DEF StageInv, MadeInv, ClimbInv, LiftInv, CarryInv, AbsorbInv, UndoneInv, Lifting, Carrying, Absorbing

LEMMA ElementsFirst ==
  ASSUME NEW rows \in SUBSET Events, NEW g
  PROVE  FirstOf(Elements(rows, g))
<1> DEFINE names(k) == {g[t] : t \in {u \in rows : Kind(u) = k}}
           size(k) == [n \in names(k) |-> Cardinality({t \in rows : Kind(t) = k /\ g[t] = n})]
           folded == [k \in Kinds |-> Fold(size(k))]
<1>1. Elements(rows, g) = [t \in rows |-> <<Kind(t), 1, folded[Kind(t)][g[t]]>>]
  BY Zenon DEF Elements
<1> HIDE DEF folded
<1> QED
  BY <1>1 DEF FirstOf

LEMMA BuildStartStep ==
  ASSUME TurnsInv, BuildStart
  PROVE  TurnsInv'
<1>1. FilesInv /\ GraphTold /\ StageInv
  BY TurnsParts
<1>2. UNCHANGED <<annotations, observations, outcomes, types, nodes, rels, part, done>>
  BY DEF BuildStart
<1>3. GraphTold'
  BY <1>1, <1>2, ToldStands
<1>4. PICK g \in Groupings :
        job' = [stage |-> "build", step |-> "delete", of |-> Elements(annotations, g)]
  BY DEF BuildStart
<1>5. annotations \in SUBSET Events
  BY <1>1 DEF FilesInv, BuildStart
<1>6. FirstOf(job'.of) /\ job'.stage = "build" /\ job'.step = "delete" /\ "stage" \in DOMAIN job'
  BY <1>4, <1>5, ElementsFirst
<1>7. left' \in [Commands -> Nat]
  <2>1. Start("build") /\ "build" \in Stages
    BY DEF BuildStart, Stages
  <2> QED
    BY <1>1, <2>1, LeftSpent
<1>8. FilesInv'
  BY <1>1, <1>2, <1>6, <1>7 DEF FilesInv, Stages
<1>9. BuildInv'
  BY <1>6 DEF BuildInv
<1>10. StageInv'
  BY <1>6, <1>9, StageOfBuild
<1> QED
  BY <1>3, <1>8, <1>10, TurnsParts DEF TurnsInv, GraphTold, StageInv

\* A statement of the build's.
LEMMA BuildFiles ==
  ASSUME FilesInv, job.stage = "build", job' = [job EXCEPT !.step = job'.step], DOMAIN job = {"stage", "step", "of"},
         UNCHANGED <<annotations, observations, outcomes, types, left>>, done' = done \/ done' = {}
  PROVE  FilesInv' /\ job'.stage = "build" /\ job'.of = job.of
<1>1. job'.stage = "build" /\ job'.of = job.of /\ "stage" \in DOMAIN job'
  OBVIOUS
<1> QED
  BY <1>1 DEF FilesInv

LEMMA BuildDeleteStep ==
  ASSUME TurnsInv, GraphInv, BuildDelete
  PROVE  TurnsInv'
<1>1. FilesInv /\ GraphTold /\ StageInv
  BY TurnsParts
<1>2. /\ DOMAIN nodes' = {} /\ DOMAIN rels' = {} /\ DOMAIN part' = {} /\ done' = {}
      /\ job.stage = "build" /\ job' = [job EXCEPT !.step = "state nodes"]
      /\ UNCHANGED <<annotations, observations, outcomes, types, left>>
  BY DEF BuildDelete, Detach
<1>3. DOMAIN job = {"stage", "step", "of"}
  BY <1>2 DEF GraphInv, BuildOk
<1>4. job'.step = "state nodes"
  BY <1>2, <1>3
<1>5. FilesInv' /\ job'.stage = "build"
  BY <1>1, <1>2, <1>3, <1>4, BuildFiles
<1>6. GraphTold'
  <2>1. NumbersInv'
    BY <1>2, FS_EmptySet DEF NumbersInv
  <2>2. StatsInv' /\ BuiltInv' /\ AbsorbedInv'
    BY <1>2 DEF StatsInv, BuiltInv, AbsorbedInv
  <2> QED
    BY <2>1, <2>2 DEF GraphTold
<1>7. BuildInv'
  <2>1. NodeKinds("state nodes") = {} /\ RelKinds("state nodes") = {}
    BY DEF NodeKinds, RelKinds
  <2>2. \A of : WroteNodes(nodes', of, {}) /\ WroteRels(rels', of, {})
    BY <1>2 DEF WroteNodes, WroteRels
  <2> QED
    BY <1>2, <1>4, <2>1, <2>2 DEF BuildInv
<1>8. StageInv'
  BY <1>5, <1>7, StageOfBuild
<1> QED
  BY <1>5, <1>6, <1>8, TurnsParts DEF TurnsInv, GraphTold, StageInv

\* The kinds a build has written, statement by statement.
LEMMA KindsWritten ==
  /\ NodeKinds("state nodes") = {} /\ NodeKinds("action nodes") = {"state"}
  /\ NodeKinds("state rels") = Kinds /\ NodeKinds("action rels") = Kinds /\ NodeKinds("record") = Kinds
  /\ RelKinds("state nodes") = {} /\ RelKinds("action nodes") = {} /\ RelKinds("state rels") = {}
  /\ RelKinds("action rels") = {"state"} /\ RelKinds("record") = Kinds
  BY DEF NodeKinds, RelKinds, Kinds

NodesOrder(kind, step, next) ==
  \/ kind = "state" /\ step = "state nodes" /\ next = "action nodes"
  \/ kind = "action" /\ step = "action nodes" /\ next = "state rels"
LEMMA BuildNodesStep ==
  ASSUME TurnsInv, GraphInv, GraphInv', NEW kind \in Kinds, NEW step, NEW next,
         NodesOrder(kind, step, next), BuildNodes(kind, step, next)
  PROVE  TurnsInv'
<1> DEFINE rows == DOMAIN job.of
           new == {job.of[t] : t \in {u \in rows : Kind(u) = kind}}
<1>1. FilesInv /\ GraphTold /\ StageInv
  BY TurnsParts
<1>2. /\ job.stage = "build" /\ job.step = step /\ job' = [job EXCEPT !.step = next]
      /\ UNCHANGED <<annotations, observations, outcomes, types, rels, part, left, done>>
      /\ DOMAIN nodes' = DOMAIN nodes \cup new
      /\ \A e \in DOMAIN nodes' :
           nodes'[e] = IF e \in new THEN Node(1, Count(rows, job.of, e), Ends(rows, job.of, e)) ELSE nodes[e]
  BY DEF BuildNodes
<1>3. DOMAIN job = {"stage", "step", "of"}
  BY <1>2 DEF GraphInv, BuildOk
<1>4. job'.step = next
  BY <1>2, <1>3
<1>5. FilesInv' /\ job'.stage = "build" /\ job'.of = job.of
  BY <1>1, <1>2, <1>3, <1>4, BuildFiles
<1>6. FirstOf(job.of) /\ rows \in SUBSET Events
  BY <1>1, <1>2 DEF FilesInv, FirstOf
<1>7. /\ done = {} /\ DOMAIN part = {}
      /\ WroteNodes(nodes, job.of, NodeKinds(step)) /\ WroteRels(rels, job.of, RelKinds(step))
  BY <1>1, <1>2 DEF StageInv, BuildInv, NodesOrder
<1>8. NodeKinds(next) = NodeKinds(step) \cup {kind} /\ RelKinds(next) = RelKinds(step)
  BY KindsWritten DEF NodesOrder, Kinds
<1>9. \A e \in new : e[2] = 1
  BY <1>6 DEF FirstOf
<1>10. IsFiniteSet(new)
  <2> DEFINE of == job.of
  <2>1. IsFiniteSet(rows) /\ \A e \in new : \E t \in rows : of[t] = e
    BY <1>6, RowsFinite
  <2> HIDE DEF rows, new, of
  <2> QED
    BY <2>1, CountImage
<1>11. \A e : Count(rows, job.of, e) \in Nat /\ Ends(rows, job.of, e) \in Nat
  BY <1>6, CountSplits
<1> HIDE DEF new
<1>12. \A e \in new : /\ nodes'[e].level = 1 /\ nodes'[e].stats = Nil
                      /\ nodes'[e].count = Count(rows, job.of, e) /\ nodes'[e].ends = Ends(rows, job.of, e)
  <2> SUFFICES ASSUME NEW e \in new
               PROVE  /\ nodes'[e].level = 1 /\ nodes'[e].stats = Nil
                      /\ nodes'[e].count = Count(rows, job.of, e) /\ nodes'[e].ends = Ends(rows, job.of, e)
    OBVIOUS
  <2>1. e \in DOMAIN nodes'
    BY <1>2
  <2>2. nodes'[e] = Node(1, Count(rows, job.of, e), Ends(rows, job.of, e))
    BY <1>2, <2>1
  <2> QED
    BY <2>2 DEF Node
<1>13. \A e \in DOMAIN nodes \ new : nodes'[e] = nodes[e]
  BY <1>2
<1> HIDE DEF rows
<1>14. NumbersInv'
  <2>1. IsFiniteSet(DOMAIN nodes')
    <3>1. IsFiniteSet(DOMAIN nodes)
      BY <1>1 DEF GraphTold, NumbersInv
    <3>2. IsFiniteSet(DOMAIN nodes \cup new)
      BY <1>10, <3>1, FS_Union
    <3> QED
      BY <1>2, <3>2
  <2>2. \A e \in DOMAIN nodes' : e[2] \in Heights /\ nodes'[e].count \in Nat /\ nodes'[e].ends \in Nat
    BY <1>1, <1>2, <1>9, <1>11, <1>12, <1>13 DEF GraphTold, NumbersInv, Heights
  <2>3. \A e \in DOMAIN nodes' : \A l \in 1 .. e[2] : l \in Levels'
    <3> SUFFICES ASSUME NEW e \in DOMAIN nodes', NEW l \in 1 .. e[2] PROVE l \in Levels'
      OBVIOUS
    <3>1. CASE e \in new
      <4>1. l = 1 /\ nodes'[e].level = 1
        BY <1>9, <1>12, <3>1
      <4> QED
        BY <4>1 DEF Levels, LevelOf
    <3>2. CASE e \notin new
      <4>1. e \in DOMAIN nodes /\ l \in Levels
        BY <1>1, <1>2, <3>2 DEF GraphTold, NumbersInv
      <4>2. PICK x \in DOMAIN nodes : l = nodes[x].level
        BY <4>1 DEF Levels, LevelOf
      <4>3. x \in DOMAIN nodes' /\ nodes'[x].level = nodes[x].level
        BY <1>2 DEF GraphInv, NodesOk
      <4> QED
        BY <4>2, <4>3 DEF Levels, LevelOf
    <3> QED
      BY <3>1, <3>2
  <2> QED
    BY <1>1, <1>2, <2>1, <2>2, <2>3 DEF GraphTold, NumbersInv
<1>15. StatsInv'
  BY <1>1, <1>2, <1>12, <1>13 DEF GraphTold, StatsInv
<1>16. GraphTold'
  BY <1>2, <1>7, <1>14, <1>15 DEF GraphTold, BuiltInv, AbsorbedInv
<1>17. WroteNodes(nodes', job.of, NodeKinds(next))
  <2>1. DOMAIN nodes' = {job.of[t] : t \in {u \in rows : Kind(u) \in NodeKinds(next)}}
    BY <1>2, <1>7, <1>8 DEF WroteNodes, new, rows
  <2>2. \A e \in DOMAIN nodes' : nodes'[e].count = Count(rows, job.of, e) /\ nodes'[e].ends = Ends(rows, job.of, e)
    <3>1. \A e \in DOMAIN nodes : nodes[e].count = Count(rows, job.of, e) /\ nodes[e].ends = Ends(rows, job.of, e)
      BY <1>7 DEF WroteNodes, rows
    <3> QED
      BY <1>2, <1>12, <1>13, <3>1
  <2> QED
    BY <2>1, <2>2 DEF WroteNodes, rows
<1>18. WroteRels(rels', job.of, RelKinds(next))
  BY <1>2, <1>7, <1>8
<1>19. BuildInv'
  BY <1>2, <1>4, <1>5, <1>7, <1>17, <1>18 DEF BuildInv, NodesOrder
<1>20. StageInv'
  BY <1>5, <1>19, StageOfBuild
<1> QED
  BY <1>5, <1>16, <1>20, TurnsParts DEF TurnsInv, GraphTold, StageInv

\* What Created writes of the pairs of turns it is given.
Put(level, pairs, rows, of, new) ==
  /\ DOMAIN rels' = DOMAIN rels \cup new
  /\ \A r \in new :
       /\ r = <<level, r[2], r[3]>> /\ <<r[2], r[3]>> \in pairs
       /\ r[2] \in DOMAIN nodes /\ r[3] \in DOMAIN nodes
       /\ rels'[r].num = Num(rows, of, r[2], r[3]) + (IF r \in DOMAIN rels THEN rels[r].num ELSE 0)
       /\ rels'[r].good = IF r \in DOMAIN rels THEN rels[r].good ELSE Nil
  /\ \A r \in DOMAIN rels \ new : rels'[r] = rels[r]
  /\ \A p \in pairs : p[1] \in DOMAIN nodes /\ p[2] \in DOMAIN nodes => <<level, p[1], p[2]>> \in new
LEMMA CreatedPuts ==
  ASSUME NEW level, NEW rows, NEW of, NEW pairs, pairs \subseteq Lifted(rows, of),
         NEW number, number = [p \in pairs |-> Num(rows, of, p[1], p[2])],
         rels' = Created(level, pairs, number)
  PROVE  \E new : Put(level, pairs, rows, of, new)
<1> DEFINE new == New(level, pairs)
<1>1. \A r \in new : \E p \in pairs : r = <<level, p[1], p[2]>> /\ p[1] \in DOMAIN nodes /\ p[2] \in DOMAIN nodes
  BY DEF New
<1>2. \A p \in pairs : p[1] \in DOMAIN nodes /\ p[2] \in DOMAIN nodes => <<level, p[1], p[2]>> \in new
  BY DEF New
<1>3. Created(level, pairs, number) = [r \in DOMAIN rels \cup New(level, pairs) |->
        IF r \notin New(level, pairs) THEN rels[r]
        ELSE [num |-> number[<<r[2], r[3]>>] + (IF r \in DOMAIN rels THEN rels[r].num ELSE 0),
              good |-> IF r \in DOMAIN rels THEN rels[r].good ELSE Nil]]
  BY Zenon DEF Created, New
<1>4. rels' = [r \in DOMAIN rels \cup new |->
        IF r \notin new THEN rels[r]
        ELSE [num |-> number[<<r[2], r[3]>>] + (IF r \in DOMAIN rels THEN rels[r].num ELSE 0),
              good |-> IF r \in DOMAIN rels THEN rels[r].good ELSE Nil]]
  BY Zenon, <1>3
<1> HIDE DEF new
<1>5. \A p \in pairs : p = <<p[1], p[2]>> /\ number[p] = Num(rows, of, p[1], p[2])
  <2> SUFFICES ASSUME NEW p \in pairs PROVE p = <<p[1], p[2]>> /\ number[p] = Num(rows, of, p[1], p[2])
    OBVIOUS
  <2>1. PICK t \in rows, u \in rows : p = <<of[t], of[u]>>
    BY LiftedOf
  <2> QED
    BY <2>1
<1>6. ASSUME NEW r \in new
      PROVE  /\ r = <<level, r[2], r[3]>> /\ <<r[2], r[3]>> \in pairs
             /\ r[2] \in DOMAIN nodes /\ r[3] \in DOMAIN nodes
             /\ rels'[r].num = Num(rows, of, r[2], r[3]) + (IF r \in DOMAIN rels THEN rels[r].num ELSE 0)
             /\ rels'[r].good = IF r \in DOMAIN rels THEN rels[r].good ELSE Nil
  <2>1. PICK p \in pairs : r = <<level, p[1], p[2]>> /\ p[1] \in DOMAIN nodes /\ p[2] \in DOMAIN nodes
    BY <1>1
  <2>2. p = <<p[1], p[2]>> /\ number[p] = Num(rows, of, p[1], p[2])
    BY <1>5
  <2>3. r[2] = p[1] /\ r[3] = p[2]
    BY <2>1
  <2>4. <<r[2], r[3]>> = p
    BY <2>2, <2>3
  <2>5. rels'[r] = [num |-> number[p] + (IF r \in DOMAIN rels THEN rels[r].num ELSE 0),
                    good |-> IF r \in DOMAIN rels THEN rels[r].good ELSE Nil]
    BY <1>4, <2>4
  <2>6. rels'[r].num = number[p] + (IF r \in DOMAIN rels THEN rels[r].num ELSE 0)
        /\ rels'[r].good = IF r \in DOMAIN rels THEN rels[r].good ELSE Nil
    BY <2>5
  <2> QED
    BY <2>1, <2>2, <2>3, <2>4, <2>6
<1>7. DOMAIN rels' = DOMAIN rels \cup new /\ \A r \in DOMAIN rels \ new : rels'[r] = rels[r]
  BY <1>4
<1> QED
  BY <1>2, <1>6, <1>7 DEF Put

LEMMA NumNat ==
  ASSUME NEW rows \in SUBSET Events, NEW of, NEW a, NEW b
  PROVE  Num(rows, of, a, b) \in Nat
<1> DEFINE S == {p \in Pairs(rows) : of[p[1]] = a /\ of[p[2]] = b}
<1>1. S \in SUBSET Pairs(rows)
  OBVIOUS
<1>2. Num(rows, of, a, b) = Cardinality(S)
  BY Zenon DEF Num
<1> HIDE DEF S
<1> QED
  BY <1>1, <1>2, RowsFinite, FS_Subset, FS_CardinalityType

RelsOrder(kind, step, next) ==
  \/ kind = "state" /\ step = "state rels" /\ next = "action rels"
  \/ kind = "action" /\ step = "action rels" /\ next = "record"
LEMMA BuildRelsStep ==
  ASSUME TurnsInv, GraphInv, NEW kind \in Kinds, NEW step, NEW next,
         RelsOrder(kind, step, next), BuildRels(kind, step, next)
  PROVE  TurnsInv'
<1> DEFINE of == job.of
           rows == DOMAIN of
           pairs == {p \in Lifted(rows, of) : p[1][1] = kind}
           number == [p \in pairs |-> Num(rows, of, p[1], p[2])]
<1>1. FilesInv /\ GraphTold /\ StageInv
  BY TurnsParts
<1>2. /\ job.stage = "build" /\ job.step = step /\ job' = [job EXCEPT !.step = next]
      /\ UNCHANGED <<annotations, observations, outcomes, types, nodes, part, left, done>>
      /\ rels' = Created(1, pairs, number)
  BY DEF BuildRels
<1>3. DOMAIN job = {"stage", "step", "of"}
  BY <1>2 DEF GraphInv, BuildOk
<1>4. job'.step = next
  BY <1>2, <1>3
<1>5. FilesInv' /\ job'.stage = "build" /\ job'.of = of
  BY <1>1, <1>2, <1>3, <1>4, BuildFiles
<1>6. FirstOf(of) /\ rows \in SUBSET Events
  BY <1>1, <1>2 DEF FilesInv, FirstOf
<1>7. /\ done = {} /\ DOMAIN part = {}
      /\ WroteNodes(nodes, of, NodeKinds(step)) /\ WroteRels(rels, of, RelKinds(step))
  BY <1>1, <1>2 DEF StageInv, BuildInv, RelsOrder
<1>8. /\ NodeKinds(next) = Kinds /\ NodeKinds(step) = Kinds
      /\ RelKinds(next) = RelKinds(step) \cup {kind} /\ kind \notin RelKinds(step)
  BY KindsWritten DEF RelsOrder, Kinds
<1>9. \A t \in rows : of[t] \in DOMAIN nodes
  <2>1. \A t \in rows : Kind(t) \in Kinds
    BY <1>6, EventShape
  <2> QED
    BY <1>7, <1>8, <2>1 DEF WroteNodes
<1>10. PICK new : Put(1, pairs, rows, of, new)
  <2>1. pairs \subseteq Lifted(rows, of)
    OBVIOUS
  <2>2. number = [p \in pairs |-> Num(rows, of, p[1], p[2])]
    OBVIOUS
  <2> HIDE DEF pairs, number, rows, of
  <2> QED
    BY <1>2, <2>1, <2>2, CreatedPuts
<1>11. \A p \in Lifted(rows, of) : p[1] \in DOMAIN nodes /\ p[2] \in DOMAIN nodes /\ p = <<p[1], p[2]>>
  BY <1>9, LiftedOf
<1>12. new = {<<1, p[1], p[2]>> : p \in pairs}
  <2>1. \A r \in new : \E p \in pairs : r = <<1, p[1], p[2]>>
    <3> SUFFICES ASSUME NEW r \in new PROVE \E p \in pairs : r = <<1, p[1], p[2]>>
      OBVIOUS
    <3>1. r = <<1, r[2], r[3]>> /\ <<r[2], r[3]>> \in pairs
      BY <1>10 DEF Put
    <3> DEFINE p == <<r[2], r[3]>>
    <3>2. p[1] = r[2] /\ p[2] = r[3] /\ p \in pairs
      BY <3>1
    <3> HIDE DEF p
    <3> QED
      BY <3>1, <3>2
  <2>2. \A p \in pairs : <<1, p[1], p[2]>> \in new
    BY <1>10, <1>11 DEF Put
  <2> HIDE DEF pairs
  <2> QED
    BY <2>1, <2>2
<1>13. \A r \in DOMAIN rels : r[2][1] \in RelKinds(step)
  BY <1>7 DEF WroteRels
<1>14. \A r \in new : r \notin DOMAIN rels
  <2> SUFFICES ASSUME NEW r \in new PROVE r \notin DOMAIN rels
    OBVIOUS
  <2>1. <<r[2], r[3]>> \in pairs
    BY <1>10 DEF Put
  <2>2. r[2][1] = kind
    BY <2>1
  <2> QED
    BY <1>8, <1>13, <2>2
<1>15. \A r \in new : rels'[r].num = Num(rows, of, r[2], r[3]) /\ rels'[r].good = Nil /\ r = <<1, r[2], r[3]>>
  <2> SUFFICES ASSUME NEW r \in new
               PROVE  rels'[r].num = Num(rows, of, r[2], r[3]) /\ rels'[r].good = Nil /\ r = <<1, r[2], r[3]>>
    OBVIOUS
  <2>1. /\ rels'[r].num = Num(rows, of, r[2], r[3]) + (IF r \in DOMAIN rels THEN rels[r].num ELSE 0)
        /\ rels'[r].good = (IF r \in DOMAIN rels THEN rels[r].good ELSE Nil) /\ r = <<1, r[2], r[3]>>
    BY <1>10 DEF Put
  <2>2. Num(rows, of, r[2], r[3]) \in Nat /\ r \notin DOMAIN rels
    BY <1>6, <1>14, NumNat
  <2> QED
    BY <2>1, <2>2
<1>16. DOMAIN rels' = DOMAIN rels \cup new /\ \A r \in DOMAIN rels \ new : rels'[r] = rels[r]
  BY <1>10 DEF Put
<1>17. WroteRels(rels', of, RelKinds(next))
  <2>1. DOMAIN rels' = {<<1, p[1], p[2]>> : p \in {q \in Lifted(rows, of) : q[1][1] \in RelKinds(next)}}
    <3>1. DOMAIN rels = {<<1, p[1], p[2]>> : p \in {q \in Lifted(rows, of) : q[1][1] \in RelKinds(step)}}
      BY <1>7 DEF WroteRels
    <3> HIDE DEF rows, of
    <3> QED
      BY <1>8, <1>12, <1>16, <3>1
  <2>2. \A r \in DOMAIN rels' : rels'[r].num = Num(rows, of, r[2], r[3]) /\ rels'[r].good = Nil
    <3>1. \A r \in DOMAIN rels : rels[r].num = Num(rows, of, r[2], r[3]) /\ rels[r].good = Nil
      BY <1>7 DEF WroteRels
    <3> HIDE DEF pairs, rows, of
    <3> QED
      BY <1>15, <1>16, <3>1
  <2> QED
    BY <2>1, <2>2 DEF WroteRels
<1> HIDE DEF pairs, number
<1>18. GraphTold'
  <2>1. NumbersInv'
    <3>1. \A r \in DOMAIN rels' : r = <<r[1], r[2], r[3]>> /\ r[1] \in Heights /\ rels'[r].num \in Nat /\ rels'[r].good \in Nat \cup {Nil}
      <4> SUFFICES ASSUME NEW r \in DOMAIN rels'
                   PROVE  r = <<r[1], r[2], r[3]>> /\ r[1] \in Heights /\ rels'[r].num \in Nat /\ rels'[r].good \in Nat \cup {Nil}
        OBVIOUS
      <4>1. CASE r \in new
        <5>1. Num(rows, of, r[2], r[3]) \in Nat
          BY <1>6, NumNat
        <5> HIDE DEF rows, of
        <5>2. rels'[r].num \in Nat /\ rels'[r].good = Nil /\ r = <<1, r[2], r[3]>>
          BY <1>15, <4>1, <5>1
        <5>3. r[1] = 1
          BY <5>2
        <5> QED
          BY <5>2, <5>3 DEF Heights
      <4>2. CASE r \notin new
        BY <1>1, <1>16, <4>2 DEF GraphTold, NumbersInv
      <4> QED
        BY <4>1, <4>2
    <3> QED
      BY <1>1, <1>2, <3>1 DEF GraphTold, NumbersInv, Levels, LevelOf
  <2> QED
    BY <1>1, <1>2, <1>7, <2>1 DEF GraphTold, StatsInv, BuiltInv, AbsorbedInv
<1>19. BuildInv'
  <2>1. WroteNodes(nodes', of, NodeKinds(next))
    BY <1>2, <1>7, <1>8
  <2> HIDE DEF rows, of
  <2> QED
    BY <1>2, <1>4, <1>5, <1>7, <1>17, <2>1 DEF BuildInv, RelsOrder
<1>20. StageInv'
  BY <1>5, <1>19, StageOfBuild
<1> QED
  BY <1>5, <1>18, <1>20, TurnsParts DEF TurnsInv, GraphTold, StageInv

\* With no parents every element stands for itself.
LEMMA NoParents ==
  ASSUME NEW N, NEW P, DOMAIN P = {}, WalkOk(N, P), NEW of, \A t \in DOMAIN of : of[t] \in DOMAIN N,
         of = [t \in DOMAIN of |-> of[t]], NEW l \in Nat
  PROVE  StoodIn(N, P, of, l) = of
<1>1. \A x \in DOMAIN N : Walk(N, P, l)[x] = x
  <2>1. \A x \in DOMAIN N : ~ Goes(N, P, l, x)
    BY DEF Goes
  <2> QED
    BY <2>1, WalkStep
<1>2. \A t \in DOMAIN of : Walk(N, P, l)[of[t]] = of[t]
  BY <1>1
<1> QED
  BY <1>2 DEF StoodIn

LEMMA BuildRecordStep ==
  ASSUME TurnsInv, GraphInv, BuildRecord
  PROVE  TurnsInv'
<1>1. FilesInv /\ GraphTold /\ StageInv
  BY TurnsParts
<1>2. job.stage = "build" /\ job.step = "record" /\ job' = Idle
      /\ UNCHANGED <<annotations, outcomes, types, nodes, rels, part, left>>
  BY DEF BuildRecord
<1>3. StageInv'
  BY <1>2, StageQuiet DEF Idle
<1> DEFINE of == job.of
           rows == DOMAIN of
<1>4. FirstOf(of) /\ rows \in SUBSET Events
  BY <1>1, <1>2 DEF FilesInv, FirstOf
<1>5. /\ done = {} /\ DOMAIN part = {}
      /\ WroteNodes(nodes, of, Kinds) /\ WroteRels(rels, of, Kinds)
  BY <1>1, <1>2, KindsWritten DEF StageInv, BuildInv
<1>6. CASE ~ Landed
  <2>1. UNCHANGED <<observations, done>>
    BY <1>6 DEF BuildRecord
  <2>2. GraphTold'
    BY <1>1, <1>2, <2>1, ToldStands
  <2>3. FilesInv'
    BY <1>1, <1>2, <2>1 DEF FilesInv, Idle
  <2> QED
    BY <1>3, <2>2, <2>3, TurnsParts DEF TurnsInv, GraphTold, StageInv
<1>7. CASE Landed
  <2>1. observations' = of /\ done' = {"build"}
    BY <1>7 DEF BuildRecord
  <2>2. FilesInv'
    BY <1>1, <1>2, <1>4, <2>1 DEF FilesInv, Idle, Stages
  <2>3. \A t \in rows : of[t] \in DOMAIN nodes
    <3>1. \A t \in rows : Kind(t) \in Kinds
      BY <1>4, EventShape
    <3> QED
      BY <1>5, <3>1 DEF WroteNodes
  <2>4. WalkOk(nodes, part)
    BY <1>1, GraphWalks DEF GraphTold
  <2>5. \A l \in Nat : StoodIn(nodes, part, of, l) = of
    <3>1. of = [t \in DOMAIN of |-> of[t]]
      BY <1>4 DEF FirstOf
    <3> HIDE DEF of
    <3> QED
      BY <1>5, <2>3, <2>4, <3>1, NoParents DEF rows
  <2>6. Holds(nodes, rels, part, of)
    <3>1. \A e \in DOMAIN nodes : \E t \in DOMAIN of : of[t] = e
      BY <1>5 DEF WroteNodes
    <3>2. \A l \in Heights : CountedBy(nodes, StoodIn(nodes, part, of, l))
      <4>1. CountedBy(nodes, of)
        BY <1>5, <2>3 DEF WroteNodes, CountedBy
      <4> QED
        BY <2>5, <4>1 DEF Heights
    <3>3. \A p \in Pairs(rows) : <<of[p[1]], of[p[2]]>> \in Lifted(rows, of) /\ of[p[1]][1] \in Kinds
      <4> SUFFICES ASSUME NEW p \in Pairs(rows)
                   PROVE  <<of[p[1]], of[p[2]]>> \in Lifted(rows, of) /\ of[p[1]][1] \in Kinds
        OBVIOUS
      <4>1. p[1] \in rows
        BY PairShape
      <4>2. of[p[1]][1] = Kind(p[1]) /\ Kind(p[1]) \in Kinds
        BY <1>4, <4>1, EventShape DEF FirstOf
      <4> QED
        BY <4>2 DEF Lifted
    <3>4. CompleteBy(rels, of, 1)
      <4> SUFFICES ASSUME NEW p \in Pairs(rows) PROVE <<1, of[p[1]], of[p[2]]>> \in DOMAIN rels
        BY DEF CompleteBy
      <4> DEFINE q == <<of[p[1]], of[p[2]]>>
      <4>1. q \in Lifted(rows, of) /\ q[1][1] \in Kinds
        BY <3>3
      <4>2. <<1, q[1], q[2]>> \in DOMAIN rels
        <5> HIDE DEF q, rows, of
        <5> QED
          BY <1>5, <4>1 DEF WroteRels, rows
      <4> QED
        BY <4>2
    <3>5. ASSUME NEW r \in DOMAIN rels
          PROVE  r[1] = 1 /\ FitsBy(rels, of, r) /\ rels[r].good = Nil
      <4>1. PICK q \in Lifted(rows, of) : r = <<1, q[1], q[2]>>
        BY <1>5 DEF WroteRels
      <4>2. PICK p \in Pairs(rows) : q = <<of[p[1]], of[p[2]]>>
        BY DEF Lifted
      <4>3. rels[r].num = Num(rows, of, r[2], r[3]) /\ rels[r].good = Nil
        BY <1>5 DEF WroteRels
      <4> QED
        BY <4>1, <4>2, <4>3 DEF FitsBy
    <3>6. \A r \in DOMAIN rels : FitsBy(rels, StoodIn(nodes, part, of, r[1]), r)
      BY <2>5, <3>5
    <3> HIDE DEF of, rows
    <3> QED
      BY <2>3, <3>1, <3>2, <3>4, <3>5, <3>6 DEF Holds, rows
  <2>7. BuiltInv'
    <3>1. Holds(nodes', rels', part', observations')
      BY <1>2, <2>1, <2>6
    <3>2. FirstOf(observations')
      BY <1>4, <2>1
    <3> QED
      BY <2>1, <3>1, <3>2 DEF BuiltInv
  <2>8. GraphTold'
    <3>1. NumbersInv' /\ StatsInv'
      BY <1>1, <1>2 DEF GraphTold, NumbersInv, StatsInv, Levels, LevelOf
    <3>2. AbsorbedInv'
      BY <2>1 DEF AbsorbedInv
    <3> QED
      BY <2>7, <3>1, <3>2 DEF GraphTold
  <2> QED
    BY <1>3, <2>2, <2>8, TurnsParts DEF TurnsInv, GraphTold, StageInv
<1> QED
  BY <1>6, <1>7


-----------------------------------------------------------------------------
(* abstract: what is cleared *)

LEMMA GraphWalksNext == GraphInv' /\ NumbersInv' => WalkOk(nodes', part')
  BY DEF GraphInv, NodesOk, PartOk, NumbersInv, Heights, WalkOk

LEMMA FirstStands ==
  ASSUME NEW N, NEW P, NEW of, WalkOk(N, P), FirstOf(of), \A t \in DOMAIN of : of[t] \in DOMAIN N
  PROVE  StoodIn(N, P, of, 1) = of
<1>1. \A t \in DOMAIN of : StoodIn(N, P, of, 1)[t] = of[t]
  BY StoodFirst
<1>2. of = [t \in DOMAIN of |-> of[t]]
  BY DEF FirstOf
<1>3. StoodIn(N, P, of, 1) = [t \in DOMAIN of |-> StoodIn(N, P, of, 1)[t]]
  BY DEF StoodIn
<1> DEFINE at == StoodIn(N, P, of, 1)
<1> HIDE DEF at
<1>4. at = [t \in DOMAIN of |-> at[t]] /\ \A t \in DOMAIN of : at[t] = of[t]
  BY <1>1, <1>3 DEF at
<1>5. at = of
  BY <1>2, <1>4
<1> QED
  BY <1>5 DEF at

LEMMA StartStep ==
  ASSUME TurnsInv, GraphInv, GraphInv', AbstractStart
  PROVE  TurnsInv'
<1> DEFINE kept == {e \in DOMAIN nodes : LevelOf(e) < 2}
<1>1. FilesInv /\ GraphTold /\ StageInv
  BY TurnsParts
<1>2. /\ DOMAIN nodes' = kept /\ \A e \in kept : nodes'[e] = nodes[e]
      /\ DOMAIN rels' = {r \in DOMAIN rels : r[2] \in kept /\ r[3] \in kept}
      /\ \A r \in DOMAIN rels' : rels'[r] = rels[r]
      /\ DOMAIN part' = {c \in DOMAIN part : c \in kept /\ part[c] \in kept}
      /\ job' = [stage |-> "abstract", step |-> "clear"] /\ done' = done \ {"abstract", "absorb"}
      /\ UNCHANGED <<annotations, observations, outcomes, types>>
  BY DEF AbstractStart, Detach
<1>3. \A e \in kept : e \in DOMAIN nodes /\ e[2] = 1 /\ nodes[e].level = 1
  BY <1>1 DEF GraphInv, NodesOk, LevelOf, GraphTold, NumbersInv, Heights
<1>4. DOMAIN part' = {}
  <2>1. \A c \in DOMAIN part : part[c] \in DOMAIN nodes /\ part[c][2] > c[2] /\ c[2] \in Heights /\ part[c][2] \in Heights
    BY <1>1 DEF GraphInv, PartOk, GraphTold, NumbersInv
  <2>2. \A c \in DOMAIN part : part[c] \notin kept
    <3> HIDE DEF kept
    <3> QED
      BY <1>3, <2>1 DEF Heights
  <2> QED
    BY <1>2, <2>2
<1>5. left' \in [Commands -> Nat]
  <2>1. Start("abstract") /\ "abstract" \in Stages
    BY DEF AbstractStart, Stages
  <2> QED
    BY <1>1, <2>1, LeftSpent
<1>6. FilesInv'
  BY <1>1, <1>2, <1>5 DEF FilesInv, Stages
<1>7. NumbersInv'
  <2>1. IsFiniteSet(DOMAIN nodes')
    BY <1>1, <1>2, FS_Subset DEF GraphTold, NumbersInv
  <2>2. \A e \in DOMAIN nodes' : e[2] \in Heights /\ nodes'[e].count \in Nat /\ nodes'[e].ends \in Nat
    BY <1>1, <1>2 DEF GraphTold, NumbersInv
  <2>3. \A r \in DOMAIN rels' : r \in DOMAIN rels /\ rels'[r] = rels[r]
    BY <1>2
  <2>4. \A r \in DOMAIN rels' :
          r = <<r[1], r[2], r[3]>> /\ r[1] \in Heights /\ rels'[r].num \in Nat /\ rels'[r].good \in Nat \cup {Nil}
    BY <1>1, <2>3 DEF GraphTold, NumbersInv
  <2>5. \A e \in DOMAIN nodes' : \A l \in 1 .. e[2] : l \in Levels'
    <3> SUFFICES ASSUME NEW e \in DOMAIN nodes', NEW l \in 1 .. e[2] PROVE l \in Levels'
      OBVIOUS
    <3>1. e[2] = 1 /\ nodes'[e].level = 1
      BY <1>2, <1>3
    <3>2. l = 1
      BY <3>1
    <3> QED
      BY <3>1, <3>2 DEF Levels, LevelOf
  <2> QED
    BY <2>1, <2>2, <2>4, <2>5 DEF NumbersInv
<1>8. StatsInv'
  BY <1>1, <1>2 DEF GraphTold, StatsInv
<1>9. BuiltInv'
  <2> SUFFICES ASSUME "build" \in done PROVE Holds(nodes', rels', part', observations) /\ FirstOf(observations)
    BY <1>2 DEF BuiltInv
  <2> DEFINE of == observations
  <2>1. WalkOk(nodes, part) /\ Holds(nodes, rels, part, of) /\ FirstOf(of)
    BY <1>1, GraphWalks DEF GraphTold, BuiltInv
  <2>2. WalkOk(nodes', part')
    BY <1>7, GraphWalksNext
  <2>3. \A t \in DOMAIN of : of[t] \in DOMAIN nodes /\ of[t][2] = 1
    BY <2>1 DEF Holds, FirstOf
  <2>4. \A t \in DOMAIN of : of[t] \in DOMAIN nodes' /\ nodes'[of[t]] = nodes[of[t]]
    BY <1>2, <2>3 DEF GraphInv, NodesOk, LevelOf
  <2>5. StoodIn(nodes, part, of, 1) = of
    BY <2>1, <2>3, FirstStands
  <2>6. \A l \in Nat : StoodIn(nodes', part', of, l) = of
    BY <1>4, <2>1, <2>2, <2>4, NoParents DEF FirstOf
  <2>7. CountedBy(nodes, of)
    <3>1. 1 \in Heights
      BY DEF Heights
    <3> QED
      BY <2>1, <2>5, <3>1 DEF Holds
  <2>8. CountedBy(nodes', of)
    BY <2>4, <2>7 DEF CountedBy
  <2>9. \A l \in Heights : CountedBy(nodes', StoodIn(nodes', part', of, l))
    BY <2>6, <2>8 DEF Heights
  <2>10. CompleteBy(rels', of, 1)
    <3> SUFFICES ASSUME NEW p \in Pairs(DOMAIN of) PROVE <<1, of[p[1]], of[p[2]]>> \in DOMAIN rels'
      BY DEF CompleteBy
    <3> DEFINE q == <<1, of[p[1]], of[p[2]]>>
    <3>1. q \in DOMAIN rels
      BY <2>1 DEF Holds, CompleteBy
    <3>2. p[1] \in DOMAIN of /\ p[2] \in DOMAIN of
      BY PairShape
    <3>3. q[2] \in kept /\ q[3] \in kept
      BY <1>2, <2>4, <3>2
    <3> QED
      BY <1>2, <3>1, <3>3
  <2>11. ASSUME NEW r \in DOMAIN rels' , r[1] \in HeightsOf(nodes')
         PROVE  FitsBy(rels', StoodIn(nodes', part', of, r[1]), r)
    <3>1. r[1] = 1
      BY <1>2, <1>3, <2>11 DEF HeightsOf
    <3>2. r \in DOMAIN rels /\ r[2] \in kept /\ rels'[r] = rels[r]
      BY <1>2
    <3>3. r[1] \in HeightsOf(nodes)
      BY <1>3, <3>1, <3>2 DEF HeightsOf
    <3>4. FitsBy(rels, of, r)
      BY <2>1, <2>5, <3>1, <3>2, <3>3 DEF Holds
    <3>5. FitsBy(rels', of, r)
      BY <3>2, <3>4 DEF FitsBy
    <3>6. StoodIn(nodes', part', of, r[1]) = of
      BY <2>6, <3>1
    <3> QED
      BY <3>5, <3>6
  <2>12. \A r \in DOMAIN rels' : rels'[r].good # Nil => rels'[r].good <= rels'[r].num
    BY <1>2, <2>1 DEF Holds
  <2>13. \A e \in DOMAIN nodes' : e[2] = 1 => \E t \in DOMAIN of : of[t] = e
    BY <1>2, <2>1 DEF Holds
  <2> QED
    BY <2>1, <2>4, <2>9, <2>10, <2>11, <2>12, <2>13 DEF Holds
<1>10. GraphTold'
  BY <1>2, <1>7, <1>8, <1>9 DEF GraphTold, AbsorbedInv
<1>11. StageInv'
  <2>1. job'.stage = "abstract" /\ job'.step = "clear"
    BY <1>2
  <2>2. \A e \in DOMAIN nodes' : e[2] < 2
    BY <1>2, <1>3
  <2>3. UndoneInv'
    BY <1>2, <1>4, <2>1, <2>2 DEF UndoneInv
  <2> QED
    BY <2>1, <2>3 DEF StageInv, MadeInv, BuildInv, ClimbInv, LiftInv, CarryInv, AbsorbInv, Lifting, Carrying, Absorbing
<1> QED
  BY <1>6, <1>10, <1>11, TurnsParts DEF TurnsInv, GraphTold, StageInv

LEMMA ClearStep ==
  ASSUME TurnsInv, GraphInv, GraphInv', AbstractClear
  PROVE  TurnsInv'
<1>1. FilesInv /\ GraphTold /\ StageInv
  BY TurnsParts
<1>2. /\ job.stage = "abstract" /\ job.step = "clear"
      /\ DOMAIN rels' = {r \in DOMAIN rels : r[1] < 2} /\ \A r \in DOMAIN rels' : rels'[r] = rels[r]
      /\ UNCHANGED <<annotations, observations, outcomes, types, nodes, part, left, done>>
  BY DEF AbstractClear, FirstRels
<1>3. /\ "abstract" \notin done /\ "absorb" \notin done
      /\ DOMAIN part = {} /\ \A e \in DOMAIN nodes : e[2] < 2
  BY <1>1, <1>2 DEF StageInv, UndoneInv
<1>4. \A r \in DOMAIN rels' : r \in DOMAIN rels /\ r[1] = 1
  BY <1>1, <1>2 DEF GraphTold, NumbersInv, Heights
<1>5. GraphTold'
  <2>1. NumbersInv'
    BY <1>1, <1>2, <1>4 DEF GraphTold, NumbersInv, Levels, LevelOf
  <2>2. BuiltInv'
    <3> SUFFICES ASSUME "build" \in done PROVE Holds(nodes, rels', part, observations) /\ FirstOf(observations)
      BY <1>2, <1>3 DEF BuiltInv
    <3>1. Holds(nodes, rels, part, observations) /\ FirstOf(observations)
      BY <1>1 DEF GraphTold, BuiltInv
    <3>2. CompleteBy(rels', observations, 1)
      BY <1>2, <3>1 DEF Holds, CompleteBy
    <3>3. \A r \in DOMAIN rels' : \A at : FitsBy(rels, at, r) => FitsBy(rels', at, r)
      BY <1>2 DEF FitsBy
    <3>4. \A r \in DOMAIN rels' : r[1] \in HeightsOf(nodes) =>
            FitsBy(rels', StoodIn(nodes, part, observations, r[1]), r)
      BY <1>4, <3>1, <3>3 DEF Holds
    <3>5. \A r \in DOMAIN rels' : rels'[r].good # Nil => rels'[r].good <= rels'[r].num
      BY <1>2, <1>4, <3>1 DEF Holds
    <3> QED
      BY <3>1, <3>2, <3>4, <3>5 DEF Holds
  <2> QED
    BY <1>1, <1>2, <1>3, <2>1, <2>2 DEF GraphTold, StatsInv, AbsorbedInv
<1>6. CASE observations = Nil
  <2>1. job' = Idle
    BY <1>6 DEF AbstractClear
  <2>2. FilesInv'
    BY <1>1, <1>2, <2>1 DEF FilesInv, Idle
  <2>3. StageInv'
    BY <2>1, StageQuiet DEF Idle
  <2> QED
    BY <1>5, <2>2, <2>3, TurnsParts DEF TurnsInv, GraphTold, StageInv
<1>7. CASE observations # Nil
  <2>1. job' = [stage |-> "abstract", step |-> "group", level |-> 2, top |-> First,
                of |-> observations, stop |-> {}, made |-> [k \in Kinds |-> {}], past |-> <<>>]
    BY <1>7 DEF AbstractClear
  <2>2. /\ job'.stage = "abstract" /\ job'.step = "group" /\ job'.level = 2 /\ job'.top = First
        /\ job'.of = observations /\ job'.past = <<>> /\ "stage" \in DOMAIN job'
    BY <2>1
  <2>3. Lifting' /\ ~ Carrying' /\ ~ Absorbing'
    BY <2>2 DEF Lifting, Carrying, Absorbing
  <2>4. FilesInv'
    BY <1>1, <1>2, <1>7, <2>2, <2>3 DEF FilesInv, Stages
  <2>5. MadeInv' /\ BuildInv' /\ CarryInv' /\ AbsorbInv' /\ UndoneInv'
    BY <1>2, <1>3, <2>2, <2>3 DEF MadeInv, BuildInv, CarryInv, AbsorbInv, UndoneInv
  <2>6. ASSUME "build" \in done
        PROVE  /\ WalkOk(nodes, part) /\ Holds(nodes, rels, part, observations) /\ FirstOf(observations)
               /\ \A l \in Nat : Stood(l)' = observations
               /\ \A t \in DOMAIN observations : observations[t] \in First[Kind(t)]
               /\ \A k \in Kinds : \A e \in First[k] : \E t \in DOMAIN observations : e = observations[t]
    <3>1. WalkOk(nodes, part) /\ Holds(nodes, rels, part, observations) /\ FirstOf(observations)
      BY <1>1, <2>6, GraphWalks DEF GraphTold, BuiltInv
    <3>2. \A l \in Nat : StoodIn(nodes, part, observations, l) = observations
      BY <1>3, <3>1, NoParents DEF FirstOf, Holds
    <3>3. \A l \in Nat : Stood(l)' = observations
      BY <1>2, <3>2 DEF Stood
    <3>4. \A t \in DOMAIN observations : observations[t] \in First[Kind(t)]
      <4> SUFFICES ASSUME NEW t \in DOMAIN observations PROVE observations[t] \in First[Kind(t)]
        OBVIOUS
      <4>1. Kind(t) \in Kinds /\ observations[t][1] = Kind(t) /\ observations[t][2] = 1
            /\ observations[t] \in DOMAIN nodes
        BY <3>1, EventShape DEF FirstOf, Holds
      <4>2. nodes[observations[t]].level = 1
        BY <4>1 DEF GraphInv, NodesOk
      <4> QED
        BY <4>1, <4>2 DEF First, At, LevelOf
    <3>5. \A k \in Kinds : \A e \in First[k] : \E t \in DOMAIN observations : e = observations[t]
      <4> SUFFICES ASSUME NEW k \in Kinds, NEW e \in First[k] PROVE \E t \in DOMAIN observations : e = observations[t]
        OBVIOUS
      <4>1. e \in DOMAIN nodes /\ nodes[e].level = 1
        BY DEF First, At, LevelOf
      <4>2. e[2] = 1
        BY <4>1 DEF GraphInv, NodesOk
      <4> QED
        BY <3>1, <4>1, <4>2 DEF Holds
    <3> QED
      BY <3>1, <3>3, <3>4, <3>5
  <2>7. ClimbInv'
    <3>1. job'.past \in Seq(Entries(job'.past)) /\ DOMAIN job'.past = {}
      BY <2>2
    <3>2. \A i : i \notin DOMAIN job'.past
      BY <3>1
    <3>3. "build" \in done' => \A t \in DOMAIN observations' : job'.of[t] \in job'.top[Kind(t)]
      BY <1>2, <2>2, <2>6
    <3> QED
      BY <3>1, <3>2, <3>3 DEF ClimbInv
  <2>8. LiftInv'
    <3> SUFFICES ASSUME "build" \in done
                 PROVE  /\ Len(job'.past) = job'.level - 2
                        /\ \A l \in Heights : l >= job'.level => job'.of = Stood(l)'
                        /\ \A k \in Kinds : \A e \in job'.top[k] : e \notin DOMAIN part'
                        /\ \A e \in DOMAIN nodes' : e[2] < job'.level
                        /\ \A r \in DOMAIN rels' : r[1] = 1
                        /\ job'.step = "group"
                        /\ \A k \in Kinds : \A e \in job'.top[k] : \E t \in DOMAIN observations' : e = job'.of[t]
      BY <1>2 DEF LiftInv
    <3>1. Len(job'.past) = 0
      BY <2>2
    <3> QED
      BY <1>2, <1>3, <1>4, <2>2, <2>6, <3>1 DEF Heights
  <2> QED
    BY <1>5, <2>4, <2>5, <2>7, <2>8, TurnsParts DEF TurnsInv, GraphTold, StageInv
<1> QED
  BY <1>6, <1>7


-----------------------------------------------------------------------------
(* abstract: the climb *)

\* The transitions are lifted from the first level's, once every level is there.
CarryFrom(n) ==
  /\ job.step = "state rels" /\ job.level = 2 /\ n = Len(job.past)
  /\ \A e \in DOMAIN nodes : e[2] <= n + 1
  /\ n > 0 => n + 1 \in Levels
  /\ \A r \in DOMAIN rels : r[1] = 1
LEMMA CarryStarts ==
  ASSUME GraphInv', NumbersInv', BuiltInv', NEW n \in Nat, CarryFrom(n)'
  PROVE  CarryInv'
<1>0. CASE "build" \notin done'
  BY <1>0 DEF CarryInv
<1>1. CASE "build" \in done'
  <2>1. WalkOk(nodes', part') /\ Holds(nodes', rels', part', observations') /\ FirstOf(observations')
    BY <1>1, GraphWalksNext DEF BuiltInv
  <2>2. StoodIn(nodes', part', observations', 1) = observations'
    BY <2>1, FirstStands DEF Holds
  <2>3. ASSUME NEW l \in Heights, l > 1, l <= n + 1 PROVE l \in Levels'
    <3>1. n > 0 /\ l \in Nat
      BY <2>3 DEF Heights
    <3>2. n + 1 \in Levels'
      BY <3>1 DEF CarryFrom
    <3>3. PICK e \in DOMAIN nodes' : nodes'[e].level = n + 1
      BY <3>2 DEF Levels, LevelOf
    <3>4. e[2] = n + 1
      BY <3>3 DEF GraphInv, NodesOk
    <3>5. l \in 1 .. e[2]
      BY <2>3, <3>1, <3>4
    <3> QED
      BY <3>5 DEF NumbersInv
  <2>4. ASSUME NEW r \in DOMAIN rels' PROVE FitsBy(rels', Stood(r[1])', r) /\ r[1] = 1
    <3>1. r[1] = 1 /\ r[2] \in DOMAIN nodes' /\ r[2][2] = 1
      BY DEF GraphInv, RelsOk, CarryFrom
    <3>2. nodes'[r[2]].level = 1
      BY <3>1 DEF GraphInv, NodesOk
    <3>3. r[1] \in HeightsOf(nodes')
      BY <3>1, <3>2 DEF HeightsOf
    <3> QED
      BY <2>1, <3>1, <3>3 DEF Holds, Stood
  <2>5. CompleteBy(rels', Stood(1)', 1)
    BY <2>1, <2>2 DEF Holds, Stood
  <2>6. \A l \in Heights : l < 2 => l = 1
    BY DEF Heights
  <2>7. job'.level = 2 /\ n = Len(job'.past)
    BY DEF CarryFrom
  <2>8. job'.step # "action rels"
    BY DEF CarryFrom
  <2>9. job'.level <= Len(job'.past) + 2 /\ \A e \in DOMAIN nodes' : e[2] <= Len(job'.past) + 1
    <3>1. 2 <= n + 2
      OBVIOUS
    <3> QED
      BY <2>7, <3>1 DEF CarryFrom
  <2>10. \A r \in DOMAIN rels' : r[1] < job'.level
    BY <2>4, <2>7
  <2>11. \A l \in Heights : l < job'.level => CompleteBy(rels', Stood(l)', l)
    BY <2>5, <2>6, <2>7
  <2>12. \A l \in Heights : l > 1 /\ l <= Len(job'.past) + 1 => l \in Levels'
    BY <2>3, <2>7
  <2> QED
    BY Zenon, <2>4, <2>8, <2>9, <2>10, <2>11, <2>12 DEF CarryInv
<1> QED
  BY <1>0, <1>1

LEMMA NotEmpty == \A g : Cardinality(g) > 1 => g # {}
  BY FS_EmptySet

LEMMA GroupsMade ==
  ASSUME NEW k, NEW P \in Makes(k)
  PROVE  Apart(P) /\ \A g \in P : g # {}
<1>1. P = {} \/ P \in Communities(job.top[k])
  BY DEF Makes
<1>2. CASE P = {}
  BY <1>2 DEF Apart
<1>3. CASE P \in Communities(job.top[k])
  <2>1. \A g \in P : Cardinality(g) > 1
    BY <1>3 DEF Communities
  <2>2. \A g \in P : g # {}
    BY Zenon, <2>1, NotEmpty
  <2>3. Apart(P)
    BY <1>3 DEF Apart, Communities
  <2> QED
    BY <2>2, <2>3
<1> QED
  BY <1>1, <1>2, <1>3

LEMMA GroupStep ==
  ASSUME TurnsInv, GraphInv, GraphInv', Group
  PROVE  TurnsInv'
<1>1. FilesInv /\ GraphTold /\ StageInv
  BY TurnsParts
<1>2. /\ job.stage = "abstract" /\ job.step = "group" /\ Lifting /\ ~ Carrying
      /\ UNCHANGED <<annotations, observations, outcomes, types, nodes, rels, part, left, done>>
  BY DEF Group, Lifting, Carrying
<1>3. PICK s \in Makes("state"), a \in Makes("action") :
        job' = IF s = {} /\ a = {}
               THEN [job EXCEPT !.step = "state rels", !.level = 2]
               ELSE [job EXCEPT !.step = "state parents", !.made = [k \in Kinds |-> IF k = "state" THEN s ELSE a],
                                !.stop = @ \cup {k \in Kinds : [j \in Kinds |-> IF j = "state" THEN s ELSE a][k] = {}}]
  BY DEF Group
<1>4. /\ DOMAIN job = {"stage", "step", "level", "top", "of", "stop", "made", "past"}
      /\ job.level \in Nat /\ job.level >= 2
  BY <1>2 DEF GraphInv, AbstractOk, Climbing
<1>5. GraphTold'
  BY <1>1, <1>2, ToldStands
<1>6. /\ job'.stage = "abstract" /\ job'.top = job.top /\ job'.of = job.of /\ job'.past = job.past
      /\ "stage" \in DOMAIN job' /\ job'.step \in {"state rels", "state parents"}
  BY <1>2, <1>3, <1>4
<1>7. /\ observations # Nil /\ DOMAIN job.of = DOMAIN observations
      /\ "absorb" \notin done /\ "abstract" \notin done
  BY <1>1, <1>2 DEF FilesInv, StageInv, UndoneInv
<1>8. FilesInv'
  BY <1>1, <1>2, <1>6, <1>7 DEF FilesInv, Lifting, Carrying, Stages
<1>9. ClimbInv'
  <2>1. \A i : PastOk(i)' = PastOk(i)
    BY <1>2, <1>6 DEF PastOk, Stood
  <2> QED
    BY <1>1, <1>2, <1>6, <2>1 DEF StageInv, ClimbInv
<1>10. BuildInv' /\ UndoneInv' /\ AbsorbInv'
  BY <1>2, <1>6, <1>7 DEF BuildInv, UndoneInv, AbsorbInv, Absorbing
<1>11. CASE s = {} /\ a = {}
  <2>1. job'.step = "state rels" /\ job'.level = 2
    BY <1>3, <1>4, <1>11
  <2>2. MadeInv' /\ LiftInv'
    BY <2>1 DEF MadeInv, LiftInv, Lifting
  <2>3. CarryInv'
    <3>1. CASE "build" \notin done
      BY <1>2, <3>1 DEF CarryInv
    <3>2. CASE "build" \in done
      <4> DEFINE n == job.level - 2
                 lv == job.level
      <4>1. /\ Len(job.past) = n /\ \A r \in DOMAIN rels : r[1] = 1
            /\ \A e \in DOMAIN nodes : e[2] < lv
        BY <1>1, <1>2, <3>2 DEF StageInv, LiftInv
      <4>2. lv > 2 => lv - 1 \in Levels
        BY <1>1, <1>2 DEF StageInv, MadeInv
      <4>3. \A e \in DOMAIN nodes : e[2] \in Nat
        BY <1>1 DEF GraphTold, NumbersInv, Heights
      <4>4. lv \in Nat /\ lv >= 2
        BY <1>4
      <4>5. Len(job'.past) = n /\ n = lv - 2
        BY <1>6, <4>1
      <4>6. Levels' = Levels
        BY <1>2 DEF Levels, LevelOf
      <4> HIDE DEF n, lv
      <4>7. n \in Nat /\ (n > 0 => n + 1 \in Levels)
        BY <4>2, <4>4, <4>5
      <4>8. \A e \in DOMAIN nodes : e[2] <= n + 1
        BY <4>1, <4>3, <4>4, <4>5
      <4>8a. PICK m \in Nat : m = n
        BY <4>7
      <4>9. CarryFrom(m)'
        BY Zenon, <1>2, <2>1, <4>1, <4>5, <4>6, <4>7, <4>8, <4>8a DEF CarryFrom
      <4> QED
        BY <1>2, <1>5, <4>9, CarryStarts DEF GraphTold
    <3> QED
      BY <3>1, <3>2
  <2> QED
    BY <1>5, <1>8, <1>9, <1>10, <2>2, <2>3, TurnsParts DEF TurnsInv, GraphTold, StageInv
<1>12. CASE ~ (s = {} /\ a = {})
  <2>1. /\ job'.step = "state parents" /\ job'.level = job.level
        /\ job'.made["state"] = s /\ job'.made["action"] = a
    BY <1>3, <1>4, <1>12 DEF Kinds
  <2>2. \A k \in Kinds : Apart(job'.made[k]) /\ \A g \in job'.made[k] : g # {}
    BY <2>1, GroupsMade DEF Kinds
  <2>3. MadeInv'
    <3>1. Levels' = Levels
      BY <1>2 DEF Levels, LevelOf
    <3> QED
      BY <1>1, <1>2, <1>12, <2>1, <2>2, <3>1 DEF StageInv, MadeInv
  <2>4. LiftInv'
    <3>1. \A l : Stood(l)' = Stood(l)
      BY <1>2 DEF Stood
    <3>2. Lifting'
      BY <1>6, <2>1 DEF Lifting
    <3>3. job'.step # "action parents" /\ job.step # "action parents"
      BY <1>2, <2>1
    <3>4. job'.level = job.level /\ \A k \in Kinds : Apart(job'.made[k])
      BY <2>1, <2>2
    <3>5. LiftInv
      BY <1>1 DEF StageInv
    <3> QED
      BY Zenon, <1>2, <1>6, <3>1, <3>2, <3>3, <3>4, <3>5 DEF LiftInv
  <2>5. CarryInv'
    BY <2>1 DEF CarryInv, Carrying
  <2> QED
    BY <1>5, <1>8, <1>9, <1>10, <2>3, <2>4, <2>5, TurnsParts DEF TurnsInv, GraphTold, StageInv
<1> QED
  BY <1>11, <1>12


-----------------------------------------------------------------------------
(* abstract: parents *)

\* Parents P2 over the elements G, that had none: the elements new, of a level.
Grown(N, P, N2, P2, new, G, level) ==
  /\ DOMAIN N2 = DOMAIN N \cup new /\ \A e \in DOMAIN N : e \notin new /\ N2[e] = N[e]
  /\ DOMAIN P2 = DOMAIN P \cup G /\ \A c \in DOMAIN P : P2[c] = P[c]
  /\ \A e \in new : e[2] = level
  /\ \A c \in G : c \in DOMAIN N /\ c \notin DOMAIN P /\ P2[c] \in new
LEMMA WalkGrown ==
  ASSUME NEW N, NEW P, NEW N2, NEW P2, WalkOk(N, P), WalkOk(N2, P2), NEW new, NEW G, NEW level \in Nat,
         Grown(N, P, N2, P2, new, G, level), NEW l \in Nat, NEW x \in DOMAIN N, NEW a, a = Walk(N, P, l)[x]
  PROVE  Walk(N2, P2, l)[x] = IF l >= level /\ a \in G THEN P2[a] ELSE a
<1> DEFINE w == Walk(N, P, l)
           up(y) == IF l >= level /\ y \in G THEN P2[y] ELSE y
           h == [y \in DOMAIN N2 |-> IF y \in DOMAIN N THEN up(w[y]) ELSE y]
<1>1. \A y \in DOMAIN N : w[y] = IF Goes(N, P, l, y) THEN w[P[y]] ELSE y
  BY WalkStep
<1> HIDE DEF w
<1>2. ASSUME NEW y \in DOMAIN N2
      PROVE  h[y] = IF Goes(N2, P2, l, y) THEN h[P2[y]] ELSE y
  <2>1. DOMAIN P \subseteq DOMAIN N /\ \A c \in DOMAIN P : P[c] \in DOMAIN N
    BY DEF WalkOk
  <2>2. CASE y \notin DOMAIN N
    <3>1. y \notin DOMAIN P2
      BY <2>1, <2>2 DEF Grown
    <3> QED
      BY <2>2, <3>1 DEF Goes
  <2>3. CASE y \in DOMAIN P
    <3>1. P2[y] = P[y] /\ P[y] \in DOMAIN N /\ P[y] \in DOMAIN N2 /\ N2[P[y]] = N[P[y]] /\ y \in DOMAIN N /\ y \notin G
      BY <2>1, <2>3 DEF Grown
    <3>2. Goes(N2, P2, l, y) <=> Goes(N, P, l, y)
      BY <2>3, <3>1 DEF Goes, Grown
    <3>3. CASE Goes(N, P, l, y)
      <4>1. w[y] = w[P[y]]
        BY <1>1, <3>1, <3>3
      <4> QED
        BY <3>1, <3>2, <3>3, <4>1
    <3>4. CASE ~ Goes(N, P, l, y)
      <4>1. w[y] = y
        BY <1>1, <3>1, <3>4
      <4> QED
        BY <3>1, <3>2, <3>4, <4>1
    <3> QED
      BY <3>3, <3>4
  <2>4. CASE y \in DOMAIN N /\ y \notin DOMAIN P
    <3>1. w[y] = y
      BY <1>1, <2>4 DEF Goes
    <3>2. CASE y \in G
      <4>1. P2[y] \in new /\ P2[y][2] = level /\ P2[y] \in DOMAIN N2 /\ P2[y] \notin DOMAIN N /\ y \in DOMAIN P2
        BY <3>2 DEF Grown
      <4>2. N2[P2[y]].level = level
        BY <4>1 DEF WalkOk
      <4>3. Goes(N2, P2, l, y) <=> l >= level
        BY <4>1, <4>2 DEF Goes
      <4> QED
        BY <2>4, <3>1, <3>2, <4>1, <4>3
    <3>3. CASE y \notin G
      <4>1. ~ Goes(N2, P2, l, y)
        BY <2>4, <3>3 DEF Goes, Grown
      <4> QED
        BY <2>4, <3>1, <3>3, <4>1
    <3> QED
      BY <3>2, <3>3
  <2> QED
    BY <2>2, <2>3, <2>4
<1>3. x \in DOMAIN N2
  BY DEF Grown
<1>4. h[x] = up(w[x])
  BY <1>3
<1> HIDE DEF h
<1>5. Walk(N2, P2, l)[x] = h[x]
  BY <1>2, <1>3, WalkIs
<1> QED
  BY <1>4, <1>5 DEF w

\* What a group's turns are counted to.
SameTurns(rows, at, a, of, e) == \A t \in rows : at[t] = a <=> of[t] = e
LEMMA CountSame ==
  ASSUME NEW rows, NEW at, NEW a, NEW of, NEW e, SameTurns(rows, at, a, of, e)
  PROVE  Count(rows, at, a) = Count(rows, of, e) /\ Ends(rows, at, a) = Ends(rows, of, e)
<1>1. {t \in rows : at[t] = a} = {t \in rows : of[t] = e}
  BY DEF SameTurns
<1>2. {t \in rows : at[t] = a /\ \A p \in Pairs(rows) : p[1] # t}
      = {t \in rows : of[t] = e /\ \A p \in Pairs(rows) : p[1] # t}
  BY DEF SameTurns
<1>3. Count(rows, at, a) = Count(rows, of, e)
  BY Zenon, <1>1 DEF Count
<1> QED
  BY Zenon, <1>2, <1>3 DEF Ends

CountsAre(rows, at, g, counts, ends) ==
  \A c \in g : counts[c] = Count(rows, at, c) /\ ends[c] = Ends(rows, at, c)
Joins(rows, at, g, of, e) == \A t \in rows : of[t] = e <=> at[t] \in g
LEMMA CountJoined ==
  ASSUME NEW rows \in SUBSET Events, NEW at, NEW g, IsFiniteSet(g), NEW of, NEW e, Joins(rows, at, g, of, e),
         NEW counts, NEW ends, CountsAre(rows, at, g, counts, ends)
  PROVE  Count(rows, of, e) = Sum(counts, g) /\ Ends(rows, of, e) = Sum(ends, g)
<1> DEFINE S == {t \in rows : of[t] = e}
           L == {t \in rows : of[t] = e /\ \A p \in Pairs(rows) : p[1] # t}
<1>1. IsFiniteSet(S) /\ IsFiniteSet(L)
  <2>1. S \in SUBSET rows /\ L \in SUBSET rows
    OBVIOUS
  <2> HIDE DEF S, L
  <2> QED
    BY <2>1, RowsFinite, FS_Subset
<1>2. Count(rows, of, e) = Cardinality(S) /\ Ends(rows, of, e) = Cardinality(L)
  BY DEF Count, Ends
<1>3. \A t \in S : at[t] \in g
  BY DEF Joins
<1>4. \A t \in L : at[t] \in g
  BY DEF Joins
<1>5. \A c \in g : counts[c] = Cardinality(Part(S, at, c)) /\ ends[c] = Cardinality(Part(L, at, c))
  <2> SUFFICES ASSUME NEW c \in g
               PROVE  counts[c] = Cardinality(Part(S, at, c)) /\ ends[c] = Cardinality(Part(L, at, c))
    OBVIOUS
  <2>1. Part(S, at, c) = {t \in rows : at[t] = c}
    BY DEF Part, Joins
  <2>2. Part(L, at, c) = {t \in rows : at[t] = c /\ \A p \in Pairs(rows) : p[1] # t}
    BY DEF Part, Joins
  <2>3. counts[c] = Count(rows, at, c) /\ ends[c] = Ends(rows, at, c)
    BY DEF CountsAre
  <2>4. counts[c] = Cardinality(Part(S, at, c))
    BY Zenon, <2>1, <2>3 DEF Count
  <2> QED
    BY Zenon, <2>2, <2>3, <2>4 DEF Ends
<1> HIDE DEF S, L
<1>6. Cardinality(S) = Sum(counts, g)
  BY <1>1, <1>3, <1>5, CountParts
<1>7. Cardinality(L) = Sum(ends, g)
  BY <1>1, <1>4, <1>5, CountParts
<1> QED
  BY <1>2, <1>6, <1>7


ParentsOrder(kind, step) ==
  (kind = "state" /\ step = "state parents") \/ (kind = "action" /\ step = "action parents")

\* What the parents of a kind write: the elements `new` over the elements
\* grouped, and the stage's own `top` and `of`.
GrewNodes(kind, new, grouped) ==
  /\ DOMAIN nodes' = DOMAIN nodes \cup new
  /\ \A e \in DOMAIN nodes \ new : nodes'[e] = nodes[e]
  /\ \A e \in new :
       /\ e = <<kind, job.level, e[3]>> /\ e[1] = kind /\ e[2] = job.level /\ e[3] \in job.made[kind]
       /\ nodes'[e].level = job.level /\ nodes'[e].stats = Nil
       /\ nodes'[e].count = Sum(Counts, e[3]) /\ nodes'[e].ends = Sum(EndsOf, e[3])
  /\ \A g \in job.made[kind] : <<kind, job.level, g>> \in new /\ <<kind, job.level, g>>[3] = g /\ g \subseteq grouped
  /\ DOMAIN part' = DOMAIN part \cup grouped /\ \A c \in DOMAIN part \ grouped : part'[c] = part[c]
  /\ grouped \subseteq job.top[kind]
  /\ \A c \in grouped : part'[c] \in new /\ c \in part'[c][3]
GrewTurns(kind, new, grouped, top, of) ==
  /\ DOMAIN top = Kinds /\ top[kind] = (job.top[kind] \ grouped) \cup new
  /\ \A k \in Kinds : k # kind => top[k] = job.top[k]
  /\ of = [t \in DOMAIN job.of |-> IF job.of[t] \in grouped THEN part'[job.of[t]] ELSE job.of[t]]
\* Where the stage goes on.
Went(kind, top, of) ==
  /\ job'.stage = "abstract" /\ job'.top = top /\ job'.of = of /\ job'.made = job.made /\ "stage" \in DOMAIN job'
  /\ kind = "state" => job'.step = "action parents" /\ job'.past = job.past
  /\ kind = "action" => job'.step \in {"group", "state rels"} /\ job'.past = Append(job.past, [top |-> top, of |-> of])
WentTo(kind) ==
  job'.level = IF kind = "state" THEN job.level ELSE IF job'.step = "group" THEN job.level + 1 ELSE 2

LEMMA ParentsGrow ==
  ASSUME GraphInv, NEW kind \in Kinds, NEW step, ParentsOrder(kind, step), Parents(kind, step)
  PROVE  \E new, grouped, top, of :
           GrewNodes(kind, new, grouped) /\ GrewTurns(kind, new, grouped, top, of) /\ Went(kind, top, of) /\ WentTo(kind)
<1> DEFINE groups == job.made[kind]
           grouped == UNION groups
           parent(c) == <<kind, job.level, CHOOSE g \in groups : c \in g>>
           new == {<<kind, job.level, g>> : g \in groups}
           top == [job.top EXCEPT ![kind] = (@ \ grouped) \cup new]
           of == [t \in DOMAIN job.of |->
                    IF job.of[t] \in grouped THEN parent(job.of[t]) ELSE job.of[t]]
           last == job.level = MaxLevels + 1
           node(e) == Node(job.level, Sum(Counts, e[3]), Sum(EndsOf, e[3]))
<1>1. /\ job.stage = "abstract" /\ job.step = step
      /\ nodes' = [e \in DOMAIN nodes \cup new |-> IF e \in new THEN node(e) ELSE nodes[e]]
      /\ part' = [c \in DOMAIN part \cup grouped |-> IF c \in grouped THEN parent(c) ELSE part[c]]
      /\ job' = IF kind = "state"
                THEN [job EXCEPT !.step = "action parents", !.top = top, !.of = of]
                ELSE [job EXCEPT !.step = IF last THEN "state rels" ELSE "group",
                                 !.level = IF last THEN 2 ELSE @ + 1,
                                 !.top = top, !.of = of,
                                 !.past = Append(@, [top |-> top, of |-> of])]
  BY DEF Parents
<1>2. /\ DOMAIN job = {"stage", "step", "level", "top", "of", "stop", "made", "past"}
      /\ DOMAIN job.top = Kinds /\ Grouped(kind)
  BY <1>1 DEF GraphInv, AbstractOk, Climbing, Kinds, ParentsOrder
<1>3. \A c \in grouped : parent(c) \in new /\ c \in parent(c)[3]
  <2> SUFFICES ASSUME NEW h \in groups, NEW c \in h PROVE parent(c) \in new /\ c \in parent(c)[3]
    OBVIOUS
  <2>1. PICK g : g = CHOOSE x \in groups : c \in x
    OBVIOUS
  <2>2. g \in groups /\ c \in g
    BY <2>1
  <2>3. parent(c) = <<kind, job.level, g>>
    BY <2>1
  <2> QED
    BY <2>2, <2>3
<1>4. \A e \in new : e = <<kind, job.level, e[3]>> /\ e[1] = kind /\ e[2] = job.level /\ e[3] \in groups
  OBVIOUS
<1>5. \A g \in groups : <<kind, job.level, g>> \in new /\ <<kind, job.level, g>>[3] = g /\ g \subseteq grouped
  OBVIOUS
<1>6. grouped \subseteq job.top[kind]
  BY <1>2 DEF Grouped
<1>7. \A e : node(e).level = job.level /\ node(e).stats = Nil /\ node(e).count = Sum(Counts, e[3]) /\ node(e).ends = Sum(EndsOf, e[3])
  BY DEF Node
<1>8. GrewNodes(kind, new, grouped)
  <2> HIDE DEF new, parent, node
  <2> DEFINE gr == grouped
  <2>1. \A c \in gr : part'[c] \in new /\ c \in part'[c][3]
    BY <1>1, <1>3
  <2>2. DOMAIN part' = DOMAIN part \cup gr /\ \A c \in DOMAIN part \ gr : part'[c] = part[c]
    BY <1>1
  <2>3. DOMAIN nodes' = DOMAIN nodes \cup new /\ \A e \in DOMAIN nodes \ new : nodes'[e] = nodes[e]
    BY <1>1
  <2>4. \A e \in new : nodes'[e] = node(e)
    BY <1>1
  <2>5. \A e \in new :
       /\ nodes'[e].level = job.level /\ nodes'[e].stats = Nil
       /\ nodes'[e].count = Sum(Counts, e[3]) /\ nodes'[e].ends = Sum(EndsOf, e[3])
    BY <1>7, <2>4
  <2> HIDE DEF gr
  <2> QED
    BY Zenon, <1>4, <1>5, <1>6, <2>1, <2>2, <2>3, <2>5 DEF GrewNodes, gr
<1>9. GrewTurns(kind, new, grouped, top, of)
  <2>1. of = [t \in DOMAIN job.of |-> IF job.of[t] \in grouped THEN part'[job.of[t]] ELSE job.of[t]]
    <3> HIDE DEF parent, grouped
    <3>1. \A c \in grouped : part'[c] = parent(c)
      BY <1>1
    <3> QED
      BY <3>1
  <2> HIDE DEF new, grouped, of
  <2> QED
    BY <1>2, <2>1 DEF GrewTurns
<1> HIDE DEF new, grouped, top, of
<1>10. Went(kind, top, of) /\ WentTo(kind)
  <2>1. CASE kind = "state"
    BY <1>1, <1>2, <2>1 DEF Went, WentTo
  <2>2. CASE kind = "action"
    <3>1. job' = [job EXCEPT !.step = IF last THEN "state rels" ELSE "group",
                                 !.level = IF last THEN 2 ELSE @ + 1,
                                 !.top = top, !.of = of,
                                 !.past = Append(@, [top |-> top, of |-> of])]
      BY <1>1, <2>2
    <3>2. /\ job'.stage = "abstract" /\ job'.top = top /\ job'.of = of /\ job'.made = job.made /\ "stage" \in DOMAIN job'
          /\ job'.past = Append(job.past, [top |-> top, of |-> of])
      BY <1>1, <1>2, <3>1
    <3>3. job'.step = IF last THEN "state rels" ELSE "group"
      BY <1>2, <3>1
    <3>4. job'.level = IF last THEN 2 ELSE job.level + 1
      BY <1>2, <3>1
    <3>5. job'.step = "group" <=> ~ last
      BY <3>3
    <3> HIDE DEF last
    <3>6. Went(kind, top, of)
      BY <2>2, <3>2, <3>3 DEF Went
    <3>7. WentTo(kind)
      BY <2>2, <3>4, <3>5 DEF WentTo
    <3> QED
      BY <3>6, <3>7
  <2> QED
    BY <2>1, <2>2 DEF Kinds
<1> QED
  BY <1>8, <1>9, <1>10


\* What a stage that lifts a kind's elements has at hand.
Parenting(kind) == job.stage = "abstract" /\ Lifting /\ job.step # "group" /\ (kind = "state" <=> job.step = "state parents")
LEMMA TopsThere ==
  ASSUME GraphInv, NEW kind \in Kinds, Parenting(kind)
  PROVE  /\ job.level \in Nat /\ job.level >= 2 /\ DOMAIN job.top = Kinds
         /\ \A k \in Kinds : \A e \in job.top[k] : e \in DOMAIN nodes /\ e[1] = k /\ e[2] \in Nat /\ e[2] <= job.level
         /\ \A e \in job.top[kind] : e[2] < job.level
         /\ \A g \in job.made[kind] : g \subseteq job.top[kind]
<1>1. kind = "state" => job.step = "state parents"
  BY DEF Parenting
<1>2. kind = "action" => job.step = "action parents"
  BY DEF Parenting, Lifting
<1>3. Climbing
  BY <1>1, <1>2 DEF Parenting, Climbing, Kinds
<1>4. job.level \in Nat /\ job.level >= 2 /\ DOMAIN job.top = Kinds
  BY <1>3 DEF GraphInv, AbstractOk
<1>5. CASE kind = "state"
  <2>1. Below("state") /\ Below("action") /\ Grouped("state")
    BY <1>1, <1>3, <1>5 DEF GraphInv, AbstractOk
  <2>2. \A k \in Kinds : \A e \in job.top[k] : e \in DOMAIN nodes /\ e[1] = k /\ e[2] \in Nat /\ e[2] < job.level
    BY <2>1 DEF Below, Kinds
  <2> QED
    BY <1>4, <1>5, <2>1, <2>2 DEF Grouped
<1>6. CASE kind = "action"
  <2>1. UpTo("state") /\ Below("action") /\ Grouped("action")
    BY <1>2, <1>3, <1>6 DEF GraphInv, AbstractOk
  <2>2. \A e \in job.top["state"] : e \in DOMAIN nodes /\ e[1] = "state" /\ e[2] \in Nat /\ e[2] <= job.level
    BY <2>1 DEF UpTo
  <2>3. \A e \in job.top["action"] : e \in DOMAIN nodes /\ e[1] = "action" /\ e[2] \in Nat /\ e[2] < job.level
    BY <2>1 DEF Below
  <2>4. \A k \in Kinds : \A e \in job.top[k] : e \in DOMAIN nodes /\ e[1] = k /\ e[2] \in Nat /\ e[2] <= job.level
    BY <1>4, <2>2, <2>3 DEF Kinds
  <2> QED
    BY <1>4, <1>6, <2>1, <2>3, <2>4 DEF Grouped
<1> QED
  BY <1>5, <1>6 DEF Kinds

\* A level with an element has those below it.
LEMMA LevelsBelow ==
  ASSUME GraphInv, NumbersInv, NEW n \in Levels, NEW l \in 1 .. n
  PROVE  l \in Levels
<1>1. PICK e \in DOMAIN nodes : nodes[e].level = n
  BY DEF Levels, LevelOf
<1>2. e[2] = n
  BY <1>1 DEF GraphInv, NodesOk
<1> QED
  BY <1>2 DEF NumbersInv

LEMMA GrewNumbers ==
  ASSUME GraphInv, GraphInv', NumbersInv, MadeInv, StatsInv, UNCHANGED rels, NEW kind \in Kinds, Parenting(kind),
         NEW new, NEW grouped, GrewNodes(kind, new, grouped)
  PROVE  /\ NumbersInv' /\ StatsInv'
         /\ \A e \in DOMAIN nodes : e \in DOMAIN nodes' /\ nodes'[e].level = nodes[e].level
         /\ \A l \in Levels : l \in Levels'
         /\ job.made[kind] # {} => job.level \in Levels'
<1> DEFINE lv == job.level
<1>1. /\ lv \in Nat /\ lv >= 2 /\ \A g \in job.made[kind] : g \subseteq DOMAIN nodes
      /\ \A e \in job.top[kind] : e \in DOMAIN nodes
  BY TopsThere
<1>2. /\ DOMAIN nodes' = DOMAIN nodes \cup new
      /\ \A e \in DOMAIN nodes \ new : nodes'[e] = nodes[e]
  BY DEF GrewNodes
<1>3. \A e \in new :
       /\ e = <<kind, lv, e[3]>> /\ e[2] = lv /\ e[3] \in job.made[kind]
       /\ nodes'[e].level = lv /\ nodes'[e].stats = Nil
       /\ nodes'[e].count = Sum(Counts, e[3]) /\ nodes'[e].ends = Sum(EndsOf, e[3])
  BY DEF GrewNodes
<1>4. \A g \in job.made[kind] : <<kind, lv, g>> \in new
  BY DEF GrewNodes
<1> HIDE DEF lv
<1>5. IsFiniteSet(DOMAIN nodes')
  <2>1. IsFiniteSet(DOMAIN nodes)
    BY DEF NumbersInv
  <2>2. IsFiniteSet(SUBSET DOMAIN nodes)
    BY <2>1, FS_SUBSET
  <2> DEFINE h == [g \in SUBSET DOMAIN nodes |-> <<kind, lv, g>>]
  <2>3. \A e \in new : \E g \in SUBSET DOMAIN nodes : h[g] = e
    BY <1>1, <1>3
  <2> HIDE DEF h
  <2>4. IsFiniteSet(new)
    BY <2>2, <2>3, CountImage
  <2> QED
    BY <1>2, <2>1, <2>4, FS_Union
<1>6. \A e \in new : nodes'[e].count \in Nat /\ nodes'[e].ends \in Nat
  <2> SUFFICES ASSUME NEW e \in new PROVE nodes'[e].count \in Nat /\ nodes'[e].ends \in Nat
    OBVIOUS
  <2> DEFINE g == e[3]
  <2>1. g \subseteq DOMAIN nodes
    BY <1>1, <1>3
  <2>2. IsFiniteSet(g)
    BY <2>1, FS_Subset DEF NumbersInv
  <2>3. \A c \in g : Counts[c] \in Nat /\ EndsOf[c] \in Nat
    BY <2>1 DEF Counts, EndsOf, NumbersInv
  <2> HIDE DEF g
  <2>4. Sum(Counts, g) \in Nat /\ Sum(EndsOf, g) \in Nat
    BY <2>2, <2>3, SumNat
  <2> QED
    BY <1>3, <2>4 DEF g
<1>7. \A e \in DOMAIN nodes : e \in DOMAIN nodes' /\ nodes'[e].level = nodes[e].level
  <2>1. \A e \in DOMAIN nodes : nodes[e].level = e[2] /\ e \in DOMAIN nodes' /\ nodes'[e].level = e[2]
    BY <1>2 DEF GraphInv, NodesOk
  <2> QED
    BY <2>1
<1>8. \A l \in Levels : l \in Levels'
  BY <1>7 DEF Levels, LevelOf
<1>9. ASSUME NEW e \in new, NEW l \in 1 .. lv PROVE l \in Levels'
  <2>1. CASE l = lv
    BY <1>2, <1>3, <2>1 DEF Levels, LevelOf
  <2>2. CASE l # lv /\ lv > 2
    <3>1. lv - 1 \in Levels
      BY <2>2 DEF MadeInv, Parenting, lv
    <3>2. l \in 1 .. (lv - 1)
      BY <1>1, <2>2
    <3> QED
      BY <1>8, <3>1, <3>2, LevelsBelow
  <2>3. CASE l # lv /\ ~ (lv > 2)
    <3>1. l = 1
      BY <1>1, <2>3
    <3>2. e[3] # {} /\ e[3] \subseteq DOMAIN nodes
      BY <1>1, <1>3 DEF MadeInv, Parenting
    <3>3. PICK c \in DOMAIN nodes : c \in e[3]
      BY <3>2
    <3>4. c[2] \in Heights
      BY DEF NumbersInv
    <3>5. l \in 1 .. c[2]
      BY <3>1, <3>4 DEF Heights
    <3>6. l \in Levels
      BY <3>5 DEF NumbersInv
    <3> QED
      BY <1>8, <3>6
  <2> QED
    BY <2>1, <2>2, <2>3
<1>10. NumbersInv'
  <2>1. \A e \in DOMAIN nodes' : e[2] \in Heights /\ nodes'[e].count \in Nat /\ nodes'[e].ends \in Nat
    <3> SUFFICES ASSUME NEW e \in DOMAIN nodes'
                 PROVE  e[2] \in Heights /\ nodes'[e].count \in Nat /\ nodes'[e].ends \in Nat
      OBVIOUS
    <3>1. CASE e \in new
      BY <1>1, <1>3, <1>6, <3>1 DEF Heights
    <3>2. CASE e \notin new
      BY <1>2, <3>2 DEF NumbersInv
    <3> QED
      BY <3>1, <3>2
  <2>2. \A e \in DOMAIN nodes' : \A l \in 1 .. e[2] : l \in Levels'
    <3> SUFFICES ASSUME NEW e \in DOMAIN nodes', NEW l \in 1 .. e[2] PROVE l \in Levels'
      OBVIOUS
    <3>1. CASE e \in new
      BY <1>3, <1>9, <3>1
    <3>2. CASE e \notin new
      BY <1>2, <1>8, <3>2 DEF NumbersInv
    <3> QED
      BY <3>1, <3>2
  <2> QED
    BY <1>5, <2>1, <2>2 DEF NumbersInv
<1>11. StatsInv'
  BY <1>2, <1>3 DEF StatsInv
<1>12. ASSUME job.made[kind] # {} PROVE lv \in Levels'
  <2>1. PICK g \in job.made[kind] : TRUE
    BY <1>12
  <2>2. <<kind, lv, g>> \in DOMAIN nodes' /\ nodes'[<<kind, lv, g>>].level = lv
    BY <1>2, <1>3, <1>4
  <2> QED
    BY <2>2 DEF Levels, LevelOf
<1> QED
  BY <1>7, <1>8, <1>10, <1>11, <1>12 DEF lv


\* The climb of a whole build, as a kind's parents are written.
LEMMA GrewGrown ==
  ASSUME GraphInv, GraphInv', NumbersInv, NumbersInv', LiftInv, "build" \in done,
         NEW kind \in Kinds, Parenting(kind), NEW new, NEW grouped, GrewNodes(kind, new, grouped)
  PROVE  /\ Grown(nodes, part, nodes', part', new, grouped, job.level)
         /\ \A c \in grouped : c \in DOMAIN nodes /\ c[1] = kind /\ c \notin DOMAIN part /\ c \in job.top[kind]
<1> DEFINE lv == job.level
<1>1. lv \in Nat /\ lv >= 2 /\ \A e \in job.top[kind] : e \in DOMAIN nodes /\ e[1] = kind
  BY TopsThere
<1>2. /\ \A e \in job.top[kind] : e \notin DOMAIN part
      /\ \A e \in DOMAIN nodes : e[2] < lv \/ (job.step = "action parents" /\ e[1] = "state" /\ e[2] = lv)
  BY DEF LiftInv, Parenting
<1>3. \A e \in new : e[1] = kind /\ e[2] = lv
  BY DEF GrewNodes
<1>4. \A e \in DOMAIN nodes : e \notin new
  <2> SUFFICES ASSUME NEW e \in DOMAIN nodes, e \in new PROVE FALSE
    OBVIOUS
  <2>1. e[1] = kind /\ e[2] = lv
    BY <1>3
  <2>2. ~ (e[2] < lv)
    BY <1>1, <2>1
  <2>3. job.step = "action parents" /\ kind = "state"
    BY <1>2, <2>1, <2>2
  <2> QED
    BY <2>3 DEF Parenting
<1>5. \A c \in grouped : c \in DOMAIN nodes /\ c[1] = kind /\ c \notin DOMAIN part /\ c \in job.top[kind]
  BY <1>1, <1>2 DEF GrewNodes
<1>6. \A c \in DOMAIN part : c \notin grouped
  BY <1>5
<1> QED
  BY <1>3, <1>4, <1>5, <1>6 DEF Grown, GrewNodes

LEMMA GrewStood ==
  ASSUME GraphInv, GraphInv', NumbersInv, NumbersInv', LiftInv, BuiltInv, "build" \in done,
         observations' = observations, DOMAIN job.of = DOMAIN observations,
         NEW kind \in Kinds, Parenting(kind), NEW new, NEW grouped, GrewNodes(kind, new, grouped),
         NEW top, NEW of, GrewTurns(kind, new, grouped, top, of)
  PROVE  /\ \A l \in Heights : l < job.level => Stood(l)' = Stood(l)
         /\ \A l \in Heights : l >= job.level => Stood(l)' = of /\ Stood(l) = job.of
<1> DEFINE lv == job.level
           obs == observations
           rows == DOMAIN obs
           was(l) == StoodIn(nodes, part, obs, l)
           is(l) == StoodIn(nodes', part', obs, l)
<1>1. Grown(nodes, part, nodes', part', new, grouped, lv) /\ lv \in Nat
  BY GrewGrown, TopsThere
<1>2. WalkOk(nodes, part) /\ WalkOk(nodes', part')
  BY GraphWalks, GraphWalksNext
<1>3. \A t \in rows : obs[t] \in DOMAIN nodes
  BY DEF BuiltInv, Holds
<1>4. ASSUME NEW l \in Heights, NEW t \in rows
      PROVE  is(l)[t] = IF l >= lv /\ was(l)[t] \in grouped THEN part'[was(l)[t]] ELSE was(l)[t]
  <2> DEFINE a == Walk(nodes, part, l)[obs[t]]
             b == Walk(nodes', part', l)[obs[t]]
  <2>1. was(l)[t] = a /\ is(l)[t] = b
    BY DEF StoodIn
  <2>2. l \in Nat /\ obs[t] \in DOMAIN nodes
    BY <1>3 DEF Heights
  <2>3. b = IF l >= lv /\ a \in grouped THEN part'[a] ELSE a
    BY <1>1, <1>2, <2>2, WalkGrown
  <2> QED
    BY <2>1, <2>3
<1>5. \A l : DOMAIN was(l) = rows /\ DOMAIN is(l) = rows
  BY DEF StoodIn
<1>6. \A l : was(l) = [t \in rows |-> was(l)[t]] /\ is(l) = [t \in rows |-> is(l)[t]]
  BY DEF StoodIn
<1>7. \A l : Stood(l) = was(l) /\ Stood(l)' = is(l)
  BY DEF Stood
<1> HIDE DEF was, is, lv
<1>8. ASSUME NEW l \in Heights, l < lv PROVE is(l) = was(l)
  <2>1. ~ (l >= lv)
    BY <1>1, <1>8 DEF Heights
  <2>2. \A t \in rows : is(l)[t] = was(l)[t]
    BY <1>4, <2>1
  <2> QED
    BY <1>6, <2>2
<1>9. ASSUME NEW l \in Heights, l >= lv PROVE is(l) = of /\ was(l) = job.of
  <2>1. was(l) = job.of
    <3>1. job.of = Stood(l)
      BY <1>9 DEF LiftInv, Parenting, lv
    <3> QED
      BY <1>7, <3>1
  <2>2. \A t \in rows : is(l)[t] = IF job.of[t] \in grouped THEN part'[job.of[t]] ELSE job.of[t]
    BY <1>4, <1>9, <2>1
  <2>3. of = [t \in rows |-> IF job.of[t] \in grouped THEN part'[job.of[t]] ELSE job.of[t]]
    BY DEF GrewTurns
  <2>4. is(l) = [t \in rows |-> IF job.of[t] \in grouped THEN part'[job.of[t]] ELSE job.of[t]]
    BY <1>6, <2>2
  <2> QED
    BY <2>1, <2>3, <2>4
<1> QED
  BY <1>7, <1>8, <1>9 DEF lv

\* The turns in a group, and those in no group of it.
LEMMA GrewJoins ==
  ASSUME LiftInv, "build" \in done, DOMAIN job.of = DOMAIN observations,
         NEW kind \in Kinds, Parenting(kind), NEW new, NEW grouped, GrewNodes(kind, new, grouped),
         NEW top, NEW of, GrewTurns(kind, new, grouped, top, of), \A t \in DOMAIN observations : job.of[t] \notin new
  PROVE  \A t \in DOMAIN observations :
           /\ of[t] \in new => Joins(DOMAIN observations, job.of, of[t][3], of, of[t])
           /\ of[t] \notin new => of[t] = job.of[t] /\ SameTurns(DOMAIN observations, of, of[t], job.of, of[t])
<1> DEFINE rows == DOMAIN observations
<1>1. \A u \in rows : of[u] = IF job.of[u] \in grouped THEN part'[job.of[u]] ELSE job.of[u]
  BY DEF GrewTurns
<1>2. \A c \in grouped : part'[c] \in new /\ c \in part'[c][3]
  BY DEF GrewNodes
<1>3. \A e \in new : e = <<kind, job.level, e[3]>> /\ e[3] \in job.made[kind] /\ e[3] \subseteq grouped
  BY DEF GrewNodes
<1>4. Apart(job.made[kind])
  BY DEF LiftInv, Parenting
<1>5. \A c \in grouped : \A e \in new : c \in e[3] => part'[c] = e
  <2> SUFFICES ASSUME NEW c \in grouped, NEW e \in new, c \in e[3] PROVE part'[c] = e
    OBVIOUS
  <2> DEFINE d == part'[c]
  <2>1. d \in new /\ c \in d[3]
    BY <1>2
  <2> HIDE DEF d
  <2>2. d[3] = e[3]
    BY <1>3, <1>4, <2>1 DEF Apart
  <2>3. d = e
    BY <1>3, <2>1, <2>2
  <2> QED
    BY <2>3 DEF d
<1> SUFFICES ASSUME NEW t \in rows
             PROVE  /\ of[t] \in new => Joins(rows, job.of, of[t][3], of, of[t])
                    /\ of[t] \notin new => of[t] = job.of[t] /\ SameTurns(rows, of, of[t], job.of, of[t])
  OBVIOUS
<1> HIDE DEF rows
<1>6. ASSUME of[t] \in new PROVE Joins(rows, job.of, of[t][3], of, of[t])
  <2> SUFFICES ASSUME NEW u \in rows PROVE of[u] = of[t] <=> job.of[u] \in of[t][3]
    BY DEF Joins
  <2>1. ASSUME of[u] = of[t] PROVE job.of[u] \in of[t][3]
    <3>1. job.of[u] \in grouped
      BY <1>1, <1>6, <2>1 DEF rows
    <3> QED
      BY <1>1, <1>2, <2>1, <3>1
  <2>2. ASSUME job.of[u] \in of[t][3] PROVE of[u] = of[t]
    BY <1>1, <1>3, <1>5, <1>6, <2>2
  <2> QED
    BY <2>1, <2>2
<1>7. ASSUME of[t] \notin new PROVE of[t] = job.of[t] /\ SameTurns(rows, of, of[t], job.of, of[t])
  <2>1. of[t] = job.of[t] /\ job.of[t] \notin grouped
    BY <1>1, <1>2, <1>7
  <2>2. \A u \in rows : of[u] = of[t] <=> job.of[u] = of[t]
    BY <1>1, <1>2, <1>7, <2>1
  <2> QED
    BY <2>1, <2>2 DEF SameTurns
<1> QED
  BY <1>6, <1>7


LEMMA GrewCounted ==
  ASSUME GraphInv, GraphInv', NumbersInv, NumbersInv', LiftInv, BuiltInv, "build" \in done, FirstOf(observations),
         observations' = observations, DOMAIN job.of = DOMAIN observations,
         NEW kind \in Kinds, Parenting(kind), NEW new, NEW grouped, GrewNodes(kind, new, grouped),
         NEW top, NEW of, GrewTurns(kind, new, grouped, top, of), NEW l \in Heights
  PROVE  CountedBy(nodes', Stood(l)')
<1> DEFINE lv == job.level
           rows == DOMAIN observations
<1>1. WalkOk(nodes, part) /\ Holds(nodes, rels, part, observations)
  BY GraphWalks DEF BuiltInv
<1>2. CountedBy(nodes, Stood(l)) /\ \A t \in rows : Stood(l)[t] \in DOMAIN nodes
  <2>1. \A t \in rows : Stood(l)[t] \in DOMAIN nodes
    BY <1>1, StoodShape DEF Stood
  <2> QED
    BY <1>1, <2>1 DEF Holds, Stood
<1>3. DOMAIN Stood(l) = rows /\ rows \in SUBSET Events
  BY DEF Stood, StoodIn, FirstOf
<1>4. lv \in Nat /\ (\A e \in DOMAIN nodes : e \notin new /\ nodes'[e] = nodes[e])
  <2>1. Grown(nodes, part, nodes', part', new, grouped, lv)
    BY GrewGrown
  <2> QED
    BY <2>1, TopsThere DEF Grown
<1>5. CASE l < lv
  <2>1. Stood(l)' = Stood(l)
    BY <1>5, GrewStood
  <2> DEFINE at == Stood(l)
  <2>2. \A t \in DOMAIN at : nodes'[at[t]] = nodes[at[t]]
    BY <1>2, <1>3, <1>4
  <2> HIDE DEF at
  <2>3. CountedBy(nodes', at)
    BY <1>2, <2>2 DEF CountedBy, at
  <2> QED
    BY <2>1, <2>3 DEF at
<1>6. CASE ~ (l < lv)
  <2> DEFINE at == job.of
  <2>1. Stood(l)' = of /\ Stood(l) = at
    <3>1. l >= lv
      BY <1>4, <1>6 DEF Heights
    <3> QED
      BY <3>1, GrewStood
  <2>2. CountedBy(nodes, at) /\ DOMAIN at = rows /\ \A t \in rows : at[t] \in DOMAIN nodes
    BY <1>2, <1>3, <2>1
  <2>3. DOMAIN of = rows
    BY DEF GrewTurns
  <2>4. \A t \in rows :
           /\ of[t] \in new => Joins(rows, at, of[t][3], of, of[t])
           /\ of[t] \notin new => of[t] = at[t] /\ SameTurns(rows, of, of[t], at, of[t])
    <3>1. \A t \in rows : at[t] \notin new
      BY <1>4, <2>2
    <3> QED
      BY <3>1, GrewJoins
  <2>5. \A g \in job.made[kind] : \A c \in g : \E t \in rows : c = at[t]
    <3>1. \A c \in job.top[kind] : \E t \in rows : c = at[t]
      BY DEF LiftInv, Parenting
    <3>2. \A g \in job.made[kind] : g \subseteq job.top[kind]
      BY TopsThere
    <3> QED
      BY <3>1, <3>2
  <2>6. \A g \in job.made[kind] : IsFiniteSet(g)
    <3>1. \A g \in job.made[kind] : g \subseteq DOMAIN nodes
      BY TopsThere
    <3> QED
      BY <3>1, FS_Subset DEF NumbersInv
  <2>7. \A e \in new : /\ e[3] \in job.made[kind]
                       /\ nodes'[e].count = Sum(Counts, e[3]) /\ nodes'[e].ends = Sum(EndsOf, e[3])
    BY DEF GrewNodes
  <2> HIDE DEF at, rows
  <2>8. ASSUME NEW t \in rows
        PROVE  nodes'[of[t]].count = Count(rows, of, of[t]) /\ nodes'[of[t]].ends = Ends(rows, of, of[t])
    <3>1. CASE of[t] \in new
      <4> DEFINE g == of[t][3]
                 e == of[t]
      <4>1. g \in job.made[kind] /\ IsFiniteSet(g) /\ Joins(rows, at, g, of, e)
            /\ nodes'[e].count = Sum(Counts, g) /\ nodes'[e].ends = Sum(EndsOf, g)
        BY <2>4, <2>6, <2>7, <3>1
      <4>2. \A c \in g : Counts[c] = Count(rows, at, c) /\ EndsOf[c] = Ends(rows, at, c)
        <5> SUFFICES ASSUME NEW c \in g PROVE Counts[c] = Count(rows, at, c) /\ EndsOf[c] = Ends(rows, at, c)
          OBVIOUS
        <5>1. PICK u \in rows : c = at[u]
          BY <2>5, <4>1
        <5>2. nodes[c].count = Count(rows, at, c) /\ nodes[c].ends = Ends(rows, at, c) /\ c \in DOMAIN nodes
          BY <2>2, <5>1 DEF CountedBy
        <5> QED
          BY <5>2 DEF Counts, EndsOf
      <4> DEFINE cs == Counts
                 es == EndsOf
      <4> HIDE DEF g, e, cs, es
      <4>3. Count(rows, of, e) = Sum(cs, g) /\ Ends(rows, of, e) = Sum(es, g)
        <5>1. CountsAre(rows, at, g, cs, es)
          BY <4>2 DEF cs, es, CountsAre
        <5> QED
          BY <1>3, <4>1, <5>1, CountJoined
      <4> QED
        BY <4>1, <4>3 DEF cs, es, e
    <3>2. CASE of[t] \notin new
      <4> DEFINE e == of[t]
      <4>1. e = at[t] /\ SameTurns(rows, of, e, at, e)
        BY <2>4, <3>2
      <4>2. nodes'[e] = nodes[e] /\ nodes[e].count = Count(rows, at, e) /\ nodes[e].ends = Ends(rows, at, e)
        BY <1>4, <2>2, <4>1 DEF CountedBy
      <4> HIDE DEF e
      <4>3. Count(rows, of, e) = Count(rows, at, e) /\ Ends(rows, of, e) = Ends(rows, at, e)
        BY <4>1, CountSame
      <4> QED
        BY <4>2, <4>3 DEF e
    <3> QED
      BY <3>1, <3>2
  <2>9. CountedBy(nodes', of)
    BY <2>3, <2>8 DEF CountedBy
  <2> QED
    BY <2>1, <2>9
<1> QED
  BY <1>5, <1>6

LEMMA GrewBuilt ==
  ASSUME GraphInv, GraphInv', NumbersInv, NumbersInv', LiftInv, BuiltInv,
         UNCHANGED <<observations, rels, done>>, DOMAIN job.of = DOMAIN observations, "abstract" \notin done,
         NEW kind \in Kinds, Parenting(kind), NEW new, NEW grouped, GrewNodes(kind, new, grouped),
         NEW top, NEW of, GrewTurns(kind, new, grouped, top, of)
  PROVE  BuiltInv'
<1> SUFFICES ASSUME "build" \in done PROVE FirstOf(observations) /\ Holds(nodes', rels, part', observations)
  BY DEF BuiltInv
<1>1. Holds(nodes, rels, part, observations) /\ FirstOf(observations)
  BY DEF BuiltInv
<1>2. job.level \in Nat /\ job.level >= 2
  BY TopsThere
<1>3. \A e \in DOMAIN nodes : e \in DOMAIN nodes'
  BY DEF GrewNodes
<1>4. \A e \in DOMAIN nodes' : e[2] = 1 => \E t \in DOMAIN observations : observations[t] = e
  <2> SUFFICES ASSUME NEW e \in DOMAIN nodes', e[2] = 1 PROVE \E t \in DOMAIN observations : observations[t] = e
    OBVIOUS
  <2>1. e \notin new
    <3> SUFFICES ASSUME e \in new PROVE FALSE
      OBVIOUS
    <3>1. e[2] = job.level
      BY DEF GrewNodes
    <3> QED
      BY <1>2, <3>1
  <2>2. e \in DOMAIN nodes
    BY <2>1 DEF GrewNodes
  <2> QED
    BY <1>1, <2>2 DEF Holds
<1>5. \A l \in Heights : CountedBy(nodes', StoodIn(nodes', part', observations, l))
  BY <1>1, GrewCounted DEF Stood
<1>6. ASSUME NEW r \in DOMAIN rels
      PROVE  FitsBy(rels, StoodIn(nodes', part', observations, r[1]), r)
  <2>1. r[1] = 1 /\ r[2] \in DOMAIN nodes /\ r[2][2] = 1
    BY DEF LiftInv, Parenting, GraphInv, RelsOk
  <2>2. nodes[r[2]].level = 1
    BY <2>1 DEF GraphInv, NodesOk
  <2>3. r[1] \in HeightsOf(nodes)
    BY <2>1, <2>2 DEF HeightsOf
  <2>4. FitsBy(rels, Stood(r[1]), r)
    BY <1>1, <2>3 DEF Holds, Stood
  <2>5. r[1] \in Heights /\ r[1] < job.level
    BY <1>2, <2>1 DEF Heights
  <2>6. Stood(r[1])' = Stood(r[1])
    BY <2>5, GrewStood
  <2> QED
    BY <2>4, <2>6 DEF Stood
<1> QED
  BY <1>1, <1>3, <1>4, <1>5, <1>6 DEF Holds


\* Where the elements and the turns are once a kind's parents are written.
LEMMA GrewTops ==
  ASSUME GraphInv, NEW kind \in Kinds, Parenting(kind), NEW new, NEW grouped, GrewNodes(kind, new, grouped),
         NEW top, NEW of, GrewTurns(kind, new, grouped, top, of), GraphInv'
  PROVE  /\ \A k \in Kinds : \A e \in top[k] : e[1] = k
         /\ \A e \in new : e \in top[kind] /\ e \in DOMAIN nodes'
         /\ \A k \in Kinds : \A e \in top[k] : e \in new \/ (e \in job.top[k] /\ e \notin grouped)
         /\ \A k \in Kinds : \A e \in job.top[k] : e \in top[k] \/ e \in grouped
<1>1. \A k \in Kinds : \A e \in job.top[k] : e \in DOMAIN nodes /\ e[1] = k
  BY TopsThere
<1>2. \A e \in new : e[1] = kind /\ e \in top[kind] /\ e \in DOMAIN nodes'
  BY DEF GrewNodes, GrewTurns
<1>3. \A c \in grouped : c[1] = kind
  BY <1>1 DEF GrewNodes
<1>4. \A k \in Kinds : \A e \in top[k] : e \in new \/ (e \in job.top[k] /\ e \notin grouped)
  BY <1>1, <1>3 DEF GrewTurns
<1>5. \A k \in Kinds : \A e \in job.top[k] : e \in top[k] \/ e \in grouped
  BY DEF GrewTurns
<1>6. \A k \in Kinds : \A e \in top[k] : e[1] = k
  <2> SUFFICES ASSUME NEW k \in Kinds, NEW e \in top[k] PROVE e[1] = k
    OBVIOUS
  <2>1. CASE k = kind
    BY <1>1, <1>2, <1>4, <2>1
  <2>2. CASE k # kind
    BY <1>1, <2>2 DEF GrewTurns
  <2> QED
    BY <2>1, <2>2
<1> QED
  BY <1>2, <1>4, <1>5, <1>6

\* Every turn is in a top element, and every top element has a turn.
Seats(of, top) == \A t \in DOMAIN observations : of[t] \in top[Kind(t)]
Taken(of, top) == \A k \in Kinds : \A e \in top[k] : \E t \in DOMAIN observations : e = of[t]
LEMMA GrewSeats ==
  ASSUME GraphInv, GraphInv', FirstOf(observations), DOMAIN job.of = DOMAIN observations,
         NEW kind \in Kinds, Parenting(kind), NEW new, NEW grouped, GrewNodes(kind, new, grouped),
         NEW top, NEW of, GrewTurns(kind, new, grouped, top, of), Seats(job.of, job.top)
  PROVE  Seats(of, top)
<1> SUFFICES ASSUME NEW t \in DOMAIN observations PROVE of[t] \in top[Kind(t)]
  BY DEF Seats
<1>1. t \in Events /\ Kind(t) \in Kinds
  BY EventShape DEF FirstOf
<1>2. job.of[t] \in job.top[Kind(t)]
  BY DEF Seats
<1>3. of[t] = IF job.of[t] \in grouped THEN part'[job.of[t]] ELSE job.of[t]
  BY DEF GrewTurns
<1>4. CASE job.of[t] \notin grouped
  BY <1>1, <1>2, <1>3, <1>4, GrewTops
<1>5. CASE job.of[t] \in grouped
  <2>1. job.of[t] \in job.top[kind] /\ part'[job.of[t]] \in new
    BY <1>5 DEF GrewNodes
  <2>2. job.of[t][1] = kind /\ job.of[t][1] = Kind(t)
    BY <1>1, <1>2, <2>1, TopsThere
  <2> QED
    BY <1>3, <1>5, <2>1, <2>2, GrewTops
<1> QED
  BY <1>4, <1>5

LEMMA GrewTaken ==
  ASSUME GraphInv, GraphInv', MadeInv, LiftInv, "build" \in done, DOMAIN job.of = DOMAIN observations,
         NEW kind \in Kinds, Parenting(kind), NEW new, NEW grouped, GrewNodes(kind, new, grouped),
         NEW top, NEW of, GrewTurns(kind, new, grouped, top, of), Taken(job.of, job.top),
         \A t \in DOMAIN observations : job.of[t] \notin new
  PROVE  Taken(of, top)
<1> SUFFICES ASSUME NEW k \in Kinds, NEW e \in top[k] PROVE \E t \in DOMAIN observations : e = of[t]
  BY DEF Taken
<1>1. \A t \in DOMAIN observations : of[t] = IF job.of[t] \in grouped THEN part'[job.of[t]] ELSE job.of[t]
  BY DEF GrewTurns
<1>2. CASE e \notin new
  <2>1. e \in job.top[k] /\ e \notin grouped
    BY <1>2, GrewTops
  <2>2. PICK t \in DOMAIN observations : e = job.of[t]
    BY <2>1 DEF Taken
  <2> QED
    BY <1>1, <2>1, <2>2
<1>3. CASE e \in new
  <2>1. e[3] \in job.made[kind] /\ e[3] \subseteq grouped /\ e = <<kind, job.level, e[3]>>
    BY <1>3 DEF GrewNodes
  <2>2. e[3] # {}
    BY <2>1 DEF MadeInv, Parenting
  <2>3. PICK c \in grouped : c \in e[3]
    BY <2>1, <2>2
  <2>4. c \in job.top[kind]
    BY DEF GrewNodes
  <2>5. PICK t \in DOMAIN observations : c = job.of[t]
    BY <2>4 DEF Taken
  <2>6. of[t] = part'[c] /\ part'[c] \in new /\ c \in part'[c][3]
    BY <1>1, <2>5 DEF GrewNodes
  <2>7. part'[c] = <<kind, job.level, part'[c][3]>> /\ part'[c][3] \in job.made[kind]
    BY <2>6 DEF GrewNodes
  <2>8. Apart(job.made[kind])
    BY DEF LiftInv, Parenting
  <2> DEFINE d == part'[c]
  <2> HIDE DEF d
  <2>9. d[3] = e[3]
    BY <2>1, <2>3, <2>6, <2>7, <2>8 DEF Apart, d
  <2>10. d = e
    BY <2>1, <2>7, <2>9 DEF d
  <2> QED
    BY <2>6, <2>10 DEF d
<1> QED
  BY <1>2, <1>3


Appended(past, x, past2) == past \in Seq(Entries(past)) /\ past2 = Append(past, x)
LEMMA PastGrows ==
  ASSUME NEW past, NEW x, NEW past2, Appended(past, x, past2)
  PROVE  /\ past2 \in Seq(Entries(past2)) /\ Len(past) \in Nat /\ Len(past2) = Len(past) + 1
         /\ DOMAIN past = 1 .. Len(past) /\ DOMAIN past2 = 1 .. (Len(past) + 1)
         /\ \A i \in 1 .. Len(past) : past2[i] = past[i]
         /\ past2[Len(past) + 1] = x
<1> USE DEF Appended
<1> DEFINE n == Len(past)
           S == Entries(past) \cup {x}
<1>1. n \in Nat /\ past \in [1 .. n -> Entries(past)] /\ DOMAIN past = 1 .. n
  BY LenProperties
<1>2. past \in [1 .. n -> S] /\ x \in S
  BY <1>1
<1> HIDE DEF S
<1>3. past \in Seq(S)
  BY <1>1, <1>2, SeqDef
<1>4. /\ past2 \in Seq(S) /\ Len(past2) = n + 1
      /\ \A i \in 1 .. n : past2[i] = past[i]
      /\ past2[n + 1] = x
  BY <1>2, <1>3, AppendProperties
<1>5. DOMAIN past2 = 1 .. (n + 1) /\ past2 \in [1 .. (n + 1) -> S]
  BY <1>4, LenProperties
<1>6. past2 \in [1 .. (n + 1) -> Entries(past2)]
  <2>1. \A i \in 1 .. (n + 1) : past2[i] \in Entries(past2)
    BY <1>5 DEF Entries
  <2> HIDE DEF n
  <2> QED
    BY <1>5, <2>1
<1>7. n + 1 \in Nat
  BY <1>1
<1>8. past2 \in Seq(Entries(past2))
  BY <1>6, <1>7, SeqDef
<1> QED
  BY <1>1, <1>4, <1>5, <1>8

\* The climb's record of the levels, once a level's parents are written.
LEMMA GrewClimb ==
  ASSUME GraphInv, GraphInv', NumbersInv, NumbersInv', ClimbInv, LiftInv, BuiltInv, FilesInv,
         UNCHANGED <<observations, done>>, DOMAIN job.of = DOMAIN observations,
         NEW kind \in Kinds, Parenting(kind), NEW new, NEW grouped, GrewNodes(kind, new, grouped),
         NEW top, NEW of, GrewTurns(kind, new, grouped, top, of), Went(kind, top, of)
  PROVE  ClimbInv'
<1>1. /\ job.past \in Seq(Entries(job.past))
      /\ \A i \in DOMAIN job.past : DOMAIN job.past[i].of = DOMAIN observations
  BY DEF ClimbInv, Parenting
<1>2. job'.of = of /\ job'.top = top /\ DOMAIN of = DOMAIN observations
  BY DEF Went, GrewTurns
<1> DEFINE past == job.past
           past2 == job'.past
           entry == [top |-> top, of |-> of]
<1>3. entry.top = top /\ entry.of = of
  OBVIOUS
<1>4. past2 = past \/ past2 = Append(past, entry)
  BY DEF Went, Kinds
<1>5. kind = "action" => past2 = Append(past, entry)
  BY DEF Went
<1> HIDE DEF entry
<1>6. /\ past2 \in Seq(Entries(past2)) /\ Len(past) \in Nat /\ DOMAIN past = 1 .. Len(past)
      /\ \A i \in DOMAIN past2 : (i \in 1 .. Len(past) /\ past2[i] = past[i]) \/ (i = Len(past) + 1 /\ past2[i] = entry)
  <2>0. Len(past) \in Nat /\ DOMAIN past = 1 .. Len(past)
    BY <1>1, LenProperties
  <2>1. CASE past2 = past
    BY <1>1, <2>0, <2>1
  <2>2. CASE past2 = Append(past, entry)
    <3> HIDE DEF past, past2
    <3>1. Appended(past, entry, past2)
      BY <1>1, <2>2 DEF past, Appended
    <3>2. /\ past2 \in Seq(Entries(past2)) /\ DOMAIN past2 = 1 .. (Len(past) + 1)
          /\ \A i \in 1 .. Len(past) : past2[i] = past[i]
          /\ past2[Len(past) + 1] = entry
      BY <3>1, PastGrows
    <3>3. \A i \in 1 .. (Len(past) + 1) : i \in 1 .. Len(past) \/ i = Len(past) + 1
      BY <2>0
    <3> QED
      BY <2>0, <3>2, <3>3
  <2> QED
    BY <1>4, <2>1, <2>2
<1>7. \A i \in DOMAIN past2 : DOMAIN past2[i].of = DOMAIN observations
  BY <1>1, <1>2, <1>3, <1>6
<1>8. CASE "build" \notin done
  BY <1>6, <1>7, <1>8 DEF ClimbInv
<1>9. CASE "build" \in done
  <2>1. FirstOf(observations) /\ Seats(job.of, job.top) /\ \A i \in DOMAIN past : PastOk(i)
    BY <1>9 DEF BuiltInv, ClimbInv, Parenting, Seats
  <2>2. Seats(of, top)
    BY <2>1, GrewSeats
  <2>3. Len(past) = job.level - 2 /\ job.level \in Nat
    BY <1>9, TopsThere DEF LiftInv, Parenting
  <2>4. \A l \in Heights : l < job.level => Stood(l)' = Stood(l)
    BY <1>9, GrewStood
  <2>5. \A l \in Heights : l >= job.level => Stood(l)' = of
    BY <1>9, GrewStood
  <2> DEFINE n == Len(past)
             lv == job.level
  <2>6. n = lv - 2 /\ lv \in Nat /\ n \in Nat
    BY <1>6, <2>3
  <2> HIDE DEF n, lv
  <2>7. ASSUME NEW i \in DOMAIN past2 PROVE PastOk(i)'
    <3>1. CASE i \in 1 .. n /\ past2[i] = past[i]
      <4>1. i + 1 \in Heights /\ i + 1 < lv
        BY <2>6, <3>1 DEF Heights
      <4>2. Stood(i + 1)' = Stood(i + 1)
        BY <2>4, <4>1 DEF lv
      <4>3. PastOk(i)
        BY <1>6, <2>1, <3>1 DEF n
      <4> QED
        BY <3>1, <4>2, <4>3 DEF PastOk
    <3>2. CASE i = n + 1 /\ past2[i] = entry
      <4>1. i + 1 \in Heights /\ i + 1 >= lv
        BY <2>6, <3>2 DEF Heights
      <4>2. Stood(i + 1)' = of
        BY <2>5, <4>1 DEF lv
      <4>3. \A k \in Kinds : \A e \in top[k] : e[1] = k
        BY GrewTops
      <4> QED
        BY <1>3, <2>2, <3>2, <4>2, <4>3 DEF PastOk, Seats
    <3> QED
      BY <1>6, <3>1, <3>2 DEF n
  <2> QED
    BY <1>2, <1>6, <1>7, <2>2, <2>7 DEF ClimbInv, Seats
<1> QED
  BY <1>8, <1>9


\* The climb goes on: to the Actions' parents, to the next level, or to the
\* transitions.
LEMMA GrewLift ==
  ASSUME GraphInv, GraphInv', NumbersInv, NumbersInv', MadeInv, ClimbInv, LiftInv, BuiltInv, "build" \in done,
         UNCHANGED <<observations, rels, done>>, DOMAIN job.of = DOMAIN observations, FirstOf(observations),
         NEW kind \in Kinds, Parenting(kind), NEW new, NEW grouped, GrewNodes(kind, new, grouped),
         NEW top, NEW of, GrewTurns(kind, new, grouped, top, of), Went(kind, top, of), WentTo(kind), Lifting'
  PROVE  LiftInv'
<1> DEFINE lv == job.level
           lv2 == job'.level
<1>1. lv \in Nat /\ lv >= 2 /\ Len(job.past) = lv - 2 /\ job.past \in Seq(Entries(job.past))
  BY TopsThere DEF LiftInv, Parenting, ClimbInv
<1>2. job'.of = of /\ job'.top = top /\ job'.made = job.made /\ DOMAIN of = DOMAIN observations
  BY DEF Went, GrewTurns
<1>3. (kind = "state" /\ lv2 = lv /\ job'.step = "action parents") \/ (kind = "action" /\ lv2 = lv + 1 /\ job'.step = "group")
  <2>1. CASE kind = "state"
    BY <2>1 DEF Went, WentTo
  <2>2. CASE kind = "action"
    <3>1. job'.step = "group"
      BY <2>2 DEF Lifting, Went
    <3> QED
      BY <2>2, <3>1 DEF WentTo
  <2> QED
    BY <2>1, <2>2 DEF Kinds
<1>4. Len(job'.past) = lv2 - 2
  <2> DEFINE past == job.past
             past2 == job'.past
             entry == [top |-> top, of |-> of]
  <2>1. CASE kind = "state"
    <3>1. job'.past = job.past
      BY <2>1 DEF Went
    <3>2. lv2 = lv
      BY <1>3, <2>1
    <3> QED
      BY <1>1, <3>1, <3>2
  <2>2. CASE kind = "action"
    <3>1. Appended(past, entry, past2)
      BY <1>1, <2>2 DEF Went, Appended
    <3>2. lv2 = lv + 1
      BY <1>3, <2>2
    <3> HIDE DEF past, past2, entry, lv, lv2
    <3>3. Len(past2) = Len(past) + 1 /\ Len(past) \in Nat
      BY <3>1, PastGrows
    <3>4. Len(past) = lv - 2
      BY <1>1 DEF past
    <3>5. Len(past2) = lv2 - 2
      BY <1>1, <3>2, <3>3, <3>4
    <3> QED
      BY <3>5 DEF past2
  <2> QED
    BY <2>1, <2>2 DEF Kinds
<1>5. lv2 \in Nat /\ lv2 >= lv
  <2>1. lv2 = lv \/ lv2 = lv + 1
    BY Zenon, <1>3
  <2> HIDE DEF lv, lv2
  <2> QED
    BY <1>1, <2>1
<1>6. \A l \in Heights : l >= lv2 => of = Stood(l)'
  <2>1. \A l \in Heights : l >= lv2 => l >= lv
    <3> HIDE DEF lv, lv2
    <3> QED
      BY <1>1, <1>5 DEF Heights
  <2> QED
    BY <2>1, GrewStood
<1>7. Grown(nodes, part, nodes', part', new, grouped, lv)
  BY GrewGrown
<1>8. \A k \in Kinds : \A e \in top[k] : e \notin DOMAIN part'
  <2> SUFFICES ASSUME NEW k \in Kinds, NEW e \in top[k] PROVE e \notin DOMAIN part'
    OBVIOUS
  <2>1. CASE e \in new
    BY <1>7, <2>1 DEF Grown, GraphInv, PartOk
  <2>2. CASE e \notin new
    <3>1. e \in job.top[k] /\ e \notin grouped
      BY <2>2, GrewTops
    <3>2. e \notin DOMAIN part
      BY <3>1 DEF LiftInv, Parenting
    <3> QED
      BY <1>7, <3>1, <3>2 DEF Grown
  <2> QED
    BY <2>1, <2>2
<1>9. \A e \in DOMAIN nodes' : e[2] < lv2 \/ (job'.step = "action parents" /\ e[1] = "state" /\ e[2] = lv2)
  <2> SUFFICES ASSUME NEW e \in DOMAIN nodes'
               PROVE  e[2] < lv2 \/ (job'.step = "action parents" /\ e[1] = "state" /\ e[2] = lv2)
    OBVIOUS
  <2>1. e[2] \in Nat
    BY DEF NumbersInv, Heights
  <2>2. e[2] < lv \/ (kind = "action" /\ e[2] = lv) \/ (e[1] = kind /\ e[2] = lv)
    <3>1. CASE e \in new
      BY <3>1 DEF GrewNodes
    <3>2. CASE e \notin new
      <4>1. e \in DOMAIN nodes
        BY <3>2 DEF GrewNodes
      <4>2. e[2] < lv \/ (job.step = "action parents" /\ e[1] = "state" /\ e[2] = lv)
        BY <4>1 DEF LiftInv, Parenting
      <4>3. job.step = "action parents" => kind = "action"
        BY DEF Parenting, Kinds
      <4> QED
        BY <4>2, <4>3
    <3> QED
      BY <3>1, <3>2
  <2>3. CASE kind = "state"
    <3>1. lv2 = lv /\ job'.step = "action parents"
      BY <1>3, <2>3
    <3> QED
      BY <2>2, <2>3, <3>1
  <2>4. CASE kind = "action"
    <3>1. lv2 = lv + 1
      BY <1>3, <2>4
    <3>2. e[2] <= lv
      <4> HIDE DEF lv
      <4> QED
        BY <1>1, <2>1, <2>2
    <3>3. e[2] < lv2
      <4> HIDE DEF lv, lv2
      <4> QED
        BY <1>1, <2>1, <3>1, <3>2
    <3> QED
      BY <3>3
  <2> QED
    BY <2>3, <2>4 DEF Kinds
<1>10. Taken(of, top)
  <2>1. Taken(job.of, job.top)
    BY DEF LiftInv, Parenting, Taken
  <2>2. \A t \in DOMAIN observations : job.of[t] \in DOMAIN nodes
    <3>1. \A t \in DOMAIN observations : Kind(t) \in Kinds /\ job.of[t] \in job.top[Kind(t)]
      BY EventShape DEF FirstOf, ClimbInv, Parenting
    <3> QED
      BY <3>1, TopsThere
  <2>3. \A t \in DOMAIN observations : job.of[t] \notin new
    BY <1>7, <2>2 DEF Grown
  <2> QED
    BY <2>1, <2>3, GrewTaken
<1>11. \A r \in DOMAIN rels' : r[1] = 1
  BY DEF LiftInv, Parenting
<1>12. \A k \in Kinds : Apart(job.made[k])
  BY DEF LiftInv, Parenting
<1> HIDE DEF lv, lv2
<1> QED
  BY Zenon, <1>2, <1>4, <1>6, <1>8, <1>9, <1>10, <1>11, <1>12 DEF LiftInv, lv2, Taken


\* The next level has this one below it.
LEMMA GrewMade ==
  ASSUME GraphInv, GraphInv', NumbersInv, StatsInv, MadeInv, UNCHANGED rels,
         NEW kind \in Kinds, Parenting(kind), NEW new, NEW grouped, GrewNodes(kind, new, grouped),
         NEW top, NEW of, Went(kind, top, of), WentTo(kind)
  PROVE  MadeInv' /\ (kind = "action" => job.level \in Levels')
<1>1. /\ \A l \in Levels : l \in Levels'
      /\ job.made[kind] # {} => job.level \in Levels'
  BY GrewNumbers
<1>2. job'.made = job.made
  BY DEF Went
<1>3. \A k \in Kinds : \A g \in job.made[k] : g # {}
  BY DEF MadeInv, Parenting
<1>4. CASE kind = "state"
  <2>1. job'.step = "action parents" /\ job.step = "state parents"
    BY <1>4 DEF Went, Parenting
  <2>2. job'.level = job.level
    BY <1>4 DEF WentTo
  <2>3. job.level > 2 => job.level - 1 \in Levels'
    BY <1>1 DEF MadeInv, Parenting
  <2>4. job.level \in Levels' \/ job.made["action"] # {}
    BY <1>1, <1>4, <2>1 DEF MadeInv, Parenting
  <2>5. job'.step # "state parents"
    BY <2>1
  <2> QED
    BY Zenon, <1>2, <1>3, <1>4, <2>2, <2>3, <2>4, <2>5 DEF MadeInv
<1>5. CASE kind = "action"
  <2>1. job.step = "action parents"
    BY <1>5 DEF Parenting, Lifting
  <2>2. job.level \in Levels'
    BY <1>1, <1>5, <2>1 DEF MadeInv, Parenting
  <2>3. job'.step \in {"group", "state rels"}
    BY <1>5 DEF Went
  <2>4. CASE job'.step = "group"
    <3>1. job'.level = job.level + 1 /\ job.level \in Nat
      BY <1>5, <2>4, TopsThere DEF WentTo
    <3>2. job'.level - 1 = job.level
      BY <3>1
    <3>3. job'.step # "state parents" /\ job'.step # "action parents"
      BY <2>4
    <3> QED
      BY Zenon, <1>2, <1>3, <2>2, <3>2, <3>3 DEF MadeInv
  <2>5. CASE job'.step = "state rels"
    <3>1. ~ Lifting'
      BY <2>5 DEF Lifting
    <3> QED
      BY <2>2, <3>1 DEF MadeInv
  <2> QED
    BY <2>3, <2>4, <2>5
<1> QED
  BY <1>4, <1>5 DEF Kinds

\* After the last level's parents the transitions are lifted.
LEMMA GrewCarry ==
  ASSUME GraphInv, GraphInv', NumbersInv, StatsInv, MadeInv, ClimbInv, LiftInv, BuiltInv', "build" \in done,
         UNCHANGED <<observations, rels, done>>,
         NEW kind \in Kinds, Parenting(kind), NEW new, NEW grouped, GrewNodes(kind, new, grouped),
         NEW top, NEW of, Went(kind, top, of), WentTo(kind), Carrying'
  PROVE  CarryInv'
<1> DEFINE lv == job.level
           past == job.past
           past2 == job'.past
           entry == [top |-> top, of |-> of]
<1>1. kind = "action" /\ job'.step = "state rels"
  <2>1. job'.step \in {"state rels", "action rels"}
    BY DEF Carrying
  <2> QED
    BY <2>1 DEF Went, Kinds
<1>2. job'.level = 2
  <2>1. job'.step # "group"
    BY <1>1
  <2> QED
    BY <1>1, <2>1 DEF WentTo
<1>3. lv \in Nat /\ lv >= 2 /\ Len(past) = lv - 2 /\ past \in Seq(Entries(past))
  BY TopsThere DEF LiftInv, Parenting, ClimbInv
<1>4. Appended(past, entry, past2)
  BY <1>1, <1>3 DEF Went, Appended
<1>5. \A e \in DOMAIN nodes' : e[2] \in Nat /\ (e[2] < lv \/ e[2] = lv)
  <2> SUFFICES ASSUME NEW e \in DOMAIN nodes' PROVE e[2] \in Nat /\ (e[2] < lv \/ e[2] = lv)
    OBVIOUS
  <2>1. CASE e \in new
    BY <1>3, <2>1 DEF GrewNodes
  <2>2. CASE e \notin new
    <3>1. e \in DOMAIN nodes
      BY <2>2 DEF GrewNodes
    <3> QED
      BY <3>1 DEF LiftInv, Parenting, NumbersInv, Heights
  <2> QED
    BY <2>1, <2>2
<1>6. lv \in Levels'
  BY <1>1, GrewMade
<1>7. \A r \in DOMAIN rels' : r[1] = 1
  BY DEF LiftInv, Parenting
<1> HIDE DEF lv, past, past2, entry
<1>8. Len(past2) = Len(past) + 1
  BY <1>4, PastGrows
<1>9. Len(past2) \in Nat /\ Len(past2) + 1 = lv
  BY <1>3, <1>8
<1>10. PICK n \in Nat : n = Len(past2)
  BY <1>9
<1>11. \A e \in DOMAIN nodes' : e[2] <= n + 1
  BY <1>3, <1>5, <1>9, <1>10
<1>12. n > 0 => n + 1 \in Levels'
  BY <1>6, <1>9, <1>10
<1>13. CarryFrom(n)'
  BY Zenon, <1>1, <1>2, <1>7, <1>10, <1>11, <1>12 DEF CarryFrom, past2
<1>14. NumbersInv'
  BY GrewNumbers
<1> QED
  BY <1>13, <1>14, CarryStarts

LEMMA ParentsStep ==
  ASSUME TurnsInv, GraphInv, GraphInv', NEW kind \in Kinds, NEW step, ParentsOrder(kind, step), Parents(kind, step)
  PROVE  TurnsInv'
<1>1. FilesInv /\ GraphTold /\ StageInv
  BY TurnsParts
<1>2. /\ job.stage = "abstract" /\ job.step = step
      /\ UNCHANGED <<annotations, observations, outcomes, types, rels, left, done>>
  BY DEF Parents
<1>3. Parenting(kind)
  BY <1>2 DEF Parenting, ParentsOrder, Lifting
<1>4. PICK new, grouped, top, of :
        GrewNodes(kind, new, grouped) /\ GrewTurns(kind, new, grouped, top, of) /\ Went(kind, top, of) /\ WentTo(kind)
  BY ParentsGrow
<1>5. /\ observations # Nil /\ DOMAIN job.of = DOMAIN observations
      /\ "absorb" \notin done /\ "abstract" \notin done
  BY <1>1, <1>2, <1>3 DEF FilesInv, StageInv, UndoneInv, Parenting, Lifting
<1>6. NumbersInv /\ StatsInv /\ BuiltInv /\ MadeInv /\ ClimbInv /\ LiftInv
  BY <1>1 DEF GraphTold, StageInv
<1>7. NumbersInv' /\ StatsInv'
  BY <1>2, <1>3, <1>4, <1>6, GrewNumbers
<1>8. BuiltInv'
  BY <1>2, <1>3, <1>4, <1>5, <1>6, <1>7, GrewBuilt
<1>9. GraphTold'
  BY <1>2, <1>5, <1>7, <1>8 DEF GraphTold, AbsorbedInv
<1>10. /\ job'.stage = "abstract" /\ "stage" \in DOMAIN job' /\ job'.of = of /\ DOMAIN of = DOMAIN observations
       /\ job'.step \in {"group", "action parents", "state rels"}
  BY <1>4, <1>5 DEF Went, GrewTurns, Kinds
<1>11. FilesInv'
  BY <1>1, <1>2, <1>5, <1>10 DEF FilesInv, Lifting, Carrying, Stages
<1>12. ClimbInv'
  BY <1>1, <1>2, <1>3, <1>4, <1>5, <1>6, <1>7, GrewClimb
<1>13. MadeInv'
  BY <1>2, <1>3, <1>4, <1>6, GrewMade
<1>14. BuildInv' /\ AbsorbInv' /\ UndoneInv'
  BY <1>2, <1>5, <1>10 DEF BuildInv, AbsorbInv, Absorbing, UndoneInv
<1>15. LiftInv' /\ CarryInv'
  <2>1. CASE "build" \notin done
    BY <1>2, <2>1 DEF LiftInv, CarryInv
  <2>2. CASE "build" \in done
    <3>1. FirstOf(observations)
      BY <1>6, <2>2 DEF BuiltInv
    <3>2. Lifting' => LiftInv'
      BY <1>2, <1>3, <1>4, <1>5, <1>6, <1>7, <2>2, <3>1, GrewLift
    <3>3. Carrying' => CarryInv'
      BY <1>2, <1>3, <1>4, <1>5, <1>6, <1>8, <2>2, GrewCarry
    <3>4. ~ Lifting' => LiftInv'
      BY DEF LiftInv
    <3>5. ~ Carrying' => CarryInv'
      BY DEF CarryInv
    <3> QED
      BY <3>2, <3>3, <3>4, <3>5
  <2> QED
    BY <2>1, <2>2
<1> QED
  BY <1>9, <1>11, <1>12, <1>13, <1>14, <1>15, TurnsParts DEF TurnsInv, GraphTold, StageInv


-----------------------------------------------------------------------------
(* abstract: the transitions *)

TransOrder(kind, step) ==
  (kind = "state" /\ step = "state rels") \/ (kind = "action" /\ step = "action rels")
\* What the transitions of a kind write, `of` the turns' elements at the level.
LiftsAt(kind, of, pairs, new) ==
  /\ job.level - 1 \in DOMAIN job.past /\ of = job.past[job.level - 1].of
  /\ DOMAIN of = DOMAIN observations
  /\ pairs = {p \in Lifted(DOMAIN of, of) : p[1] \in job.past[job.level - 1].top[kind]}
  /\ Put(job.level, pairs, DOMAIN of, of, new)
\* And where the stage goes on.
WentOn(kind) ==
  /\ job'.stage = "abstract" /\ job'.of = job.of /\ job'.past = job.past /\ job'.top = job.top /\ "stage" \in DOMAIN job'
  /\ kind = "state" => job'.step = "action rels"
  /\ kind = "action" => job'.step = "state rels"
WentUp(kind) == job'.level = IF kind = "state" THEN job.level ELSE job.level + 1

LEMMA TransitionsLift ==
  ASSUME TurnsInv, GraphInv, NEW kind \in Kinds, NEW step, TransOrder(kind, step), Transitions(kind, step)
  PROVE  /\ \E of, pairs, new : LiftsAt(kind, of, pairs, new)
         /\ WentOn(kind) /\ WentUp(kind) /\ job.level \in Nat /\ job.level >= 2
<1> DEFINE at == job.past[job.level - 1]
           of == at.of
           rows == DOMAIN of
           pairs == {p \in Lifted(rows, of) : p[1] \in at.top[kind]}
           number == [p \in pairs |-> Num(rows, of, p[1], p[2])]
<1>1. /\ job.stage = "abstract" /\ job.step = step /\ job.level - 1 \in DOMAIN job.past
      /\ rels' = Created(job.level, pairs, number)
      /\ job' = IF kind = "state" THEN [job EXCEPT !.step = "action rels"]
                ELSE [job EXCEPT !.step = "state rels", !.level = @ + 1]
  BY DEF Transitions
<1>2. /\ DOMAIN job = {"stage", "step", "level", "top", "of", "stop", "made", "past"}
      /\ job.level \in Nat /\ job.level >= 2
  BY <1>1 DEF GraphInv, AbstractOk, Climbing, TransOrder
<1>3. ASSUME kind = "state" PROVE WentOn(kind) /\ WentUp(kind)
  <2>1. job' = [job EXCEPT !.step = "action rels"]
    BY <1>1, <1>3
  <2>2. WentOn(kind)
    BY <1>1, <1>2, <1>3, <2>1 DEF WentOn
  <2>3. job'.level = job.level
    BY <1>2, <2>1
  <2> QED
    BY Zenon, <1>3, <2>2, <2>3 DEF WentUp
<1>4. ASSUME kind = "action" PROVE WentOn(kind) /\ WentUp(kind)
  <2>1. job' = [job EXCEPT !.step = "state rels", !.level = @ + 1]
    BY <1>1, <1>4
  <2>2. WentOn(kind)
    BY <1>1, <1>2, <1>4, <2>1 DEF WentOn
  <2>3. job'.level = job.level + 1
    BY <1>2, <2>1
  <2> QED
    BY Zenon, <1>4, <2>2, <2>3 DEF WentUp
<1>5. WentOn(kind) /\ WentUp(kind)
  BY <1>3, <1>4 DEF Kinds
<1>6. DOMAIN of = DOMAIN observations
  <2>1. Carrying
    BY <1>1 DEF Carrying, TransOrder
  <2> QED
    BY <1>1, <2>1 DEF TurnsInv, ClimbInv
<1>7. \E new : Put(job.level, pairs, rows, of, new)
  <2>1. pairs \subseteq Lifted(rows, of)
    OBVIOUS
  <2>2. number = [p \in pairs |-> Num(rows, of, p[1], p[2])]
    OBVIOUS
  <2> HIDE DEF pairs, number, rows, of
  <2> QED
    BY <1>1, <2>1, <2>2, CreatedPuts
<1>8. \E o, q, new : LiftsAt(kind, o, q, new)
  <2> PICK new : Put(job.level, pairs, rows, of, new)
    BY <1>7
  <2>1. LiftsAt(kind, of, pairs, new)
    BY <1>1, <1>6 DEF LiftsAt
  <2> QED
    BY <2>1
<1> QED
  BY <1>2, <1>5, <1>8

LEMMA LiftsNumbers ==
  ASSUME NumbersInv, observations # Nil => FirstOf(observations), observations # Nil, UNCHANGED nodes,
         NEW kind, NEW of, NEW pairs, NEW new, LiftsAt(kind, of, pairs, new),
         job.level \in Nat, job.level >= 2
  PROVE  NumbersInv'
<1> DEFINE rows == DOMAIN of
<1>1. rows \in SUBSET Events
  BY DEF LiftsAt, FirstOf
<1>2. Put(job.level, pairs, rows, of, new)
  BY DEF LiftsAt
<1> HIDE DEF rows
<1>3. ASSUME NEW r \in DOMAIN rels'
      PROVE  r = <<r[1], r[2], r[3]>> /\ r[1] \in Heights /\ rels'[r].num \in Nat /\ rels'[r].good \in Nat \cup {Nil}
  <2>0. \A q \in DOMAIN rels :
          q = <<q[1], q[2], q[3]>> /\ q[1] \in Heights /\ rels[q].num \in Nat /\ rels[q].good \in Nat \cup {Nil}
    BY DEF NumbersInv
  <2>1. CASE r \in new
    <3>1. /\ r = <<job.level, r[2], r[3]>>
          /\ rels'[r].num = Num(rows, of, r[2], r[3]) + (IF r \in DOMAIN rels THEN rels[r].num ELSE 0)
          /\ rels'[r].good = IF r \in DOMAIN rels THEN rels[r].good ELSE Nil
      BY <1>2, <2>1 DEF Put
    <3>2. r[1] = job.level
      BY <3>1
    <3>3. Num(rows, of, r[2], r[3]) \in Nat
      BY <1>1, NumNat
    <3>4. rels'[r].num \in Nat
      BY <2>0, <3>1, <3>3
    <3>5. rels'[r].good \in Nat \cup {Nil}
      BY <2>0, <3>1
    <3>6. r[1] \in Heights
      BY <3>2 DEF Heights
    <3> QED
      BY <3>1, <3>2, <3>4, <3>5, <3>6
  <2>2. CASE r \notin new
    <3>1. r \in DOMAIN rels /\ rels'[r] = rels[r]
      BY <1>2, <2>2 DEF Put
    <3> QED
      BY <2>0, <3>1
  <2> QED
    BY <2>1, <2>2
<1> QED
  BY <1>3 DEF NumbersInv, Levels, LevelOf

\* In a build's graph a level's transitions are new, and what they say is
\* where its turns stand.
LiftsNew(kind, new) ==
  /\ DOMAIN rels' = DOMAIN rels \cup new /\ \A r \in DOMAIN rels : r \notin new /\ rels'[r] = rels[r]
  /\ \A r \in new : /\ r[1] = job.level /\ r[2][1] = kind /\ rels'[r].good = Nil
                    /\ FitsBy(rels', Stood(job.level), r)
  /\ \A p \in Pairs(DOMAIN observations) : Kind(p[1]) = kind =>
       <<job.level, Stood(job.level)[p[1]], Stood(job.level)[p[2]]>> \in new

LEMMA LiftsBuilt ==
  ASSUME TurnsInv, GraphInv, "build" \in done, NEW kind \in Kinds, NEW step, TransOrder(kind, step),
         Carrying, job.step = step, NEW of, NEW pairs, NEW new, LiftsAt(kind, of, pairs, new),
         job.level \in Nat, job.level >= 2
  PROVE  LiftsNew(kind, new)
<1> DEFINE at == job.past[job.level - 1]
           rows == DOMAIN observations
<1>1. /\ WalkOk(nodes, part) /\ FirstOf(observations) /\ Holds(nodes, rels, part, observations)
  BY GraphWalks DEF TurnsInv, BuiltInv
<1>2. PastOk(job.level - 1) /\ job.level - 1 \in DOMAIN job.past
  BY DEF TurnsInv, ClimbInv, LiftsAt
<1>3. job.level - 1 + 1 = job.level /\ job.level \in Heights
  BY DEF Heights
<1>4. /\ of = Stood(job.level) /\ \A t \in rows : of[t] \in at.top[Kind(t)]
      /\ \A k \in Kinds : \A e \in at.top[k] : e[1] = k
  BY <1>2, <1>3 DEF PastOk, LiftsAt
<1>5. /\ Put(job.level, pairs, rows, of, new)
      /\ pairs = {p \in Lifted(rows, of) : p[1] \in at.top[kind]}
  BY DEF LiftsAt
<1>6. rows \in SUBSET Events /\ \A t \in rows : of[t] \in DOMAIN nodes
  BY <1>1, <1>3, <1>4, StoodShape DEF Stood
<1> HIDE DEF at, rows
<1>7. ASSUME NEW r \in new
      PROVE  /\ r = <<job.level, r[2], r[3]>> /\ r[1] = job.level /\ r[2][1] = kind /\ r \notin DOMAIN rels
             /\ \E p \in Pairs(rows) : r[2] = of[p[1]] /\ r[3] = of[p[2]]
             /\ rels'[r].num = Num(rows, of, r[2], r[3]) /\ rels'[r].good = Nil
  <2> DEFINE q == <<r[2], r[3]>>
  <2>1. r = <<job.level, r[2], r[3]>> /\ q \in pairs
    BY <1>5 DEF Put
  <2>2. q[1] = r[2] /\ q[2] = r[3]
    OBVIOUS
  <2> HIDE DEF q
  <2>3. q \in Lifted(rows, of) /\ r[2] \in at.top[kind] /\ r[2][1] = kind
    BY <1>4, <1>5, <2>1, <2>2
  <2>4. PICK p \in Pairs(rows) : q = <<of[p[1]], of[p[2]]>>
    BY <2>3 DEF Lifted
  <2>5. r[2] = of[p[1]] /\ r[3] = of[p[2]]
    BY <2>2, <2>4
  <2>6. r[1] = job.level
    BY <2>1
  <2>7. r \notin DOMAIN rels
    <3> SUFFICES ASSUME r \in DOMAIN rels PROVE FALSE
      OBVIOUS
    <3>1. r[1] < job.level \/ (r[1] = job.level /\ job.step = "action rels" /\ r[2][1] = "state")
      BY DEF TurnsInv, CarryInv
    <3>2. ~ (r[1] < job.level)
      BY <2>6
    <3> QED
      BY <2>3, <3>1, <3>2 DEF TransOrder
  <2>8. Num(rows, of, r[2], r[3]) \in Nat
    BY <1>6, NumNat
  <2>9. /\ rels'[r].num = Num(rows, of, r[2], r[3]) + (IF r \in DOMAIN rels THEN rels[r].num ELSE 0)
        /\ rels'[r].good = IF r \in DOMAIN rels THEN rels[r].good ELSE Nil
    BY <1>5 DEF Put
  <2> QED
    BY <2>1, <2>3, <2>5, <2>6, <2>7, <2>8, <2>9
<1>8. ASSUME NEW r \in new PROVE FitsBy(rels', Stood(job.level), r)
  <2>1. DOMAIN of = rows
    BY DEF LiftsAt, rows
  <2>2. FitsBy(rels', of, r)
    BY <1>7, <2>1 DEF FitsBy
  <2> QED
    BY <1>4, <2>2
<1>9. ASSUME NEW p \in Pairs(rows), Kind(p[1]) = kind
      PROVE  <<job.level, of[p[1]], of[p[2]]>> \in new
  <2> DEFINE q == <<of[p[1]], of[p[2]]>>
  <2>1. p[1] \in rows /\ p[2] \in rows
    BY PairShape
  <2>2. q \in Lifted(rows, of) /\ q[1] = of[p[1]] /\ q[2] = of[p[2]]
    BY DEF Lifted
  <2> HIDE DEF q
  <2>3. q \in pairs
    BY <1>4, <1>5, <1>9, <2>1, <2>2
  <2>4. <<job.level, q[1], q[2]>> \in new
    BY <1>5, <1>6, <2>1, <2>2, <2>3 DEF Put
  <2> QED
    BY <2>2, <2>4
<1>10. DOMAIN rels' = DOMAIN rels \cup new /\ \A r \in DOMAIN rels : r \notin new => rels'[r] = rels[r]
  BY <1>5 DEF Put
<1> QED
  BY <1>4, <1>7, <1>8, <1>9, <1>10 DEF LiftsNew, rows


LEMMA LiftsHold ==
  ASSUME TurnsInv, GraphInv, "build" \in done, NEW kind \in Kinds, NEW new, LiftsNew(kind, new),
         UNCHANGED <<nodes, part, observations>>
  PROVE  /\ \A r \in DOMAIN rels : FitsBy(rels, Stood(r[1]), r) => FitsBy(rels', Stood(r[1])', r)
         /\ \A r \in new : FitsBy(rels', Stood(r[1])', r)
         /\ \A l, at : CompleteBy(rels, at, l) => CompleteBy(rels', at, l)
<1>1. \A l : Stood(l)' = Stood(l)
  BY DEF Stood
<1>2. \A r \in DOMAIN rels : rels'[r] = rels[r] /\ r \in DOMAIN rels'
  BY DEF LiftsNew
<1>3. \A r \in DOMAIN rels : FitsBy(rels, Stood(r[1]), r) => FitsBy(rels', Stood(r[1])', r)
  BY <1>1, <1>2 DEF FitsBy
<1>4. \A r \in new : FitsBy(rels', Stood(r[1])', r)
  BY <1>1 DEF LiftsNew
<1>5. \A l, at : CompleteBy(rels, at, l) => CompleteBy(rels', at, l)
  BY <1>2 DEF CompleteBy
<1> QED
  BY <1>3, <1>4, <1>5

LEMMA LiftsCarry ==
  ASSUME TurnsInv, GraphInv, "build" \in done, NEW kind \in Kinds, NEW step, TransOrder(kind, step),
         Carrying, job.step = step, NEW of, NEW pairs, NEW new, LiftsAt(kind, of, pairs, new),
         LiftsNew(kind, new), WentOn(kind), WentUp(kind),
         job.level \in Nat, job.level >= 2, UNCHANGED <<nodes, part, observations, done>>
  PROVE  BuiltInv' /\ CarryInv'
<1>1. /\ FirstOf(observations) /\ Holds(nodes, rels, part, observations)
      /\ "abstract" \notin done
  BY DEF TurnsInv, BuiltInv, UndoneInv, Carrying
<1>2. CarryInv /\ ClimbInv /\ FilesInv
  BY DEF TurnsInv
<1>3. \A l : Stood(l)' = Stood(l)
  BY DEF Stood
<1>4. ASSUME NEW r \in DOMAIN rels' PROVE FitsBy(rels', Stood(r[1])', r)
  <2>1. CASE r \in DOMAIN rels
    BY <1>2, <2>1, LiftsHold DEF CarryInv
  <2>2. CASE r \in new
    BY <2>2, LiftsHold
  <2> QED
    BY <2>1, <2>2 DEF LiftsNew
<1>5. \A l, at : CompleteBy(rels, at, l) => CompleteBy(rels', at, l)
  BY LiftsHold
<1>6. BuiltInv'
  <2>1. \A r \in DOMAIN rels' : rels'[r].good # Nil => rels'[r].good <= rels'[r].num
    BY <1>1 DEF Holds, LiftsNew
  <2>2. \A r \in DOMAIN rels' : r[1] \in HeightsOf(nodes) => FitsBy(rels', StoodIn(nodes, part, observations, r[1]), r)
    BY <1>3, <1>4 DEF Stood
  <2>3. Holds(nodes, rels', part, observations)
    BY <1>1, <1>5, <2>1, <2>2 DEF Holds
  <2> QED
    BY <1>1, <2>3 DEF BuiltInv
<1> DEFINE lv == job.level
           n == Len(job.past)
<1>7. n \in Nat /\ DOMAIN job.past = 1 .. n
  BY <1>2, LenProperties DEF ClimbInv
<1>8. lv \in Nat /\ lv >= 2 /\ lv - 1 \in 1 .. n /\ lv \in Heights
  BY <1>7 DEF LiftsAt, Heights
<1>9. \A r \in DOMAIN rels : r[1] < lv \/ (r[1] = lv /\ job.step = "action rels" /\ r[2][1] = "state")
  BY <1>2 DEF CarryInv
<1>10. \A r \in new : r[1] = lv /\ r[2][1] = kind
  BY DEF LiftsNew
<1>11. \A l \in Heights : l < lv => CompleteBy(rels', Stood(l)', l)
  BY <1>2, <1>3, <1>5 DEF CarryInv
<1>12. \A p \in Pairs(DOMAIN observations) : Kind(p[1]) = kind =>
         <<lv, Stood(lv)[p[1]], Stood(lv)[p[2]]>> \in DOMAIN rels'
  BY DEF LiftsNew
<1>13. /\ \A e \in DOMAIN nodes' : e[2] <= Len(job'.past) + 1
       /\ \A l \in Heights : l > 1 /\ l <= Len(job'.past) + 1 => l \in Levels'
  BY <1>2 DEF CarryInv, Levels, LevelOf, WentOn
<1>14. job'.past = job.past
  BY DEF WentOn
<1>15. DOMAIN rels' = DOMAIN rels \cup new
  BY DEF LiftsNew
<1> HIDE DEF lv, n
<1>16. CASE kind = "state"
  <2>1. job'.step = "action rels" /\ job'.level = lv
    BY <1>16 DEF WentOn, WentUp, lv
  <2>2. lv <= Len(job'.past) + 2 /\ lv - 1 \in DOMAIN job'.past
    BY <1>7, <1>8, <1>14 DEF n
  <2>3. \A r \in DOMAIN rels' : r[1] < lv \/ (r[1] = lv /\ job'.step = "action rels" /\ r[2][1] = "state")
    <3>1. job.step # "action rels"
      BY <1>16 DEF TransOrder
    <3>2. \A r \in DOMAIN rels : r[1] < lv
      BY <1>9, <3>1
    <3> QED
      BY <1>10, <1>15, <1>16, <2>1, <3>2
  <2>5. PICK m \in Nat : m = lv
    BY <1>8
  <2>6. \A p \in Pairs(DOMAIN observations') : Kind(p[1]) = "state" =>
          <<job'.level, Stood(job.level)'[p[1]], Stood(job.level)'[p[2]]>> \in DOMAIN rels'
    <3>1. Stood(job.level)' = StoodIn(nodes', part', observations', job'.level)
      BY DEF Stood
    <3>2. Stood(m)' = StoodIn(nodes', part', observations', m)
      BY DEF Stood
    <3>3. Stood(job.level)' = Stood(lv)
      BY <1>3, <2>1, <2>5, <3>1, <3>2
    <3> QED
      BY <1>12, <1>16, <2>1, <3>3
  <2> QED
    BY Zenon, <1>4, <1>6, <1>11, <1>13, <2>1, <2>2, <2>3, <2>6 DEF CarryInv
<1>17. CASE kind = "action"
  <2>1. job'.step = "state rels"
    BY <1>17 DEF WentOn
  <2>2. job'.level = lv + 1
    <3>1. kind # "state"
      BY <1>17
    <3> QED
      BY <3>1, Zenon DEF WentUp, lv
  <2>3. lv + 1 <= Len(job'.past) + 2
    BY <1>7, <1>8, <1>14 DEF n
  <2>4. \A r \in DOMAIN rels' : r[1] < lv + 1
    <3>1. \A r \in DOMAIN rels : r[1] \in Nat
      BY DEF TurnsInv, NumbersInv, Heights
    <3>2. \A r \in DOMAIN rels : r[1] < lv \/ r[1] = lv
      BY <1>9
    <3>3. \A r \in new : r[1] = lv
      BY <1>10
    <3> QED
      BY <1>8, <1>15, <3>1, <3>2, <3>3
  <2>5. CompleteBy(rels', Stood(lv), lv)
    <3> SUFFICES ASSUME NEW p \in Pairs(DOMAIN Stood(lv))
                 PROVE  <<lv, Stood(lv)[p[1]], Stood(lv)[p[2]]>> \in DOMAIN rels'
      BY DEF CompleteBy
    <3>1. DOMAIN Stood(lv) = DOMAIN observations
      BY DEF Stood, StoodIn
    <3>2. p[1] \in DOMAIN observations /\ DOMAIN observations \subseteq Events
      BY <1>1, <3>1, PairShape DEF FirstOf
    <3>3. Kind(p[1]) \in Kinds
      BY <3>2, EventShape
    <3>4. CASE Kind(p[1]) = "state"
      <4>1. job.step = "action rels"
        BY <1>17 DEF TransOrder
      <4> QED
        BY <1>2, <1>15, <3>1, <3>4, <4>1 DEF CarryInv, lv
    <3>5. CASE Kind(p[1]) = "action"
      BY <1>12, <1>17, <3>1, <3>5
    <3> QED
      BY <3>3, <3>4, <3>5 DEF Kinds
  <2>6. \A l \in Heights : l < lv + 1 => CompleteBy(rels', Stood(l)', l)
    <3>1. \A l \in Heights : l < lv + 1 => l < lv \/ l = lv
      BY <1>8 DEF Heights
    <3> QED
      BY <1>3, <1>11, <2>5, <3>1
  <2>7. job'.step # "action rels"
    BY <2>1
  <2> QED
    BY Zenon, <1>4, <1>6, <1>13, <2>2, <2>3, <2>4, <2>6, <2>7 DEF CarryInv
<1> QED
  BY <1>16, <1>17 DEF Kinds

LEMMA TransitionsStep ==
  ASSUME TurnsInv, GraphInv, NEW kind \in Kinds, NEW step, TransOrder(kind, step), Transitions(kind, step)
  PROVE  TurnsInv'
<1>1. /\ job.stage = "abstract" /\ job.step = step
      /\ UNCHANGED <<annotations, observations, outcomes, types, nodes, part, left, done>>
  BY DEF Transitions
<1>2. PICK of, pairs, new : LiftsAt(kind, of, pairs, new)
  BY TransitionsLift
<1>3. WentOn(kind) /\ WentUp(kind) /\ job.level \in Nat /\ job.level >= 2
  BY TransitionsLift
<1>4. FilesInv /\ GraphTold /\ StageInv
  BY TurnsParts
<1>5. Carrying
  BY <1>1 DEF Carrying, TransOrder
<1>6. job'.step \in {"state rels", "action rels"} /\ job'.stage = "abstract" /\ "stage" \in DOMAIN job'
      /\ job'.of = job.of /\ job'.past = job.past /\ job'.top = job.top
  BY <1>3 DEF WentOn, Kinds
<1>7. /\ observations # Nil /\ DOMAIN job.of = DOMAIN observations
      /\ "absorb" \notin done /\ "abstract" \notin done
  BY <1>1, <1>4, <1>5 DEF FilesInv, StageInv, UndoneInv, Carrying
<1>8. FilesInv'
  BY <1>1, <1>4, <1>6, <1>7 DEF FilesInv, Lifting, Carrying, Stages
<1>9. NumbersInv' /\ StatsInv'
  <2>1. NumbersInv /\ StatsInv /\ (observations # Nil => FirstOf(observations))
    BY <1>4 DEF GraphTold, FilesInv
  <2>2. NumbersInv'
    BY <1>1, <1>2, <1>3, <1>7, <2>1, LiftsNumbers
  <2> QED
    BY <1>1, <2>1, <2>2 DEF StatsInv
<1>10. BuiltInv' /\ CarryInv'
  <2>1. CASE "build" \notin done
    BY <1>1, <2>1 DEF BuiltInv, CarryInv
  <2>2. CASE "build" \in done
    <3>1. LiftsNew(kind, new)
      BY <1>1, <1>2, <1>3, <1>5, <2>2, LiftsBuilt
    <3> QED
      BY <1>1, <1>2, <1>3, <1>5, <2>2, <3>1, LiftsCarry
  <2> QED
    BY <2>1, <2>2
<1>11. ClimbInv'
  <2>1. \A i : PastOk(i) => PastOk(i)'
    BY <1>1, <1>6 DEF PastOk, Stood
  <2> QED
    BY <1>1, <1>4, <1>5, <1>6, <2>1 DEF StageInv, ClimbInv
<1>12. ~ Lifting'
  BY <1>6 DEF Lifting
<1>13. MadeInv' /\ LiftInv'
  BY <1>12 DEF MadeInv, LiftInv
<1>14. BuildInv' /\ AbsorbInv' /\ UndoneInv' /\ AbsorbedInv'
  BY <1>1, <1>6, <1>7 DEF BuildInv, AbsorbInv, Absorbing, UndoneInv, AbsorbedInv
<1> QED
  BY <1>8, <1>9, <1>10, <1>11, <1>13, <1>14 DEF TurnsInv

\* Every level's transitions are there.
LEMMA AbstractEndStep ==
  ASSUME TurnsInv, GraphInv, AbstractEnd
  PROVE  TurnsInv'
<1>1. /\ job.stage = "abstract" /\ job.step = "state rels" /\ job.level - 1 \notin DOMAIN job.past
      /\ job' = Idle /\ done' = done \cup {"abstract"}
      /\ UNCHANGED <<annotations, observations, outcomes, types, nodes, rels, part, left>>
  BY DEF AbstractEnd
<1>2. FilesInv /\ GraphTold /\ StageInv
  BY TurnsParts
<1>3. Carrying /\ job.level \in Nat /\ job.level >= 2
  BY <1>1 DEF Carrying, GraphInv, AbstractOk, Climbing
<1>4. StageInv'
  BY <1>1, StageQuiet DEF Idle
<1>5. FilesInv'
  BY <1>1, <1>2 DEF FilesInv, Idle, Stages
<1>6. "absorb" \notin done
  BY <1>1, <1>2 DEF StageInv, UndoneInv
<1>7. BuiltInv'
  <2>1. CASE "build" \notin done
    BY <1>1, <2>1 DEF BuiltInv
  <2>2. CASE "build" \in done
    <3> DEFINE lv == job.level
               n == Len(job.past)
    <3>1. n \in Nat /\ DOMAIN job.past = 1 .. n
      BY <1>2, <1>3, LenProperties DEF StageInv, ClimbInv
    <3>2. /\ lv <= n + 2 /\ \A e \in DOMAIN nodes : e[2] <= n + 1
          /\ \A l \in Heights : l > 1 /\ l <= n + 1 => l \in Levels
          /\ \A l \in Heights : l < lv => CompleteBy(rels, Stood(l), l)
          /\ \A r \in DOMAIN rels : FitsBy(rels, Stood(r[1]), r)
      BY <1>2, <1>3, <2>2 DEF StageInv, CarryInv
    <3>3. \A r \in DOMAIN rels : r[1] < lv
      BY <1>1, <1>2, <1>3, <2>2 DEF StageInv, CarryInv
    <3>4. lv \in Nat /\ lv >= 2 /\ lv - 1 \notin 1 .. n
      BY <1>1, <1>3, <3>1
    <3> HIDE DEF lv, n
    <3>5. lv = n + 2
      BY <3>1, <3>2, <3>4
    <3>6. HeightsOf(nodes) = Levels
      BY DEF HeightsOf, Levels, LevelOf
    <3>7. \A l \in HeightsOf(nodes) : l \in Heights /\ l < lv
      <4> SUFFICES ASSUME NEW e \in DOMAIN nodes PROVE nodes[e].level \in Heights /\ nodes[e].level < lv
        BY DEF HeightsOf
      <4>1. nodes[e].level = e[2] /\ e[2] \in Heights /\ e[2] <= n + 1
        BY <1>2, <3>2 DEF GraphInv, NodesOk, GraphTold, NumbersInv
      <4> QED
        BY <3>1, <3>5, <4>1 DEF Heights
    <3>8. \A l \in HeightsOf(nodes) : CompleteBy(rels, StoodIn(nodes, part, observations, l), l)
      BY <3>2, <3>7 DEF Stood
    <3>9. \A r \in DOMAIN rels : r[1] \in HeightsOf(nodes)
      <4> SUFFICES ASSUME NEW r \in DOMAIN rels PROVE r[1] \in HeightsOf(nodes)
        OBVIOUS
      <4>1. r[1] \in Heights /\ r[1] < lv
        BY <1>2, <3>3 DEF GraphTold, NumbersInv
      <4>2. r[1] = 1 \/ (r[1] > 1 /\ r[1] <= n + 1)
        BY <3>1, <3>5, <4>1 DEF Heights
      <4>3. CASE r[1] = 1
        <5>1. r[2] \in DOMAIN nodes /\ r[2][2] = 1
          BY <4>3 DEF GraphInv, RelsOk
        <5>2. nodes[r[2]].level = 1
          BY <5>1 DEF GraphInv, NodesOk
        <5> QED
          BY <4>3, <5>1, <5>2 DEF HeightsOf
      <4>4. CASE r[1] > 1 /\ r[1] <= n + 1
        BY <3>2, <3>6, <4>1, <4>4
      <4> QED
        BY <4>2, <4>3, <4>4
    <3>10. Carried(nodes, rels, part, observations)
      BY <3>8, <3>9 DEF Carried
    <3> QED
      BY <1>1, <1>2, <2>2, <3>10 DEF GraphTold, BuiltInv
  <2> QED
    BY <2>1, <2>2
<1>8. GraphTold'
  BY <1>1, <1>2, <1>6, <1>7 DEF GraphTold, NumbersInv, StatsInv, AbsorbedInv, Levels, LevelOf
<1> QED
  BY <1>4, <1>5, <1>8, TurnsParts DEF TurnsInv, GraphTold, StageInv


-----------------------------------------------------------------------------
(* absorb *)

\* Two graphs' nodes that differ in what the absorption writes.
Alike(N, N2) ==
  /\ DOMAIN N2 = DOMAIN N
  /\ \A e \in DOMAIN N : N2[e].level = N[e].level /\ N2[e].count = N[e].count /\ N2[e].ends = N[e].ends
LEMMA WalkAlike ==
  ASSUME NEW N, NEW N2, NEW P, WalkOk(N, P), Alike(N, N2), NEW level \in Nat, NEW x \in DOMAIN N
  PROVE  Walk(N2, P, level)[x] = Walk(N, P, level)[x]
<1>1. WalkOk(N2, P)
  BY DEF WalkOk, Alike
<1>2. \A y \in DOMAIN N : Goes(N2, P, level, y) <=> Goes(N, P, level, y)
  BY DEF Goes, WalkOk, Alike
<1> DEFINE h == Walk(N2, P, level)
<1>3. \A y \in DOMAIN N : h[y] = IF Goes(N, P, level, y) THEN h[P[y]] ELSE y
  BY <1>1, <1>2, WalkStep DEF Alike
<1> HIDE DEF h
<1>4. \A y \in DOMAIN N : Walk(N, P, level)[y] = h[y]
  BY <1>3, WalkIs
<1> QED
  BY <1>4 DEF h

LEMMA StoodAlike ==
  ASSUME NEW N, NEW N2, NEW P, WalkOk(N, P), Alike(N, N2), NEW level \in Nat,
         NEW of, \A t \in DOMAIN of : of[t] \in DOMAIN N
  PROVE  StoodIn(N2, P, of, level) = StoodIn(N, P, of, level)
<1>1. \A t \in DOMAIN of : Walk(N2, P, level)[of[t]] = Walk(N, P, level)[of[t]]
  BY WalkAlike
<1> QED
  BY <1>1 DEF StoodIn

\* Two graphs' relationships that differ so.
AlikeRels(R, R2) == DOMAIN R2 = DOMAIN R /\ \A r \in DOMAIN R : R2[r].num = R[r].num
Fewer(R) == \A r \in DOMAIN R : R[r].good # Nil => R[r].good <= R[r].num

Raised(N) == \A e \in DOMAIN N : e[2] \in Heights

LEMMA HoldsAlike ==
  ASSUME NEW N, NEW N2, NEW P, NEW R, NEW R2, NEW of, WalkOk(N, P), Raised(N),
         Alike(N, N2), AlikeRels(R, R2), Fewer(R2), Holds(N, R, P, of)
  PROVE  /\ Holds(N2, R2, P, of) /\ (Carried(N, R, P, of) => Carried(N2, R2, P, of))
         /\ \A l \in Heights : StoodIn(N2, P, of, l) = StoodIn(N, P, of, l)
<1>1. \A t \in DOMAIN of : of[t] \in DOMAIN N
  BY DEF Holds
<1>2. ASSUME NEW l \in Heights PROVE StoodIn(N2, P, of, l) = StoodIn(N, P, of, l)
  <2>1. l \in Nat
    BY DEF Heights
  <2> QED
    BY <1>1, <2>1, StoodAlike
<1>3. HeightsOf(N2) = HeightsOf(N)
  BY DEF HeightsOf, Alike
<1>4. \A l \in HeightsOf(N) : l \in Heights
  BY DEF HeightsOf, WalkOk, Raised
<1>5. ASSUME NEW l \in Heights PROVE CountedBy(N2, StoodIn(N2, P, of, l))
  <2> DEFINE at == StoodIn(N, P, of, l)
  <2>1. CountedBy(N, at)
    BY DEF Holds
  <2>2. DOMAIN at = DOMAIN of /\ \A t \in DOMAIN of : at[t] = Walk(N, P, l)[of[t]]
    BY DEF StoodIn
  <2>3. \A t \in DOMAIN of : at[t] \in DOMAIN N
    <3>1. l \in Nat
      BY DEF Heights
    <3> QED
      BY <1>1, <2>2, <3>1, WalkEndsAt
  <2> HIDE DEF at
  <2>4. CountedBy(N2, at)
    BY <2>1, <2>2, <2>3 DEF CountedBy, Alike
  <2> QED
    BY <1>2, <2>4 DEF at
<1>6. \A at, l : CompleteBy(R, at, l) => CompleteBy(R2, at, l)
  BY DEF CompleteBy, AlikeRels
<1>7. \A at, r : r \in DOMAIN R /\ FitsBy(R, at, r) => FitsBy(R2, at, r)
  BY DEF FitsBy, AlikeRels
<1>8. ASSUME NEW r \in DOMAIN R2, r[1] \in HeightsOf(N2) PROVE FitsBy(R2, StoodIn(N2, P, of, r[1]), r)
  <2>1. r[1] \in HeightsOf(N) /\ r[1] \in Heights /\ r \in DOMAIN R
    BY <1>3, <1>4, <1>8 DEF AlikeRels
  <2>2. FitsBy(R, StoodIn(N, P, of, r[1]), r)
    BY <2>1 DEF Holds
  <2> QED
    BY <1>2, <1>7, <2>1, <2>2
<1>9. Holds(N2, R2, P, of)
  <2>1. /\ \A e \in DOMAIN N2 : e[2] = 1 => \E t \in DOMAIN of : of[t] = e
        /\ \A t \in DOMAIN of : of[t] \in DOMAIN N2
    BY DEF Holds, Alike
  <2>2. CompleteBy(R2, of, 1)
    BY <1>6 DEF Holds
  <2> QED
    BY <1>5, <1>8, <2>1, <2>2 DEF Holds, Fewer
<1>10. ASSUME Carried(N, R, P, of) PROVE Carried(N2, R2, P, of)
  <2>1. \A r \in DOMAIN R2 : r[1] \in HeightsOf(N2)
    BY <1>3, <1>10 DEF Carried, AlikeRels
  <2>2. \A l \in HeightsOf(N2) : CompleteBy(R2, StoodIn(N2, P, of, l), l)
    BY <1>2, <1>3, <1>4, <1>6, <1>10 DEF Carried
  <2> QED
    BY <2>1, <2>2 DEF Carried
<1> QED
  BY <1>2, <1>9, <1>10

\* What a statement of the absorption leaves.
LEMMA AbsorbLeaves ==
  ASSUME GraphInv, NumbersInv, BuiltInv, UNCHANGED <<part, observations>>, done' \subseteq done,
         "build" \in done' => "build" \in done, Alike(nodes, nodes'), AlikeRels(rels, rels'),
         \A r \in DOMAIN rels' : rels'[r].good \in Nat \cup {Nil},
         "build" \in done => Fewer(rels')
  PROVE  /\ NumbersInv' /\ BuiltInv' /\ Levels' = Levels
         /\ "build" \in done => \A l \in Heights : Stood(l)' = Stood(l)
<1>1. Levels' = Levels
  BY DEF Levels, LevelOf, Alike
<1>2. NumbersInv'
  <2>1. \A e \in DOMAIN nodes' : e[2] \in Heights /\ nodes'[e].count \in Nat /\ nodes'[e].ends \in Nat
    BY DEF NumbersInv, Alike
  <2>2. \A r \in DOMAIN rels' : r = <<r[1], r[2], r[3]>> /\ r[1] \in Heights /\ rels'[r].num \in Nat
    BY DEF NumbersInv, AlikeRels
  <2>3. DOMAIN nodes' = DOMAIN nodes
    BY DEF Alike
  <2> QED
    BY <1>1, <2>1, <2>2, <2>3 DEF NumbersInv
<1>3. CASE "build" \in done
  <2>1. WalkOk(nodes, part) /\ FirstOf(observations) /\ Holds(nodes, rels, part, observations)
    BY <1>3, GraphWalks DEF BuiltInv
  <2>2. Raised(nodes) /\ Fewer(rels')
    BY <1>3 DEF NumbersInv, Raised
  <2>3. /\ Holds(nodes', rels', part, observations)
        /\ Carried(nodes, rels, part, observations) => Carried(nodes', rels', part, observations)
        /\ \A l \in Heights : StoodIn(nodes', part, observations, l) = StoodIn(nodes, part, observations, l)
    BY <1>3, <2>1, <2>2, HoldsAlike
  <2>4. BuiltInv'
    BY <1>3, <2>1, <2>3 DEF BuiltInv
  <2> QED
    BY <1>1, <1>2, <2>3, <2>4 DEF Stood
<1>4. CASE "build" \notin done
  BY <1>1, <1>2, <1>4 DEF BuiltInv
<1> QED
  BY <1>3, <1>4


\* Where the absorption has the turns stand, and what it writes of them.
Standings(level) == [t \in DOMAIN observations |-> AncestorAt(observations[t], level)]

LEMMA ToldIs ==
  ASSUME DOMAIN observations \in SUBSET Events, NEW level
  PROVE  /\ Told = ToldIn(Standings(level), outcomes) /\ Told \in SUBSET Events
         /\ DOMAIN Standings(level) = DOMAIN observations
         /\ DOMAIN StandsAt(level) = Told
         /\ \A t \in Told : StandsAt(level)[t] = Standings(level)[t]
<1>1. \A t \in DOMAIN observations : t[1] \in Conversations
  BY EventShape
<1>2. Told = {t \in DOMAIN observations : outcomes[t[1]] # Nil}
  BY <1>1 DEF Told, Ended
<1>3. DOMAIN Standings(level) = DOMAIN observations
  BY DEF Standings
<1>4. Told = ToldIn(Standings(level), outcomes)
  BY <1>2, <1>3 DEF ToldIn
<1>5. Told \in SUBSET DOMAIN observations
  BY <1>2
<1> HIDE DEF Told
<1>6. DOMAIN StandsAt(level) = Told /\ \A t \in Told : StandsAt(level)[t] = AncestorAt(observations[t], level)
  BY Zenon DEF StandsAt
<1>7. \A t \in Told : Standings(level)[t] = AncestorAt(observations[t], level)
  BY <1>5, Zenon DEF Standings
<1> QED
  BY <1>3, <1>4, <1>5, <1>6, <1>7

LEMMA StatsSupport ==
  ASSUME DOMAIN observations \in SUBSET Events, NEW level, NEW e, \E t \in Told : StandsAt(level)[t] = e
  PROVE  Supports(Stats(StandsAt(level), e), Standings(level), outcomes, e)
<1> DEFINE of == StandsAt(level)
           at == Standings(level)
           C == Through(of, e)
<1>1. Told = ToldIn(at, outcomes) /\ \A t \in Told : of[t] = at[t]
  BY ToldIs
<1> HIDE DEF of, at
<1>2. {u \in Told : of[u] = e} = {u \in ToldIn(at, outcomes) : at[u] = e}
  BY <1>1
<1>3. C = ThroughIn(at, outcomes, e)
  BY <1>2, Zenon DEF Through, ThroughIn
<1>4. C # {}
  <2>1. PICK t \in Told : of[t] = e
    BY DEF of
  <2> QED
    BY <2>1 DEF Through
<1> DEFINE S == Stats(of, e)
<1>5. /\ S.n = Cardinality(C) /\ S.good = Good(C)
      /\ S.kinds = [o \in Types |-> Cardinality({c \in C : outcomes[c].type = o})]
  <2> HIDE DEF C
  <2>1. S = [n |-> Cardinality(C), good |-> Good(C),
             kinds |-> [o \in Types |-> Cardinality({c \in C : outcomes[c].type = o})]]
    BY Zenon DEF Stats, C
  <2> HIDE DEF S
  <2> QED
    BY <2>1
<1>6. S.good = Sum([c \in C |-> outcomes[c].good], C)
  <2> HIDE DEF C
  <2> QED
    BY <1>5 DEF Good
<1> HIDE DEF C, S
<1>7. Supports(S, at, outcomes, e)
  BY <1>3, <1>4, <1>5, <1>6 DEF Supports
<1> QED
  BY <1>7 DEF S, of, at

LEMMA NumGoodIs ==
  ASSUME DOMAIN observations \in SUBSET Events, NEW level, NEW a, NEW b
  PROVE  /\ NumGood(StandsAt(level), a, b)
              = Cardinality(Led(WellIn(Standings(level), outcomes), Standings(level), a, b))
         /\ NumGood(StandsAt(level), a, b) \in Nat
<1> DEFINE of == StandsAt(level)
           at == Standings(level)
           G == {p \in Pairs(Told) : of[p[1]] = a /\ of[p[2]] = b /\ outcomes[p[1][1]].good = 1}
<1>1. Told = ToldIn(at, outcomes) /\ (\A t \in Told : of[t] = at[t]) /\ Told \in SUBSET Events
  BY ToldIs
<1> HIDE DEF of, at
<1>2. \A p \in Pairs(Told) : of[p[1]] = at[p[1]] /\ of[p[2]] = at[p[2]]
  BY <1>1, PairShape
<1>3. G = Led(WellIn(at, outcomes), at, a, b)
  BY <1>1, <1>2 DEF Led, WellIn
<1>4. NumGood(of, a, b) = Cardinality(G)
  BY Zenon DEF NumGood
<1>5. IsFiniteSet(G)
  <2>1. IsFiniteSet(Pairs(Told))
    BY <1>1, RowsFinite
  <2> QED
    BY <2>1, FS_Subset
<1> HIDE DEF G
<1>6. Cardinality(G) \in Nat
  BY <1>5, FS_CardinalityType
<1> QED
  BY <1>3, <1>4, <1>6 DEF of, at

LEMMA TakenIs ==
  ASSUME DOMAIN observations \in SUBSET Events, NEW level, NEW a, NEW b
  PROVE  <<a, b>> \in Lifted(Told, StandsAt(level)) <=>
           \E p \in Pairs(ToldIn(Standings(level), outcomes)) : Standings(level)[p[1]] = a /\ Standings(level)[p[2]] = b
<1> DEFINE of == StandsAt(level)
           at == Standings(level)
<1>1. Told = ToldIn(at, outcomes) /\ (\A t \in Told : of[t] = at[t]) /\ Told \in SUBSET Events
  BY ToldIs
<1> HIDE DEF of, at
<1>2. \A p \in Pairs(Told) : of[p[1]] = at[p[1]] /\ of[p[2]] = at[p[2]]
  BY <1>1, PairShape
<1>3. <<a, b>> \in Lifted(Told, of) <=> \E p \in Pairs(ToldIn(at, outcomes)) : at[p[1]] = a /\ at[p[2]] = b
  BY <1>1, <1>2 DEF Lifted
<1> QED
  BY <1>3 DEF of, at

\* In a build's graph the turns stand where the absorption finds them.
LEMMA StandingsAre ==
  ASSUME GraphInv, NumbersInv, FilesInv, BuiltInv, "build" \in done, NEW l \in Heights
  PROVE  Standings(l) = Stood(l)
<1>1. \A t \in DOMAIN observations : Stood(l)[t] = AncestorAt(observations[t], l)
  BY StoodIsAncestor
<1> QED
  BY <1>1 DEF Standings, Stood, StoodIn

\* A stage of absorb's goes on.
LEMMA AbsorbFiles ==
  ASSUME FilesInv, UNCHANGED <<annotations, observations, outcomes, types>>, "stage" \in DOMAIN job',
         job'.stage = "absorb", observations # Nil, outcomes \in Endings,
         left' \in [Commands -> Nat], done' \subseteq done
  PROVE  FilesInv'
  BY DEF FilesInv, Stages

LEMMA StageOfAbsorb ==
  ASSUME "stage" \in DOMAIN job', job'.stage = "absorb", AbsorbInv', "absorb" \notin done'
  PROVE  StageInv'
  BY DEF StageInv, MadeInv, BuildInv, ClimbInv, LiftInv, CarryInv, UndoneInv, Lifting, Carrying

LEMMA AbsorbStartStep ==
  ASSUME TurnsInv, GraphInv, AbsorbStart
  PROVE  TurnsInv'
<1>1. FilesInv /\ GraphTold /\ StageInv
  BY TurnsParts
<1>2. /\ Start("absorb") /\ outcomes # Nil /\ observations # Nil
      /\ nodes' = [e \in DOMAIN nodes |-> [nodes[e] EXCEPT !.stats = Nil]]
      /\ job' = [stage |-> "absorb", step |-> "remove"]
      /\ done' = done \ {"absorb"}
      /\ UNCHANGED <<annotations, observations, outcomes, types, rels, part>>
  BY DEF AbsorbStart
<1>3. left' \in [Commands -> Nat]
  BY <1>1, <1>2, LeftSpent DEF Stages
<1>4. job'.stage = "absorb" /\ job'.step = "remove" /\ "stage" \in DOMAIN job'
  BY <1>2
<1>5. Alike(nodes, nodes') /\ \A e \in DOMAIN nodes' : nodes'[e].stats = Nil
  <2> SUFFICES ASSUME NEW e \in DOMAIN nodes
               PROVE  /\ nodes'[e].level = nodes[e].level /\ nodes'[e].count = nodes[e].count
                      /\ nodes'[e].ends = nodes[e].ends /\ nodes'[e].stats = Nil
    BY <1>2 DEF Alike
  <2>1. DOMAIN nodes[e] = {"level", "count", "ends", "stats"}
    BY DEF GraphInv, NodesOk, NodeFields
  <2> QED
    BY <1>2, <2>1
<1>6. AlikeRels(rels, rels') /\ \A r \in DOMAIN rels' : rels'[r].good \in Nat \cup {Nil}
  BY <1>1, <1>2 DEF GraphTold, NumbersInv, AlikeRels
<1>7. "build" \in done => Fewer(rels')
  BY <1>1, <1>2 DEF GraphTold, BuiltInv, Holds, Fewer
<1>8. NumbersInv' /\ BuiltInv'
  BY <1>1, <1>2, <1>5, <1>6, <1>7, AbsorbLeaves DEF GraphTold
<1>9. StatsInv' /\ AbsorbedInv'
  BY <1>2, <1>5 DEF StatsInv, AbsorbedInv
<1>10. AbsorbInv'
  BY <1>4, <1>5 DEF AbsorbInv, Absorbing
<1>11. StageInv'
  BY <1>2, <1>4, <1>10, StageOfAbsorb
<1>12. FilesInv'
  <2>1. outcomes \in Endings
    BY <1>1, <1>2 DEF FilesInv
  <2>2. done' \subseteq done
    BY <1>2
  <2> QED
    BY <1>1, <1>2, <1>3, <1>4, <2>1, <2>2, AbsorbFiles
<1> QED
  BY <1>8, <1>9, <1>11, <1>12, TurnsParts DEF TurnsInv, GraphTold, StageInv

LEMMA AbsorbRemoveStep ==
  ASSUME TurnsInv, GraphInv, AbsorbRemove
  PROVE  TurnsInv'
<1>1. FilesInv /\ GraphTold /\ StageInv
  BY TurnsParts
<1>2. /\ job.stage = "absorb" /\ job.step = "remove"
      /\ rels' = [r \in DOMAIN rels |-> [rels[r] EXCEPT !.good = Nil]]
      /\ job' = [stage |-> "absorb", step |-> "state nodes", level |-> 1]
      /\ UNCHANGED <<annotations, observations, outcomes, types, nodes, part, left, done>>
  BY DEF AbsorbRemove
<1>3. /\ job'.stage = "absorb" /\ job'.step = "state nodes" /\ "stage" \in DOMAIN job'
      /\ job'.level = 1
  BY <1>2
<1>4. AlikeRels(rels, rels') /\ \A r \in DOMAIN rels' : rels'[r].good = Nil
  <2> SUFFICES ASSUME NEW r \in DOMAIN rels PROVE rels'[r].num = rels[r].num /\ rels'[r].good = Nil
    BY <1>2 DEF AlikeRels
  <2>1. DOMAIN rels[r] = {"num", "good"}
    BY DEF GraphInv, RelsOk
  <2> QED
    BY <1>2, <2>1
<1>5. Alike(nodes, nodes')
  BY <1>2 DEF Alike
<1>6. Fewer(rels') /\ \A r \in DOMAIN rels' : rels'[r].good \in Nat \cup {Nil}
  BY <1>4 DEF Fewer
<1>7. NumbersInv' /\ BuiltInv'
  BY <1>1, <1>2, <1>4, <1>5, <1>6, AbsorbLeaves DEF GraphTold
<1>8. "absorb" \notin done /\ observations # Nil /\ outcomes \in Endings
      /\ \A e \in DOMAIN nodes : nodes[e].stats = Nil
  BY <1>1, <1>2 DEF StageInv, UndoneInv, FilesInv, AbsorbInv
<1>9. StatsInv' /\ AbsorbedInv'
  BY <1>2, <1>8 DEF StatsInv, AbsorbedInv
<1>10. AbsorbInv'
  <2>0. 1 \in Heights
    BY DEF Heights
  <2>1. job'.level \in Heights
    BY Zenon, <1>3, <2>0
  <2>2. \A r \in DOMAIN rels' : ~ Handled(r)'
    <3> SUFFICES ASSUME NEW r \in DOMAIN rels', Handled(r)' PROVE FALSE
      OBVIOUS
    <3>1. r[1] \in Nat /\ r[1] # 0
      BY <1>7 DEF NumbersInv, Heights
    <3>2. job'.step # "action rels"
      BY <1>3
    <3>3. r[1] < 1
      BY <1>3, <3>2, Zenon DEF Handled
    <3> QED
      BY <3>1, <3>3
  <2>3. /\ job'.step # "remove" /\ job'.step = "state nodes" /\ DOMAIN job' = {"stage", "step", "level"}
        /\ \A e \in DOMAIN nodes' : nodes'[e].stats = Nil
    BY <1>2, <1>3, <1>8
  <2> QED
    BY Zenon, <1>4, <2>1, <2>2, <2>3 DEF AbsorbInv
<1>11. StageInv'
  BY <1>2, <1>3, <1>8, <1>10, StageOfAbsorb
<1>12. FilesInv'
  BY <1>1, <1>2, <1>3, <1>8, AbsorbFiles DEF FilesInv
<1> QED
  BY <1>7, <1>9, <1>11, <1>12, TurnsParts DEF TurnsInv, GraphTold, StageInv


\* What the nodes' statement of a kind writes.
TakesNodes(kind, level, taken) ==
  /\ Alike(nodes, nodes')
  /\ \A e \in taken : /\ e \in DOMAIN nodes /\ e[2] = level
                      /\ Supports(nodes'[e].stats, Standings(level), outcomes, e)
  /\ \A e \in DOMAIN nodes : e \notin taken => nodes'[e].stats = nodes[e].stats

LEMMA AbsorbTakes ==
  ASSUME GraphInv, DOMAIN observations \in SUBSET Events, NEW kind, NEW step, NEW next, AbsorbNodes(kind, step, next)
  PROVE  \E taken : TakesNodes(kind, job.level, taken)
<1> DEFINE of == StandsAt(job.level)
           seen == {of[t] : t \in Told}
           taken == At(job.level, kind) \cap seen
<1>1. nodes' = [e \in DOMAIN nodes |->
                  IF e \in taken THEN [nodes[e] EXCEPT !.stats = Stats(of, e)] ELSE nodes[e]]
  BY DEF AbsorbNodes
<1>2. \A e \in taken : e \in DOMAIN nodes /\ e[2] = job.level /\ \E t \in Told : of[t] = e
  BY DEF At, LevelOf, GraphInv, NodesOk
<1>3. \A e \in taken : Supports(Stats(of, e), Standings(job.level), outcomes, e)
  BY <1>2, StatsSupport
<1> HIDE DEF of, taken
<1>4. \A e \in DOMAIN nodes : DOMAIN nodes[e] = {"level", "count", "ends", "stats"}
  BY DEF GraphInv, NodesOk, NodeFields
<1>5. \A e \in DOMAIN nodes : /\ nodes'[e].level = nodes[e].level /\ nodes'[e].count = nodes[e].count
                              /\ nodes'[e].ends = nodes[e].ends
                              /\ nodes'[e].stats = IF e \in taken THEN Stats(of, e) ELSE nodes[e].stats
  BY <1>1, <1>4
<1>6. Alike(nodes, nodes')
  BY <1>1, <1>5 DEF Alike
<1>7. TakesNodes(kind, job.level, taken)
  BY <1>2, <1>3, <1>5, <1>6 DEF TakesNodes
<1> QED
  BY <1>7

\* A running absorption's step, and what it has at hand.
LEMMA AbsorbHas ==
  ASSUME TurnsInv, job.stage = "absorb", job.step # "remove"
  PROVE  /\ observations # Nil /\ FirstOf(observations) /\ outcomes \in Endings
         /\ DOMAIN observations \in SUBSET Events /\ "absorb" \notin done
         /\ DOMAIN job = {"stage", "step", "level"} /\ job.level \in Heights
  BY DEF TurnsInv, FilesInv, FirstOf, UndoneInv, AbsorbInv, Absorbing

LEMMA AbsorbNodesStep ==
  ASSUME TurnsInv, GraphInv, NEW kind \in Kinds, NEW step, NEW next, NodesOrder(kind, step, next),
         AbsorbNodes(kind, step, next)
  PROVE  TurnsInv'
<1>1. FilesInv /\ GraphTold /\ StageInv
  BY TurnsParts
<1>2. /\ job.stage = "absorb" /\ job.step = step /\ job.level \in Levels
      /\ job' = [job EXCEPT !.step = next]
      /\ UNCHANGED <<annotations, observations, outcomes, types, rels, part, left, done>>
  BY DEF AbsorbNodes
<1>3. /\ step \in {"state nodes", "action nodes"} /\ next \in {"action nodes", "state rels"}
  BY DEF NodesOrder
<1>4. /\ observations # Nil /\ FirstOf(observations) /\ outcomes \in Endings
      /\ DOMAIN observations \in SUBSET Events /\ "absorb" \notin done
      /\ DOMAIN job = {"stage", "step", "level"} /\ job.level \in Heights
  BY <1>2, <1>3, AbsorbHas
<1>5. job'.stage = "absorb" /\ job'.step = next /\ DOMAIN job' = {"stage", "step", "level"}
  BY <1>2, <1>4
<1>6. job'.level = job.level
  BY <1>2, <1>4
<1>7. PICK taken : TakesNodes(kind, job.level, taken)
  BY <1>4, AbsorbTakes
<1>8. /\ Alike(nodes, nodes') /\ AlikeRels(rels, rels')
      /\ \A r \in DOMAIN rels' : rels'[r].good \in Nat \cup {Nil}
  BY <1>1, <1>2, <1>7 DEF TakesNodes, AlikeRels, GraphTold, NumbersInv
<1>9. "build" \in done => Fewer(rels')
  BY <1>1, <1>2 DEF GraphTold, BuiltInv, Holds, Fewer
<1>10. /\ NumbersInv' /\ BuiltInv' /\ Levels' = Levels
       /\ "build" \in done => \A l \in Heights : Stood(l)' = Stood(l)
  BY <1>1, <1>2, <1>8, <1>9, AbsorbLeaves DEF GraphTold
<1>11. StatsInv'
  <2> SUFFICES ASSUME NEW e \in DOMAIN nodes', nodes'[e].stats # Nil PROVE IsSupport(nodes'[e].stats)
    BY DEF StatsInv
  <2>0. e \in DOMAIN nodes
    BY <1>8 DEF Alike
  <2>1. CASE e \in taken
    <3>1. Supports(nodes'[e].stats, Standings(job.level), outcomes, e)
      BY <1>7, <2>1 DEF TakesNodes
    <3>2. DOMAIN Standings(job.level) \in SUBSET Events
      BY <1>4, ToldIs
    <3> QED
      BY <1>4, <3>1, <3>2, SupportIs
  <2>2. CASE e \notin taken
    BY <1>1, <1>7, <2>0, <2>2 DEF TakesNodes, GraphTold, StatsInv
  <2> QED
    BY <2>1, <2>2
<1>12. AbsorbedInv'
  BY <1>2, <1>4 DEF AbsorbedInv
<1>13. AbsorbInv'
  <2>1. job'.level \in Levels'
    BY <1>2, <1>6, <1>10
  <2>2. job'.step # "remove" /\ job'.step # "action rels"
    BY <1>3, <1>5
  <2>3. job'.step \in {"remove", "state nodes", "action nodes", "state rels", "action rels"}
    BY <1>3, <1>5
  <2>4. job'.level \in Heights
    BY <1>4, <1>6
  <2>5. ASSUME "build" \in done, NEW e \in DOMAIN nodes', nodes'[e].stats # Nil
        PROVE  Supports(nodes'[e].stats, Stood(e[2])', outcomes', e)
    <3>0. e \in DOMAIN nodes /\ e[2] \in Heights
      BY <1>1, <1>8 DEF Alike, GraphTold, NumbersInv
    <3>1. Stood(e[2])' = Stood(e[2])
      BY <1>10, <2>5, <3>0
    <3>2. CASE e \in taken
      <4>1. Supports(nodes'[e].stats, Standings(job.level), outcomes, e) /\ e[2] = job.level
        BY <1>7, <3>2 DEF TakesNodes
      <4>2. Standings(job.level) = Stood(job.level)
        BY <1>1, <1>4, <2>5, StandingsAre DEF GraphTold
      <4> QED
        BY <1>2, <3>1, <4>1, <4>2
    <3>3. CASE e \notin taken
      <4>1. nodes'[e].stats = nodes[e].stats
        BY <1>7, <3>0, <3>3 DEF TakesNodes
      <4>2. Absorbing
        BY <1>2, <1>3 DEF Absorbing
      <4>3. Supports(nodes[e].stats, Stood(e[2]), outcomes, e)
        BY <1>1, <2>5, <3>0, <4>1, <4>2 DEF StageInv, AbsorbInv
      <4> QED
        BY <1>2, <3>1, <4>1, <4>3
    <3> QED
      BY <3>2, <3>3
  <2>6. ASSUME "build" \in done, NEW r \in DOMAIN rels', r[1] \in Levels'
        PROVE  IF Handled(r)' THEN GoodIn(rels'[r].good, Stood(r[1])', outcomes', r) ELSE rels'[r].good = Nil
    <3>1. Handled(r)' <=> Handled(r)
      <4>1. job.step # "action rels"
        BY <1>2, <1>3
      <4> QED
        BY Zenon, <1>6, <2>2, <4>1 DEF Handled
    <3>2. Absorbing
      BY <1>2, <1>3 DEF Absorbing
    <3>3. IF Handled(r) THEN GoodIn(rels[r].good, Stood(r[1]), outcomes, r) ELSE rels[r].good = Nil
      BY <1>1, <1>2, <1>10, <2>6, <3>2 DEF StageInv, AbsorbInv
    <3>4. r[1] \in Heights
      BY <1>10 DEF NumbersInv
    <3>5. Stood(r[1])' = Stood(r[1])
      BY <1>10, <2>6, <3>4
    <3> QED
      BY <1>2, <3>1, <3>3, <3>5
  <2> QED
    BY Zenon, <1>2, <1>5, <2>1, <2>2, <2>3, <2>4, <2>5, <2>6 DEF AbsorbInv
<1>14. StageInv'
  BY <1>2, <1>4, <1>5, <1>13, StageOfAbsorb
<1>15. FilesInv'
  <2>1. left' \in [Commands -> Nat] /\ done' \subseteq done
    BY <1>1, <1>2 DEF FilesInv
  <2> QED
    BY <1>1, <1>2, <1>4, <1>5, <2>1, AbsorbFiles
<1> QED
  BY <1>10, <1>11, <1>12, <1>14, <1>15, TurnsParts DEF TurnsInv, GraphTold, StageInv


\* What the transitions' statement of a kind writes.
TookHere(kind, level, r) == r[1] = level /\ r[2][1] = kind /\ TakenIn(Standings(level), outcomes, r)
TakesRels(kind, level) ==
  /\ AlikeRels(rels, rels')
  /\ \A r \in DOMAIN rels :
       IF TookHere(kind, level, r)
       THEN rels'[r].good = Cardinality(Led(WellIn(Standings(level), outcomes), Standings(level), r[2], r[3]))
            /\ rels'[r].good \in Nat
       ELSE rels'[r].good = rels[r].good

LEMMA AbsorbTakesRels ==
  ASSUME GraphInv, NumbersInv, DOMAIN observations \in SUBSET Events, NEW kind, NEW step, AbsorbRels(kind, step)
  PROVE  TakesRels(kind, job.level)
<1> DEFINE of == StandsAt(job.level)
           taken == {<<job.level, p[1], p[2]>> : p \in Lifted(Told, of)}
           hit(r) == r \in taken /\ r[2][1] = kind
<1>1. rels' = [r \in DOMAIN rels |->
                 IF hit(r) THEN [rels[r] EXCEPT !.good = NumGood(of, r[2], r[3])] ELSE rels[r]]
  BY DEF AbsorbRels
<1>2. \A r \in DOMAIN rels : hit(r) <=> TookHere(kind, job.level, r)
  <2> SUFFICES ASSUME NEW r \in DOMAIN rels PROVE hit(r) <=> TookHere(kind, job.level, r)
    OBVIOUS
  <2>1. r = <<r[1], r[2], r[3]>>
    BY DEF NumbersInv
  <2>2. <<r[2], r[3]>> \in Lifted(Told, of) <=> TakenIn(Standings(job.level), outcomes, r)
    BY TakenIs DEF TakenIn
  <2> HIDE DEF of
  <2>3. r \in taken <=> r[1] = job.level /\ <<r[2], r[3]>> \in Lifted(Told, of)
    <3>1. ASSUME r \in taken PROVE r[1] = job.level /\ <<r[2], r[3]>> \in Lifted(Told, of)
      <4>1. PICK p \in Lifted(Told, of) : r = <<job.level, p[1], p[2]>>
        BY <3>1
      <4>2. p = <<p[1], p[2]>>
        BY DEF Lifted
      <4>3. r[1] = job.level /\ r[2] = p[1] /\ r[3] = p[2]
        BY <4>1
      <4> QED
        BY <4>2, <4>3
    <3>2. ASSUME r[1] = job.level, <<r[2], r[3]>> \in Lifted(Told, of) PROVE r \in taken
      <4> DEFINE p == <<r[2], r[3]>>
      <4>1. p \in Lifted(Told, of) /\ r = <<job.level, p[1], p[2]>>
        BY <2>1, <3>2
      <4> HIDE DEF p
      <4> QED
        BY <4>1
    <3> QED
      BY <3>1, <3>2
  <2> QED
    BY <2>2, <2>3 DEF TookHere
<1> HIDE DEF hit, taken
<1>3. \A r \in DOMAIN rels : DOMAIN rels[r] = {"num", "good"}
  BY DEF GraphInv, RelsOk
<1>4. \A r \in DOMAIN rels : /\ rels'[r].num = rels[r].num
                             /\ rels'[r].good = IF hit(r) THEN NumGood(of, r[2], r[3]) ELSE rels[r].good
  <2> HIDE DEF of
  <2> QED
    BY <1>1, <1>3
<1>5. AlikeRels(rels, rels')
  BY <1>1, <1>4 DEF AlikeRels
<1>6. \A a, b : /\ NumGood(of, a, b) = Cardinality(Led(WellIn(Standings(job.level), outcomes), Standings(job.level), a, b))
                /\ NumGood(of, a, b) \in Nat
  <2> SUFFICES ASSUME NEW a, NEW b
               PROVE  /\ NumGood(of, a, b) = Cardinality(Led(WellIn(Standings(job.level), outcomes), Standings(job.level), a, b))
                      /\ NumGood(of, a, b) \in Nat
    OBVIOUS
  <2> DEFINE m == job.level
  <2> HIDE DEF m
  <2>1. /\ NumGood(StandsAt(m), a, b) = Cardinality(Led(WellIn(Standings(m), outcomes), Standings(m), a, b))
        /\ NumGood(StandsAt(m), a, b) \in Nat
    BY NumGoodIs
  <2> QED
    BY <2>1 DEF m
<1> HIDE DEF of
<1> QED
  BY <1>2, <1>4, <1>5, <1>6 DEF TakesRels

\* In a build's graph no more cases that ended well took a transition than all.
LEMMA TakesFewer ==
  ASSUME GraphInv, NumbersInv, FilesInv, BuiltInv, "build" \in done, NEW level \in Levels, level \in Heights,
         NEW kind, TakesRels(kind, level)
  PROVE  Fewer(rels')
<1>1. Holds(nodes, rels, part, observations) /\ FirstOf(observations)
  BY DEF BuiltInv
<1> DEFINE at == Standings(level)
           rows == DOMAIN observations
<1>2. at = Stood(level) /\ DOMAIN at = rows
  BY StandingsAre DEF Standings
<1>3. ASSUME NEW r \in DOMAIN rels', rels'[r].good # Nil PROVE rels'[r].good <= rels'[r].num
  <2>1. r \in DOMAIN rels /\ rels'[r].num = rels[r].num
    BY DEF TakesRels, AlikeRels
  <2>2. CASE TookHere(kind, level, r)
    <3>1. r[1] = level /\ rels'[r].good = Cardinality(Led(WellIn(at, outcomes), at, r[2], r[3]))
      BY <2>1, <2>2 DEF TakesRels, TookHere
    <3>2. r[1] \in HeightsOf(nodes)
      BY <3>1 DEF HeightsOf, Levels, LevelOf
    <3>3. FitsBy(rels, at, r)
      BY <1>1, <1>2, <2>1, <3>1, <3>2 DEF Holds, Stood
    <3>4. rels[r].num = Num(rows, at, r[2], r[3])
      BY <1>2, <3>3 DEF FitsBy
    <3> HIDE DEF at, rows
    <3>5. rels[r].num = Cardinality(Led(Pairs(rows), at, r[2], r[3]))
      BY <3>4, Zenon DEF Num, Led
    <3>6. Led(WellIn(at, outcomes), at, r[2], r[3]) \subseteq Led(Pairs(rows), at, r[2], r[3])
      <4>1. WellIn(at, outcomes) \subseteq Pairs(rows)
        BY <1>2, ToldPairs DEF WellIn
      <4> QED
        BY <4>1 DEF Led
    <3>7. IsFiniteSet(Led(Pairs(rows), at, r[2], r[3]))
      <4>1. IsFiniteSet(Pairs(rows))
        BY <1>1, RowsFinite DEF FirstOf, rows
      <4> QED
        BY <4>1, FS_Subset DEF Led
    <3>8. Cardinality(Led(WellIn(at, outcomes), at, r[2], r[3])) <= Cardinality(Led(Pairs(rows), at, r[2], r[3]))
      BY <3>6, <3>7, FS_Subset
    <3> QED
      BY <2>1, <3>1, <3>5, <3>8
  <2>3. CASE ~ TookHere(kind, level, r)
    BY <1>1, <1>3, <2>1, <2>3 DEF Holds, TakesRels
  <2> QED
    BY <2>2, <2>3
<1> QED
  BY <1>3 DEF Fewer

\* What the transitions' statement leaves handled.
AbsorbOrder(kind, step) ==
  (kind = "state" /\ step = "state rels") \/ (kind = "action" /\ step = "action rels")
NextOrder(kind, step) ==
  (kind = "state" /\ step = "action rels") \/ (kind = "action" /\ step = "state nodes")

LEMMA TakesHandled ==
  ASSUME TurnsInv, GraphInv, "build" \in done, NEW kind \in Kinds, AbsorbOrder(kind, job.step), job.stage = "absorb",
         NEW level \in Nat, level = job.level, TakesRels(kind, level), NEW level2 \in Nat, job'.level = level2,
         kind = "state" => level2 = level, kind = "action" => level2 = level + 1,
         NextOrder(kind, job'.step), NEW r \in DOMAIN rels, r[1] \in Levels
  PROVE  IF Handled(r)' THEN GoodIn(rels'[r].good, Stood(r[1]), outcomes, r) ELSE rels'[r].good = Nil
<1>1. /\ FilesInv /\ NumbersInv /\ BuiltInv /\ AbsorbInv
  BY DEF TurnsInv
<1>2. level \in Heights
  BY AbsorbHas DEF AbsorbOrder
<1>3. Absorbing
  BY DEF Absorbing, AbsorbOrder
<1>4. IF Handled(r) THEN GoodIn(rels[r].good, Stood(r[1]), outcomes, r) ELSE rels[r].good = Nil
  BY <1>1, <1>3 DEF AbsorbInv
<1>5. Standings(level) = Stood(level)
  BY <1>1, <1>2, StandingsAre
<1>6. r[1] \in Nat
  BY <1>1 DEF NumbersInv, Heights
<1>7. r[2][1] \in Kinds
  <2>1. WalkOk(nodes, part) /\ FirstOf(observations) /\ Holds(nodes, rels, part, observations)
    BY <1>1, GraphWalks DEF BuiltInv
  <2>2. r[1] \in HeightsOf(nodes) /\ r[1] \in Heights
    BY <1>1 DEF HeightsOf, Levels, LevelOf, NumbersInv
  <2> DEFINE at == StoodIn(nodes, part, observations, r[1])
  <2>3. FitsBy(rels, at, r)
    BY <2>1, <2>2 DEF Holds
  <2>4. /\ DOMAIN at = DOMAIN observations /\ DOMAIN observations \in SUBSET Events
        /\ \A t \in DOMAIN observations : at[t][1] = Kind(t)
    BY <2>1, <2>2, StoodShape
  <2> HIDE DEF at
  <2>5. PICK p \in Pairs(DOMAIN observations) : r[2] = at[p[1]]
    BY <2>3, <2>4 DEF FitsBy
  <2>6. p[1] \in DOMAIN observations
    BY PairShape
  <2> QED
    BY <2>4, <2>5, <2>6, EventShape
<1> DEFINE here == r[1] = level
           below == r[1] < level
           mine == r[2][1] = kind
<1>8. ~ (here /\ below)
  BY <1>6
<1>9. /\ here /\ mine => GoodIn(rels'[r].good, Stood(r[1]), outcomes, r) \/ Handled(r)
      /\ ~ (here /\ mine) => rels'[r].good = rels[r].good
  <2>1. ASSUME here, mine, ~ Handled(r) PROVE GoodIn(rels'[r].good, Stood(r[1]), outcomes, r)
    <3>1. rels[r].good = Nil
      BY <1>4, <2>1
    <3>2. TookHere(kind, level, r) <=> TakenIn(Stood(r[1]), outcomes, r)
      BY <1>5, <2>1 DEF TookHere
    <3>3. CASE TookHere(kind, level, r)
      <4>1. rels'[r].good = Cardinality(Led(WellIn(Stood(r[1]), outcomes), Stood(r[1]), r[2], r[3]))
        BY <1>5, <2>1, <3>3 DEF TakesRels
      <4> QED
        BY <3>2, <3>3, <4>1 DEF GoodIn
    <3>4. CASE ~ TookHere(kind, level, r)
      <4>1. rels'[r].good = Nil
        BY <3>1, <3>4 DEF TakesRels
      <4> QED
        BY <3>2, <3>4, <4>1 DEF GoodIn
    <3> QED
      BY <3>3, <3>4
  <2>2. ASSUME ~ (here /\ mine) PROVE rels'[r].good = rels[r].good
    <3>1. ~ TookHere(kind, level, r)
      BY <2>2 DEF TookHere
    <3> QED
      BY <3>1 DEF TakesRels
  <2> QED
    BY <2>1, <2>2
<1>10. CASE kind = "state"
  <2>1. job.step # "action rels" /\ job'.step = "action rels"
    BY <1>10 DEF AbsorbOrder, NextOrder
  <2>2. Handled(r) <=> below
    BY Zenon, <2>1 DEF Handled
  <2>3. Handled(r)' <=> below \/ (here /\ mine)
    BY Zenon, <1>10, <2>1 DEF Handled
  <2> HIDE DEF here, below, mine
  <2> QED
    BY <1>4, <1>8, <1>9, <2>2, <2>3
<1>11. CASE kind = "action"
  <2>1. job.step = "action rels" /\ job'.step # "action rels"
    BY <1>11 DEF AbsorbOrder, NextOrder
  <2>2. Handled(r) <=> below \/ (here /\ ~ mine)
    <3>1. r[2][1] = "state" <=> ~ mine
      BY <1>7, <1>11 DEF Kinds
    <3> QED
      BY Zenon, <2>1, <3>1 DEF Handled
  <2>3. Handled(r)' <=> r[1] < level2
    BY Zenon, <2>1 DEF Handled
  <2>4. r[1] < level2 <=> below \/ here
    <3>1. level2 = level + 1
      BY <1>11
    <3> QED
      BY <1>6, <3>1
  <2> HIDE DEF here, below, mine
  <2> QED
    BY <1>4, <1>8, <1>9, <2>2, <2>3, <2>4
<1> QED
  BY <1>10, <1>11 DEF Kinds


LEMMA AbsorbRelsStep ==
  ASSUME TurnsInv, GraphInv, NEW kind \in Kinds, NEW step, AbsorbOrder(kind, step), AbsorbRels(kind, step)
  PROVE  TurnsInv'
<1>1. FilesInv /\ GraphTold /\ StageInv
  BY TurnsParts
<1>2. /\ job.stage = "absorb" /\ job.step = step
      /\ job' = IF kind = "state" THEN [job EXCEPT !.step = "action rels"]
                ELSE [job EXCEPT !.step = "state nodes", !.level = @ + 1]
      /\ UNCHANGED <<annotations, observations, outcomes, types, nodes, part, left, done>>
  BY DEF AbsorbRels
<1>3. step \in {"state rels", "action rels"}
  BY DEF AbsorbOrder
<1>4. /\ observations # Nil /\ FirstOf(observations) /\ outcomes \in Endings
      /\ DOMAIN observations \in SUBSET Events /\ "absorb" \notin done
      /\ DOMAIN job = {"stage", "step", "level"} /\ job.level \in Heights
  BY <1>2, <1>3, AbsorbHas
<1>5. job.level \in Levels
  <2>1. Absorbing /\ job.step # "state nodes"
    BY <1>2, <1>3 DEF Absorbing
  <2> QED
    BY <1>1, <2>1 DEF StageInv, AbsorbInv
<1>6. /\ job'.stage = "absorb" /\ NextOrder(kind, job'.step) /\ DOMAIN job' = {"stage", "step", "level"}
  <2>1. CASE kind = "state"
    <3>1. job' = [job EXCEPT !.step = "action rels"]
      BY <1>2, <2>1
    <3> QED
      BY <1>2, <1>4, <2>1, <3>1 DEF NextOrder
  <2>2. CASE kind = "action"
    <3>1. job' = [job EXCEPT !.step = "state nodes", !.level = @ + 1]
      BY <1>2, <2>2
    <3> QED
      BY <1>2, <1>4, <2>2, <3>1 DEF NextOrder
  <2> QED
    BY <2>1, <2>2 DEF Kinds
<1>7. PICK level \in Nat : level = job.level
  BY <1>4 DEF Heights
<1>8. PICK level2 \in Nat : job'.level = level2 /\ (kind = "state" => level2 = level) /\ (kind = "action" => level2 = level + 1)
  <2>1. CASE kind = "state"
    <3>1. job' = [job EXCEPT !.step = "action rels"]
      BY <1>2, <2>1
    <3>2. job'.level = level
      BY <1>4, <1>7, <3>1
    <3> QED
      BY Zenon, <1>7, <2>1, <3>2
  <2>2. CASE kind = "action"
    <3>1. job' = [job EXCEPT !.step = "state nodes", !.level = @ + 1]
      BY <1>2, <2>2
    <3>2. job'.level = level + 1
      BY <1>4, <1>7, <3>1
    <3>3. level + 1 \in Nat
      OBVIOUS
    <3> QED
      BY Zenon, <2>2, <3>2, <3>3
  <2> QED
    BY <2>1, <2>2 DEF Kinds
<1>9. TakesRels(kind, level)
  BY <1>1, <1>4, <1>7, AbsorbTakesRels DEF GraphTold
<1>10. /\ Alike(nodes, nodes') /\ AlikeRels(rels, rels')
       /\ \A r \in DOMAIN rels' : rels'[r].good \in Nat \cup {Nil}
  <2>1. AlikeRels(rels, rels') /\ \A r \in DOMAIN rels : rels'[r].good \in Nat \/ rels'[r].good = rels[r].good
    BY <1>9 DEF TakesRels
  <2> QED
    BY <1>1, <1>2, <2>1 DEF Alike, AlikeRels, GraphTold, NumbersInv
<1>11. "build" \in done => Fewer(rels')
  BY <1>1, <1>4, <1>5, <1>7, <1>9, TakesFewer DEF GraphTold
<1>12. /\ NumbersInv' /\ BuiltInv' /\ Levels' = Levels
       /\ "build" \in done => \A l \in Heights : Stood(l)' = Stood(l)
  BY <1>1, <1>2, <1>10, <1>11, AbsorbLeaves DEF GraphTold
<1>13. StatsInv' /\ AbsorbedInv'
  BY <1>1, <1>2, <1>4 DEF GraphTold, StatsInv, AbsorbedInv
<1>14. AbsorbInv'
  <2>1. job'.level \in Heights
    <3>1. level2 = level \/ level2 = level + 1
      BY <1>8 DEF Kinds
    <3>2. level \in Nat /\ level # 0
      BY <1>4, <1>7 DEF Heights
    <3>3. level2 \in Heights
      BY <3>1, <3>2 DEF Heights
    <3> QED
      BY <1>8, <3>3
  <2>2. job'.step # "remove" /\ job'.step \in {"remove", "state nodes", "action nodes", "state rels", "action rels"}
    BY <1>6 DEF NextOrder
  <2>3. job'.step # "state nodes" => job'.level \in Levels'
    <3> SUFFICES ASSUME job'.step # "state nodes" PROVE job'.level \in Levels'
      OBVIOUS
    <3>1. kind = "state"
      BY <1>6 DEF NextOrder
    <3>2. job'.level = job.level
      BY <1>7, <1>8, <3>1
    <3> QED
      BY <1>5, <1>12, <3>2
  <2>4. ASSUME "build" \in done, NEW e \in DOMAIN nodes', nodes'[e].stats # Nil
        PROVE  Supports(nodes'[e].stats, Stood(e[2])', outcomes', e)
    <3>1. Absorbing
      BY <1>2, <1>3 DEF Absorbing
    <3>2. e[2] \in Heights
      BY <1>12 DEF NumbersInv
    <3>3. Stood(e[2])' = Stood(e[2])
      BY <1>12, <2>4, <3>2
    <3>4. Supports(nodes[e].stats, Stood(e[2]), outcomes, e)
      BY <1>1, <1>2, <2>4, <3>1 DEF StageInv, AbsorbInv
    <3> QED
      BY <1>2, <3>3, <3>4
  <2>5. ASSUME "build" \in done, NEW r \in DOMAIN rels', r[1] \in Levels'
        PROVE  IF Handled(r)' THEN GoodIn(rels'[r].good, Stood(r[1])', outcomes', r) ELSE rels'[r].good = Nil
    <3>1. r \in DOMAIN rels /\ r[1] \in Levels
      BY <1>10, <1>12, <2>5 DEF AlikeRels
    <3>2. AbsorbOrder(kind, job.step)
      BY <1>2
    <3>3. IF Handled(r)' THEN GoodIn(rels'[r].good, Stood(r[1]), outcomes, r) ELSE rels'[r].good = Nil
      BY <1>2, <1>6, <1>7, <1>8, <1>9, <2>5, <3>1, <3>2, TakesHandled
    <3>4. r[1] \in Heights
      BY <1>12 DEF NumbersInv
    <3>5. Stood(r[1])' = Stood(r[1])
      BY <1>12, <2>5, <3>4
    <3> QED
      BY <1>2, <3>3, <3>5
  <2> QED
    BY Zenon, <1>2, <1>6, <2>1, <2>2, <2>3, <2>4, <2>5 DEF AbsorbInv
<1>15. StageInv'
  BY <1>2, <1>4, <1>6, <1>14, StageOfAbsorb
<1>16. FilesInv'
  <2>1. left' \in [Commands -> Nat] /\ done' \subseteq done
    BY <1>1, <1>2 DEF FilesInv
  <2> QED
    BY <1>1, <1>2, <1>4, <1>6, <2>1, AbsorbFiles
<1> QED
  BY <1>12, <1>13, <1>15, <1>16, TurnsParts DEF TurnsInv, GraphTold, StageInv

\* Every level there is has been absorbed.
LEMMA AbsorbEndStep ==
  ASSUME TurnsInv, GraphInv, AbsorbEnd
  PROVE  TurnsInv'
<1>1. FilesInv /\ GraphTold /\ StageInv
  BY TurnsParts
<1>2. /\ job.stage = "absorb" /\ job.step = "state nodes" /\ job.level \notin Levels
      /\ job' = Idle
      /\ UNCHANGED <<annotations, observations, outcomes, types, nodes, rels, part, left>>
      /\ \/ done' = done \cup {"absorb"} /\ \A e \in DOMAIN nodes : nodes[e].stats # Nil
         \/ done' = done
  BY DEF AbsorbEnd
<1>3. StageInv'
  BY <1>2, StageQuiet DEF Idle
<1>4. FilesInv'
  BY <1>1, <1>2 DEF FilesInv, Idle, Stages
<1>5. NumbersInv' /\ StatsInv' /\ BuiltInv'
  BY <1>1, <1>2 DEF GraphTold, NumbersInv, StatsInv, BuiltInv, Levels, LevelOf
<1>6. CASE done' = done
  <2>1. GraphTold'
    BY <1>1, <1>2, <1>6, ToldStands
  <2> QED
    BY <1>3, <1>4, <2>1, TurnsParts DEF TurnsInv, GraphTold, StageInv
<1>7. CASE done' = done \cup {"absorb"} /\ \A e \in DOMAIN nodes : nodes[e].stats # Nil
  <2>1. ASSUME "build" \in done PROVE Absorbed(nodes, rels, part, observations, outcomes)
    <3>1. Absorbing
      BY <1>2 DEF Absorbing
    <3>2. /\ \A e \in DOMAIN nodes : Supports(nodes[e].stats, Stood(e[2]), outcomes, e)
          /\ \A r \in DOMAIN rels : r[1] \in Levels =>
               IF Handled(r) THEN GoodIn(rels[r].good, Stood(r[1]), outcomes, r) ELSE rels[r].good = Nil
      BY <1>1, <1>7, <2>1, <3>1 DEF StageInv, AbsorbInv
    <3>3. job.level \in Nat /\ job.level # 0
      BY <1>2, AbsorbHas DEF Heights
    <3> DEFINE lv == job.level
    <3> HIDE DEF lv
    <3>4. ASSUME NEW l \in Levels PROVE l < lv
      <4> SUFFICES ASSUME ~ (l < lv) PROVE FALSE
        OBVIOUS
      <4>1. PICK e \in DOMAIN nodes : nodes[e].level = l
        BY DEF Levels, LevelOf
      <4>2. e[2] = l /\ e[2] \in Heights /\ \A i \in 1 .. e[2] : i \in Levels
        BY <1>1, <4>1 DEF GraphInv, NodesOk, GraphTold, NumbersInv
      <4>3. l \in Nat /\ lv \in Nat /\ lv # 0
        BY <3>3, <4>2 DEF Heights, lv
      <4>4. lv \in 1 .. e[2]
        BY <4>2, <4>3
      <4>5. lv \in Levels
        BY <4>2, <4>4
      <4> QED
        BY <1>2, <4>5 DEF lv
    <3>5. \A r \in DOMAIN rels : r[1] \in Levels => Handled(r)
      BY <3>4 DEF Handled, lv
    <3>6. \A r \in DOMAIN rels : r[1] \in HeightsOf(nodes) => GoodIn(rels[r].good, Stood(r[1]), outcomes, r)
      <4>1. HeightsOf(nodes) = Levels
        BY DEF HeightsOf, Levels, LevelOf
      <4> QED
        BY <3>2, <3>5, <4>1
    <3> QED
      BY <1>7, <3>2, <3>6 DEF Absorbed, Stood
  <2>2. outcomes \in Endings
    BY <1>2, AbsorbHas
  <2>3. AbsorbedInv'
    <3>1. "build" \in done' => "build" \in done
      BY <1>7
    <3> QED
      BY <1>2, <2>1, <2>2, <3>1 DEF AbsorbedInv
  <2> QED
    BY <1>3, <1>4, <1>5, <2>3, TurnsParts DEF TurnsInv, GraphTold, StageInv
<1> QED
  BY <1>2, <1>6, <1>7


-----------------------------------------------------------------------------
(* The outlook *)

LookFields == {"step", "near", "states", "nexts", "base", "sound"}
LEMMA LookStep ==
  ASSUME TurnsInv, GraphInv, LookInv, [OutlookNext]_outlookVars
  PROVE  LookInv'
<1>1. DOMAIN look = LookFields
  BY DEF LookInv, LookFields
<1>2. CASE UNCHANGED look
  BY <1>2 DEF LookInv
<1>3. CASE Locate
  <2>1. PICK near : look' = [NoLook EXCEPT !.step = "states", !.near = near, !.sound = "build" \in done]
    BY <1>3 DEF Locate
  <2>2. /\ DOMAIN look' = LookFields /\ look'.step = "states"
        /\ look'.states = Nothing /\ look'.nexts = Nothing
    BY <2>1 DEF NoLook, LookFields
  <2>3. DOMAIN Nothing = {}
    BY DEF Nothing
  <2> QED
    BY <2>2, <2>3 DEF LookInv, LookFields
<1>4. CASE ReadStates
  <2> DEFINE found == look.near \cap DOMAIN nodes
  <2>1. CASE \A e \in found : nodes[e].stats # Nil
    <3>1. look' = [look EXCEPT !.step = "nexts", !.sound = Sound, !.states = [e \in found |-> nodes[e].stats]]
      BY <1>4, <2>1 DEF ReadStates
    <3>2. /\ DOMAIN look' = LookFields /\ look'.step = "nexts" /\ look'.sound = Sound
          /\ look'.states = [e \in found |-> nodes[e].stats] /\ look'.nexts = look.nexts
      BY <1>1, <3>1 DEF LookFields
    <3>3. \A e \in DOMAIN look'.states : IsSupport(look'.states[e])
      BY <2>1, <3>2 DEF TurnsInv, StatsInv
    <3>4. look'.sound => look.sound
      BY <3>2 DEF Sound
    <3> QED
      BY <3>2, <3>3, <3>4 DEF LookInv, LookFields
  <2>2. CASE ~ \A e \in found : nodes[e].stats # Nil
    <3>1. look' = [look EXCEPT !.step = "refused"]
      BY <1>4, <2>2 DEF ReadStates
    <3> QED
      BY <1>1, <3>1 DEF LookInv, LookFields
  <2> QED
    BY <2>1, <2>2
<1>5. CASE ReadNexts
  <2> DEFINE out == {r \in DOMAIN rels : r[1] = Level /\ r[2] \in look.near}
             nexts == [r \in out |-> [num |-> rels[r].num, good |-> rels[r].good, action |-> nodes[r[3]].stats]]
  <2>1. look' = [look EXCEPT !.step = "base", !.sound = Sound, !.nexts = nexts]
    BY <1>5 DEF ReadNexts
  <2> HIDE DEF nexts
  <2>2. /\ DOMAIN look' = LookFields /\ look'.step = "base" /\ look'.sound = Sound
        /\ look'.states = look.states /\ look'.nexts = nexts
    BY <1>1, <2>1 DEF LookFields
  <2>3. ASSUME NEW r \in DOMAIN nexts
        PROVE  /\ nexts[r].action # Nil => IsSupport(nexts[r].action)
               /\ "build" \in done /\ nexts[r].good # Nil => nexts[r].good <= nexts[r].num
    <3>1. /\ r \in DOMAIN rels /\ nexts[r].num = rels[r].num /\ nexts[r].good = rels[r].good
          /\ nexts[r].action = nodes[r[3]].stats
      BY DEF nexts
    <3>2. r[3] \in DOMAIN nodes
      BY <3>1 DEF GraphInv, RelsOk
    <3> QED
      BY <3>1, <3>2 DEF TurnsInv, StatsInv, BuiltInv, Holds
  <2>4. look'.sound => "build" \in done
    BY <2>2 DEF Sound
  <2> QED
    BY <2>2, <2>3, <2>4 DEF LookInv, LookFields
<1>6. CASE ReadBase
  <2> DEFINE held == {e \in AllStates : nodes[e].stats # Nil}
             ns == [e \in held |-> nodes[e].stats.n]
             goods == [e \in held |-> nodes[e].stats.good]
             n == Sum(ns, held)
             good == Sum(goods, held)
             whole == n > 0 /\ \A r \in DOMAIN look.nexts :
                                 look.nexts[r].good # Nil /\ look.nexts[r].action # Nil
  <2>0. look' = IF whole THEN [look EXCEPT !.step = "answered", !.sound = Sound, !.base = [n |-> n, good |-> good]]
                ELSE [look EXCEPT !.step = "broken"]
    BY <1>6 DEF ReadBase
  <2>1. good <= n
    <3>1. \A e \in held : e \in DOMAIN nodes /\ nodes[e].stats # Nil
      BY DEF AllStates
    <3>2. IsFiniteSet(held)
      <4>1. IsFiniteSet(DOMAIN nodes)
        BY DEF TurnsInv, NumbersInv
      <4> HIDE DEF held
      <4> QED
        BY <3>1, <4>1, FS_Subset
    <3>3. \A e \in held : goods[e] \in Nat /\ ns[e] \in Nat /\ goods[e] <= ns[e]
      BY <3>1 DEF TurnsInv, StatsInv, IsSupport
    <3> HIDE DEF held, ns, goods
    <3> QED
      BY <3>2, <3>3, SumAtMost
  <2> HIDE DEF n, good
  <2>2. CASE whole
    <3>1. look' = [look EXCEPT !.step = "answered", !.sound = Sound, !.base = [n |-> n, good |-> good]]
      BY <2>0, <2>2
    <3>2. /\ DOMAIN look' = LookFields /\ look'.sound = Sound
          /\ look'.states = look.states /\ look'.nexts = look.nexts
          /\ look'.base.n = n /\ look'.base.good = good
      BY <1>1, <3>1 DEF LookFields
    <3>3. look'.sound => look.sound
      BY <3>2 DEF Sound
    <3>4. \A r \in DOMAIN look'.nexts : look'.nexts[r].good # Nil /\ look'.nexts[r].action # Nil
      BY <2>2, <3>2
    <3> HIDE DEF whole
    <3> QED
      BY <2>1, <3>2, <3>3, <3>4 DEF LookInv, LookFields
  <2>3. CASE ~ whole
    <3>1. look' = [look EXCEPT !.step = "broken"]
      BY <2>0, <2>3
    <3> HIDE DEF whole
    <3> QED
      BY <1>1, <3>1 DEF LookInv, LookFields
  <2> QED
    BY <2>2, <2>3
<1> QED
  BY <1>2, <1>3, <1>4, <1>5, <1>6 DEF OutlookNext, Ask, outlookVars

-----------------------------------------------------------------------------
(* Every state *)

LEMMA TurnsInit == OutlookInit => TurnsInv /\ LookInv
<1> SUFFICES ASSUME OutlookInit PROVE TurnsInv /\ LookInv
  OBVIOUS
<1>1. /\ annotations = Nil /\ observations = Nil /\ outcomes = Nil /\ types = Nil
      /\ nodes = Nothing /\ rels = Nothing /\ part = Nothing
      /\ job = Idle /\ left \in Budgets /\ done = {} /\ look = NoLook
  BY DEF OutlookInit, Init
<1>2. DOMAIN Nothing = {}
  BY DEF Nothing
<1>3. job.stage = "none" /\ "stage" \in DOMAIN job
  BY <1>1 DEF Idle
<1>4. left \in [Commands -> Nat]
  BY <1>1, ProcessAssumption
<1>5. FilesInv
  BY <1>1, <1>3, <1>4 DEF FilesInv
<1>6. NumbersInv /\ StatsInv /\ BuiltInv /\ AbsorbedInv
  BY <1>1, <1>2, FS_EmptySet DEF NumbersInv, StatsInv, BuiltInv, AbsorbedInv
<1>7. MadeInv /\ BuildInv /\ ClimbInv /\ LiftInv /\ CarryInv /\ AbsorbInv /\ UndoneInv
  BY <1>3 DEF MadeInv, BuildInv, ClimbInv, LiftInv, CarryInv, AbsorbInv, UndoneInv, Lifting, Carrying, Absorbing
<1>8. LookInv
  <2>1. DOMAIN look = LookFields /\ look.step = "none" /\ look.states = Nothing /\ look.nexts = Nothing
    BY <1>1 DEF NoLook, LookFields
  <2> QED
    BY <1>2, <2>1 DEF LookInv, LookFields
<1> QED
  BY <1>5, <1>6, <1>7, <1>8 DEF TurnsInv

LEMMA StageSteps ==
  ASSUME TurnsInv, GraphInv, GraphInv', Build \/ Abstract \/ Absorb
  PROVE  TurnsInv'
<1>1. CASE Build
  <2>1. ASSUME NEW kind, NEW step, NEW next, NodesOrder(kind, step, next), BuildNodes(kind, step, next) PROVE TurnsInv'
    <3>1. kind \in Kinds
      BY <2>1 DEF NodesOrder, Kinds
    <3> QED
      BY <2>1, <3>1, BuildNodesStep
  <2>2. ASSUME NEW kind, NEW step, NEW next, RelsOrder(kind, step, next), BuildRels(kind, step, next) PROVE TurnsInv'
    <3>1. kind \in Kinds
      BY <2>2 DEF RelsOrder, Kinds
    <3> QED
      BY <2>2, <3>1, BuildRelsStep
  <2>3. /\ NodesOrder("state", "state nodes", "action nodes") /\ NodesOrder("action", "action nodes", "state rels")
        /\ RelsOrder("state", "state rels", "action rels") /\ RelsOrder("action", "action rels", "record")
    BY DEF NodesOrder, RelsOrder
  <2> QED
    BY Zenon, <1>1, <2>1, <2>2, <2>3, BuildStartStep, BuildDeleteStep, BuildRecordStep DEF Build
<1>2. CASE Abstract
  <2>1. ASSUME NEW kind, NEW step, ParentsOrder(kind, step), Parents(kind, step) PROVE TurnsInv'
    <3>1. kind \in Kinds
      BY <2>1 DEF ParentsOrder, Kinds
    <3> QED
      BY <2>1, <3>1, ParentsStep
  <2>2. ASSUME NEW kind, NEW step, TransOrder(kind, step), Transitions(kind, step) PROVE TurnsInv'
    <3>1. kind \in Kinds
      BY <2>2 DEF TransOrder, Kinds
    <3> QED
      BY <2>2, <3>1, TransitionsStep
  <2>3. /\ ParentsOrder("state", "state parents") /\ ParentsOrder("action", "action parents")
        /\ TransOrder("state", "state rels") /\ TransOrder("action", "action rels")
    BY DEF ParentsOrder, TransOrder
  <2> QED
    BY Zenon, <1>2, <2>1, <2>2, <2>3, StartStep, ClearStep, GroupStep, AbstractEndStep DEF Abstract
<1>3. CASE Absorb
  <2>1. ASSUME NEW kind, NEW step, NEW next, NodesOrder(kind, step, next), AbsorbNodes(kind, step, next) PROVE TurnsInv'
    <3>1. kind \in Kinds
      BY <2>1 DEF NodesOrder, Kinds
    <3> QED
      BY <2>1, <3>1, AbsorbNodesStep
  <2>2. ASSUME NEW kind, NEW step, AbsorbOrder(kind, step), AbsorbRels(kind, step) PROVE TurnsInv'
    <3>1. kind \in Kinds
      BY <2>2 DEF AbsorbOrder, Kinds
    <3> QED
      BY <2>2, <3>1, AbsorbRelsStep
  <2>3. /\ NodesOrder("state", "state nodes", "action nodes") /\ NodesOrder("action", "action nodes", "state rels")
        /\ AbsorbOrder("state", "state rels") /\ AbsorbOrder("action", "action rels")
    BY DEF NodesOrder, AbsorbOrder
  <2> QED
    BY Zenon, <1>3, <2>1, <2>2, <2>3, AbsorbStartStep, AbsorbRemoveStep, AbsorbEndStep DEF Absorb
<1> QED
  BY <1>1, <1>2, <1>3

LEMMA TurnsStep ==
  ASSUME TurnsInv, GraphInv, [OutlookNext]_outlookVars
  PROVE  TurnsInv'
<1>1. GraphInv'
  BY GraphStep
<1>2. CASE Build \/ Abstract \/ Absorb
  BY <1>1, <1>2, StageSteps
<1>3. CASE Annotate \/ Outcomes
  BY <1>3, FilesSteps
<1>4. CASE Kill
  BY <1>4, KillStep
<1>5. CASE UNCHANGED vars \/ Locate
  BY <1>5, StutterStands
<1> QED
  BY <1>2, <1>3, <1>4, <1>5 DEF OutlookNext, Ask, ReadStates, ReadNexts, ReadBase, outlookVars, Next

\* In every graph the stages, whole or killed, leave, what a build holds of its
\* turns, what the levels above carry of it, and what the absorption wrote.
THEOREM TurnsKept == OutlookSpec => [](GraphInv /\ TurnsInv /\ LookInv)
<1>1. OutlookInit => GraphInv /\ TurnsInv /\ LookInv
  BY GraphInit, TurnsInit DEF OutlookInit
<1>2. GraphInv /\ TurnsInv /\ LookInv /\ [OutlookNext]_outlookVars => (GraphInv /\ TurnsInv /\ LookInv)'
  BY GraphStep, TurnsStep, LookStep
<1> QED
  BY <1>1, <1>2, PTL DEF OutlookSpec

\* In every state the files, the graph and the stage have their types: what the
\* stages write of an element are numbers, whole or killed, and no relationship
\* and no element points at one that is not there (build.lift, abstract.climb,
\* absorb.run).
THEOREM ProcessTyped == OutlookSpec => []TypeOK
<1>1. GraphInv /\ TurnsInv /\ LookInv => TypeOK
  BY TypesHold DEF TurnsInv
<1> QED
  BY <1>1, TurnsKept, PTL

\* At every level that is whole an element's turns are those that ended at it
\* and those that led on from it: build.lift counts each turn of a conversation
\* once, and abstract.climb drops none between two levels.
THEOREM CountsConserved == OutlookSpec => []Conserved
<1>1. GraphInv /\ TurnsInv /\ LookInv => Conserved
  BY ConservedHolds DEF TurnsInv
<1> QED
  BY <1>1, TurnsKept, PTL

\* Once the levels stand, a transition of every level is the sum of those of the
\* first that abstract.climb carries into it; and once the outcomes are absorbed
\* so is what absorb.run gives it of those that ended well.
THEOREM LevelsRollUp == OutlookSpec => []RollsUp
<1>1. GraphInv /\ TurnsInv /\ LookInv => RollsUp
  BY RollsUpHolds DEF TurnsInv
<1> QED
  BY <1>1, TurnsKept, PTL

\* Once the outcomes are absorbed an element's conversations are no more than
\* its turns, each ended in one kind, no fewer than went through any element
\* grouped in it and no more than went through all of them (absorb.run).
THEOREM SupportCounts == OutlookSpec => []Supported
<1>1. GraphInv /\ TurnsInv /\ LookInv => Supported
  BY SupportedHolds DEF TurnsInv
<1> QED
  BY <1>1, TurnsKept, PTL

\* An outlook that answers, read while any stage runs or was killed beside it,
\* pools counts that are odds: no more ended well than went through
\* (outlook.at, reading the graph in three queries).
THEOREM OutlookIsOdds == OutlookSpec => []Odds
<1>1. GraphInv /\ TurnsInv /\ LookInv => Odds
  BY OddsHold
<1> QED
  BY <1>1, TurnsKept, PTL
=============================================================================
