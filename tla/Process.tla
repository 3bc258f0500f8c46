------------------------------ MODULE Process -------------------------------
(***************************************************************************)
(* The process graph from text (src/qlsc/process/): five stages, each a    *)
(* command of its own that reads what the ones before it left in files     *)
(* (the build directory) and in the `process` database, and writes its     *)
(* own.  Each statement is a transaction; a stage that is killed leaves    *)
(* what it has written, and is run again by hand.                          *)
(*                                                                         *)
(* An element's id is <<kind, level, what it is made of>>: its name at the *)
(* first level, its children above.                                        *)
(***************************************************************************)
EXTENDS Turns, Sums

CONSTANTS
  Readings,    \* the sets of turns an annotation may read without a problem
  Groupings,   \* the names the groups of turns may get: what GDS and the LLM make of them
  Near,        \* {n, m}: names the fold takes for one (process.fold_similarity)
  Types,       \* kinds of outcome
  Endings,     \* what the outcomes may be: a kind and whether it went well, or no answer
  Levelled,    \* the kinds that are grouped above the first level (levels.kinds)
  MinNodes,    \* levels.min_nodes
  MaxLevels,   \* levels.max_levels
  Shrink,      \* levels.shrink, in percent
  Budgets,     \* how often each command may be run: a bound of the model
  Nil          \* no value, no file

Stages == {"annotate", "build", "abstract", "outcomes", "absorb"}
Commands == Stages \cup {"outlook"}

ASSUME ProcessAssumption ==
  /\ Readings \subseteq SUBSET Events
  /\ Groupings \subseteq [Events -> Nat]
  /\ Endings \subseteq [Conversations -> [type : Types, good : 0 .. 1] \cup {Nil}]
  /\ IsFiniteSet(Types)
  /\ Nil \notin Nat /\ \A o \in Types, g \in 0 .. 1 : Nil # [type |-> o, good |-> g]
  /\ Levelled \subseteq Kinds
  /\ MinNodes \in Nat \ {0} /\ MaxLevels \in Nat /\ Shrink \in 0 .. 99
  /\ Budgets \subseteq [Commands -> Nat]

VARIABLES
  annotations,  \* annotations-turn.ndjson: the turns with no problem, or Nil
  observations, \* observations.ndjson: each turn's element, or Nil
  outcomes,     \* outcomes.ndjson: each conversation's, or Nil
  types,        \* outcome_types.json, or Nil
  nodes,        \* the States and Actions, by id
  rels,         \* SELECTS and LEADS_TO, by <<level, from, to>>
  part,         \* PART_OF: each grouped element's parent
  job,          \* the stage that is running
  left,         \* how often each command may still be run (the model's)
  done          \* the stages whose whole work the graph holds (history)

files == <<annotations, observations, outcomes, types>>
graph == <<nodes, rels, part>>
vars == <<annotations, observations, outcomes, types, nodes, rels, part, job, left, done>>

Idle == [stage |-> "none"]
Nothing == [x \in {} |-> Nil]

Init ==
  /\ annotations = Nil /\ observations = Nil /\ outcomes = Nil /\ types = Nil
  /\ nodes = Nothing /\ rels = Nothing /\ part = Nothing
  /\ job = Idle /\ left \in Budgets /\ done = {}

Start(stage) ==
  /\ job = Idle /\ left[stage] > 0
  /\ left' = [left EXCEPT ![stage] = @ - 1]

LevelOf(e) == nodes[e].level
At(level, kind) == {e \in DOMAIN nodes : LevelOf(e) = level /\ e[1] = kind}
First == [k \in Kinds |-> At(1, k)]

NodeUnlevelled(level, count, ends) ==   \* mutant of Node: every node is at the first level
  [level |-> 1, count |-> count, ends |-> ends, stats |-> Nil]
\* A node with no props of the absorption's.
Node(level, count, ends) == [level |-> level, count |-> count, ends |-> ends, stats |-> Nil]
\* CREATE (a)-[]->(b) with num for every pair whose ends are there: a second
\* relationship beside one that is there adds to what the two hold.
Created(level, pairs, number) ==
  LET new == {<<level, p[1], p[2]>> : p \in {q \in pairs : q[1] \in DOMAIN nodes /\ q[2] \in DOMAIN nodes}}
  IN  [r \in DOMAIN rels \cup new |->
        IF r \notin new THEN rels[r]
        ELSE [num |-> number[<<r[2], r[3]>>] + (IF r \in DOMAIN rels THEN rels[r].num ELSE 0),
              good |-> IF r \in DOMAIN rels THEN rels[r].good ELSE Nil]]
DetachNodes(kept) ==   \* mutant of Detach: the relationships stay
  nodes' = [e \in kept |-> nodes[e]] /\ rels' = rels
  /\ part' = [c \in {c \in DOMAIN part : c \in kept /\ part[c] \in kept} |-> part[c]]
\* DETACH DELETE of the nodes not in `kept`.
Detach(kept) ==
  /\ nodes' = [e \in kept |-> nodes[e]]
  /\ rels' = [r \in {r \in DOMAIN rels : r[2] \in kept /\ r[3] \in kept} |-> rels[r]]
  /\ part' = [c \in {c \in DOMAIN part : c \in kept /\ part[c] \in kept} |-> part[c]]

-----------------------------------------------------------------------------
(* annotate: one call per turn, two attempts; a turn with a problem is     *)
(* recorded and not a turn for the build.                                  *)

Annotate ==
  /\ Start("annotate")
  /\ annotations' \in Readings
  /\ UNCHANGED <<observations, outcomes, types, nodes, rels, part, job, done>>

-----------------------------------------------------------------------------
(* build *)

\* Groups largest first, by name: each joins the first kept one its name is
\* near, so folding never chains.
Largest(size, m, n) == size[m] > size[n] \/ (size[m] = size[n] /\ m < n)
NearBy(m, n) == m = n \/ {m, n} \in Near
Fold(size) ==
  LET names == DOMAIN size
      kept == CHOOSE K \in SUBSET names : \A n \in names :
                n \in K <=> \A m \in K : Largest(size, m, n) => ~ NearBy(m, n)
      near(n) == {m \in kept : NearBy(m, n)}
  IN  [n \in names |-> IF n \in kept THEN n
                       ELSE CHOOSE m \in near(n) : \A l \in near(n) \ {m} : Largest(size, m, l)]

\* Each turn's element: the fold of the group it was put in.
Elements(rows, grouping) ==
  LET names(k) == {grouping[t] : t \in {u \in rows : Kind(u) = k}}
      size(k) == [n \in names(k) |->
                   Cardinality({t \in rows : Kind(t) = k /\ grouping[t] = n})]
      folded == [k \in Kinds |-> Fold(size(k))]
  IN  [t \in rows |-> <<Kind(t), 1, folded[Kind(t)][grouping[t]]>>]

BuildStart ==
  /\ Start("build")
  /\ annotations # Nil
  /\ \E g \in Groupings :
       job' = [stage |-> "build", step |-> "delete", of |-> Elements(annotations, g)]
  /\ UNCHANGED <<annotations, observations, outcomes, types, nodes, rels, part, done>>

BuildDelete ==
  /\ job.stage = "build" /\ job.step = "delete"
  /\ Detach({})
  /\ job' = [job EXCEPT !.step = "state nodes"]
  /\ done' = {}
  /\ UNCHANGED <<annotations, observations, outcomes, types, left>>

BuildNodes(kind, step, next) ==
  /\ job.stage = "build" /\ job.step = step
  /\ LET rows == DOMAIN job.of
         new == {job.of[t] : t \in {u \in rows : Kind(u) = kind}}
     IN  nodes' = [e \in DOMAIN nodes \cup new |->
                    IF e \in new THEN Node(1, Count(rows, job.of, e), Ends(rows, job.of, e))
                    ELSE nodes[e]]
  /\ job' = [job EXCEPT !.step = next]
  /\ UNCHANGED <<annotations, observations, outcomes, types, rels, part, left, done>>

BuildRels(kind, step, next) ==
  /\ job.stage = "build" /\ job.step = step
  /\ LET rows == DOMAIN job.of
         pairs == {p \in Lifted(rows, job.of) : p[1][1] = kind}
     IN  rels' = Created(1, pairs, [p \in pairs |-> Num(rows, job.of, p[1], p[2])])
  /\ job' = [job EXCEPT !.step = next]
  /\ UNCHANGED <<annotations, observations, outcomes, types, nodes, part, left, done>>

\* The graph is read back, and only then are the observations written.
Landed ==
  /\ DOMAIN nodes = {job.of[t] : t \in DOMAIN job.of}
  /\ Cardinality(DOMAIN rels) = Cardinality(Lifted(DOMAIN job.of, job.of))

BuildRecord ==
  /\ job.stage = "build" /\ job.step = "record"
  /\ IF Landed
     THEN observations' = job.of /\ done' = {"build"}
     ELSE UNCHANGED <<observations, done>>
  /\ job' = Idle
  /\ UNCHANGED <<annotations, outcomes, types, nodes, rels, part, left>>

Build ==
  \/ BuildStart \/ BuildDelete
  \/ BuildNodes("state", "state nodes", "action nodes")
  \/ BuildNodes("action", "action nodes", "state rels")
  \/ BuildRels("state", "state rels", "action rels")
  \/ BuildRels("action", "action rels", "record")
  \/ BuildRecord

-----------------------------------------------------------------------------
(* abstract: the levels above the first *)

AbstractStart ==
  /\ Start("abstract")
  /\ Detach({e \in DOMAIN nodes : LevelOf(e) < 2})
  /\ job' = [stage |-> "abstract", step |-> "clear"]
  /\ done' = done \ {"abstract", "absorb"}
  /\ UNCHANGED <<annotations, observations, outcomes, types>>

NoRels == {}   \* mutant of FirstRels: every level's are deleted
FirstRels == {r \in DOMAIN rels : r[1] < 2}

AbstractClear ==
  /\ job.stage = "abstract" /\ job.step = "clear"
  /\ rels' = [r \in FirstRels |-> rels[r]]
  /\ IF observations = Nil
     THEN job' = Idle
     ELSE job' = [stage |-> "abstract", step |-> "group", level |-> 2, top |-> First,
                  of |-> observations, stop |-> {}, made |-> [k \in Kinds |-> {}], past |-> <<>>]
  /\ UNCHANGED <<annotations, observations, outcomes, types, nodes, part, left, done>>

\* Leiden's communities of two or more, over the nodes a kind has at its top.
Communities(top) ==
  {P \in SUBSET {g \in SUBSET top : Cardinality(g) > 1} :
     \A g, h \in P : g = h \/ g \cap h = {}}
Reduced(top, P) == Cardinality(top) - Cardinality(UNION P) + Cardinality(P)
Open(k) == k \notin job.stop /\ k \in Levelled /\ Cardinality(job.top[k]) > MinNodes
\* What a kind's next level may be made of: nothing, or groups that shrink it.
Makes(k) ==
  {{}} \cup {P \in Communities(job.top[k]) :
               Open(k) /\ P # {} /\ 100 * Reduced(job.top[k], P) <= Shrink * Cardinality(job.top[k])}

Group ==
  /\ job.stage = "abstract" /\ job.step = "group"
  /\ \E s \in Makes("state"), a \in Makes("action") :
       LET made == [k \in Kinds |-> IF k = "state" THEN s ELSE a]
       IN  job' = IF s = {} /\ a = {}
                  THEN [job EXCEPT !.step = "state rels", !.level = 2]
                  ELSE [job EXCEPT !.step = "state parents", !.made = made,
                                   !.stop = @ \cup {k \in Kinds : made[k] = {}}]
  /\ UNCHANGED <<annotations, observations, outcomes, types, nodes, rels, part, left, done>>

Counts == [e \in DOMAIN nodes |-> nodes[e].count]
EndsOf == [e \in DOMAIN nodes |-> nodes[e].ends]

Parents(kind, step) ==
  /\ job.stage = "abstract" /\ job.step = step
  /\ LET groups == job.made[kind]
         grouped == UNION groups
         parent(c) == <<kind, job.level, CHOOSE g \in groups : c \in g>>
         new == {<<kind, job.level, g>> : g \in groups}
         top == [job.top EXCEPT ![kind] = (@ \ grouped) \cup new]
         of == [t \in DOMAIN job.of |->
                  IF job.of[t] \in grouped THEN parent(job.of[t]) ELSE job.of[t]]
         last == job.level = MaxLevels + 1
     IN  /\ nodes' = [e \in DOMAIN nodes \cup new |->
                        IF e \in new THEN Node(job.level, Sum(Counts, e[3]), Sum(EndsOf, e[3]))
                        ELSE nodes[e]]
         /\ part' = [c \in DOMAIN part \cup grouped |->
                       IF c \in grouped THEN parent(c) ELSE part[c]]
         /\ job' = IF kind = "state"
                   THEN [job EXCEPT !.step = "action parents", !.top = top, !.of = of]
                   ELSE [job EXCEPT !.step = IF last THEN "state rels" ELSE "group",
                                    !.level = IF last THEN 2 ELSE @ + 1,
                                    !.top = top, !.of = of,
                                    !.past = Append(@, [top |-> top, of |-> of])]
  /\ UNCHANGED <<annotations, observations, outcomes, types, rels, left, done>>

\* Names are given and transitions lifted level by level, once every level
\* is there; when there is no level more, the parents are counted.
Transitions(kind, step) ==
  /\ job.stage = "abstract" /\ job.step = step /\ job.level - 1 \in DOMAIN job.past
  /\ LET at == job.past[job.level - 1]
         rows == DOMAIN at.of
         pairs == {p \in Lifted(rows, at.of) : p[1] \in at.top[kind]}
     IN  rels' = Created(job.level, pairs, [p \in pairs |-> Num(rows, at.of, p[1], p[2])])
  /\ job' = IF kind = "state" THEN [job EXCEPT !.step = "action rels"]
            ELSE [job EXCEPT !.step = "state rels", !.level = @ + 1]
  /\ UNCHANGED <<annotations, observations, outcomes, types, nodes, part, left, done>>

AbstractEnd ==
  /\ job.stage = "abstract" /\ job.step = "state rels" /\ job.level - 1 \notin DOMAIN job.past
  /\ job' = Idle
  /\ done' = done \cup {"abstract"}
  /\ UNCHANGED <<annotations, observations, outcomes, types, nodes, rels, part, left>>

Abstract ==
  \/ AbstractStart \/ AbstractClear \/ Group
  \/ Parents("state", "state parents") \/ Parents("action", "action parents")
  \/ Transitions("state", "state rels") \/ Transitions("action", "action rels")
  \/ AbstractEnd

-----------------------------------------------------------------------------
(* outcomes: how each conversation ended, in two files *)

OutcomesWrite ==
  /\ Start("outcomes")
  /\ outcomes' \in Endings
  /\ job' = [stage |-> "outcomes", step |-> "types"]
  /\ UNCHANGED <<annotations, observations, types, nodes, rels, part, done>>

OutcomesTypes ==
  /\ job.stage = "outcomes"
  /\ types' = {outcomes[c].type : c \in {d \in Conversations : outcomes[d] # Nil}}
  /\ job' = Idle
  /\ UNCHANGED <<annotations, observations, outcomes, nodes, rels, part, left, done>>

Outcomes == OutcomesWrite \/ OutcomesTypes

-----------------------------------------------------------------------------
(* absorb: how the conversations through each element ended *)

AncestorBelow(e, level) ==   \* mutant of AncestorAt: an ancestor below the level
  LET up[x \in DOMAIN nodes \cup {e}] ==
        IF x \in DOMAIN part /\ LevelOf(part[x]) < level THEN up[part[x]] ELSE x
  IN  up[e]
\* The element that stands for e at a level: its highest ancestor no higher.
AncestorAt(e, level) ==
  LET up[x \in DOMAIN nodes \cup {e}] ==
        IF x \in DOMAIN part /\ LevelOf(part[x]) <= level THEN up[part[x]] ELSE x
  IN  up[e]

Levels == {LevelOf(e) : e \in DOMAIN nodes}
Ended == {c \in Conversations : outcomes[c] # Nil}
\* The turns the paths are made of, and the element each is in at a level.
Told == {t \in DOMAIN observations : t[1] \in Ended}
StandsAt(level) == [t \in Told |-> AncestorAt(observations[t], level)]

Through(of, e) == {t[1] : t \in {u \in Told : of[u] = e}}
Good(C) == Sum([c \in C |-> outcomes[c].good], C)
StatsByTurn(of, e) ==   \* mutant of Stats: a conversation counts each time it comes by
  LET C == Through(of, e)
  IN  [n |-> Cardinality({t \in Told : of[t] = e}), good |-> Good(C),
       kinds |-> [o \in Types |-> Cardinality({c \in C : outcomes[c].type = o})]]
Stats(of, e) ==
  LET C == Through(of, e)
  IN  [n |-> Cardinality(C), good |-> Good(C),
       kinds |-> [o \in Types |-> Cardinality({c \in C : outcomes[c].type = o})]]
NumGoodInto(of, a, b) ==   \* mutant of NumGood: whatever led to b
  Cardinality({p \in Pairs(Told) : of[p[2]] = b /\ outcomes[p[1][1]].good = 1})
NumGood(of, a, b) ==
  Cardinality({p \in Pairs(Told) : of[p[1]] = a /\ of[p[2]] = b /\ outcomes[p[1][1]].good = 1})

AbsorbStart ==
  /\ Start("absorb")
  /\ outcomes # Nil /\ types # Nil /\ observations # Nil /\ DOMAIN nodes # {}
  /\ nodes' = [e \in DOMAIN nodes |-> [nodes[e] EXCEPT !.stats = Nil]]
  /\ job' = [stage |-> "absorb", step |-> "remove"]
  /\ done' = done \ {"absorb"}
  /\ UNCHANGED <<annotations, observations, outcomes, types, rels, part>>

AbsorbRemove ==
  /\ job.stage = "absorb" /\ job.step = "remove"
  /\ rels' = [r \in DOMAIN rels |-> [rels[r] EXCEPT !.good = Nil]]
  /\ job' = [stage |-> "absorb", step |-> "state nodes", level |-> 1]
  /\ UNCHANGED <<annotations, observations, outcomes, types, nodes, part, left, done>>

AbsorbNodes(kind, step, next) ==
  /\ job.stage = "absorb" /\ job.step = step /\ job.level \in Levels
  /\ LET of == StandsAt(job.level)
         seen == {of[t] : t \in Told}
     IN  nodes' = [e \in DOMAIN nodes |->
                     IF e \in At(job.level, kind) \cap seen
                     THEN [nodes[e] EXCEPT !.stats = Stats(of, e)] ELSE nodes[e]]
  /\ job' = [job EXCEPT !.step = next]
  /\ UNCHANGED <<annotations, observations, outcomes, types, rels, part, left, done>>

AbsorbRels(kind, step) ==
  /\ job.stage = "absorb" /\ job.step = step
  /\ LET of == StandsAt(job.level)
         taken == {<<job.level, p[1], p[2]>> : p \in Lifted(Told, of)}
     IN  rels' = [r \in DOMAIN rels |->
                    IF r \in taken /\ r[2][1] = kind THEN [rels[r] EXCEPT !.good = NumGood(of, r[2], r[3])]
                    ELSE rels[r]]
  /\ job' = IF kind = "state" THEN [job EXCEPT !.step = "action rels"]
            ELSE [job EXCEPT !.step = "state nodes", !.level = @ + 1]
  /\ UNCHANGED <<annotations, observations, outcomes, types, nodes, part, left, done>>

\* Every element must hold a support count, or the stage fails.
AbsorbEnd ==
  /\ job.stage = "absorb" /\ job.step = "state nodes" /\ job.level \notin Levels
  /\ IF \A e \in DOMAIN nodes : nodes[e].stats # Nil
     THEN done' = done \cup {"absorb"}
     ELSE UNCHANGED done
  /\ job' = Idle
  /\ UNCHANGED <<annotations, observations, outcomes, types, nodes, rels, part, left>>

Absorb ==
  \/ AbsorbStart \/ AbsorbRemove
  \/ AbsorbNodes("state", "state nodes", "action nodes")
  \/ AbsorbNodes("action", "action nodes", "state rels")
  \/ AbsorbRels("state", "state rels") \/ AbsorbRels("action", "action rels")
  \/ AbsorbEnd

-----------------------------------------------------------------------------

\* A stage's process ends.  Killed as it writes the observations, it leaves
\* those it had written, the file's first ones.
Kill ==
  /\ job # Idle
  /\ job' = Idle
  /\ \/ UNCHANGED observations
     \/ /\ job.stage = "build" /\ job.step = "record"
        /\ \E u \in DOMAIN job.of :
             observations' = [t \in {v \in DOMAIN job.of : Earlier(v, u)} |-> job.of[t]]
  /\ UNCHANGED <<annotations, outcomes, types, nodes, rels, part, left, done>>

Next == Annotate \/ Build \/ Abstract \/ Outcomes \/ Absorb \/ Kill
Spec == Init /\ [][Next]_vars

-----------------------------------------------------------------------------
(* What is promised of the graph *)

\* The files, the graph and the stage have their types: an element's counts
\* are numbers, and nothing points at an element that is not there.
TypeOK ==
  /\ annotations \in (SUBSET Events) \cup {Nil}
  /\ observations # Nil => DOMAIN observations \subseteq Events
  /\ outcomes \in Endings \cup {Nil}
  /\ types \in (SUBSET Types) \cup {Nil}
  /\ \A e \in DOMAIN nodes :
       nodes[e].level \in Nat \ {0} /\ nodes[e].count \in Nat /\ nodes[e].ends \in Nat
  /\ \A r \in DOMAIN rels :
       /\ r[2] \in DOMAIN nodes /\ r[3] \in DOMAIN nodes
       /\ rels[r].num \in Nat /\ rels[r].good \in Nat \cup {Nil}
  /\ DOMAIN part \subseteq DOMAIN nodes
  /\ job.stage \in Stages \cup {"none"}
  /\ left \in [Commands -> Nat]
  /\ done \subseteq Stages

\* PART_OF leads up, from an element to one of its kind at a higher level,
\* whatever stage was killed where: the walks over it (ancestor_at) end.
Upward ==
  \A c \in DOMAIN part :
    part[c] \in DOMAIN nodes /\ LevelOf(part[c]) > LevelOf(c) /\ part[c][1] = c[1]

\* The elements the graph at a level is made of, by the walk the absorption
\* takes; and what leads from one.
Standing(level) == {AncestorAt(e, level) : e \in First["state"] \cup First["action"]}
From(level, e) == {r \in DOMAIN rels : r[1] = level /\ r[2] = e}
NumOf == [r \in DOMAIN rels |-> rels[r].num]
GoodOf == [r \in DOMAIN rels |-> IF rels[r].good = Nil THEN 0 ELSE rels[r].good]
Built(level) == "build" \in done /\ (level = 1 \/ "abstract" \in done)

\* At every level that is whole, an element's turns are those that ended and
\* those that led on: the probabilities out of it and its ends are the whole
\* of its count (build.lift, abstract.climb).
Conserved ==
  \A level \in Levels : Built(level) =>
    \A e \in Standing(level) : nodes[e].count = nodes[e].ends + Sum(NumOf, From(level, e))

\* A level's transitions are the first level's, carried up PART_OF: what the
\* climb lifted from the turns by its own record of them (`of`) is what the
\* walk over the graph finds; and once the outcomes are absorbed, so are the
\* cases of them that ended well, which are no more than all.
Beneath(r) ==
  {q \in DOMAIN rels : q[1] = 1 /\ AncestorAt(q[2], r[1]) = r[2] /\ AncestorAt(q[3], r[1]) = r[3]}
NumsRollUp ==
  /\ \A r \in DOMAIN rels : rels[r].num = Sum(NumOf, Beneath(r)) /\ r[2] \in Standing(r[1])
  /\ \A q \in DOMAIN rels, level \in Levels :
       q[1] = 1 => <<level, AncestorAt(q[2], level), AncestorAt(q[3], level)>> \in DOMAIN rels
GoodRollsUp ==
  \A r \in DOMAIN rels : GoodOf[r] = Sum(GoodOf, Beneath(r)) /\ GoodOf[r] <= rels[r].num
RollsUp ==
  {"build", "abstract"} \subseteq done => NumsRollUp /\ ("absorb" \in done => GoodRollsUp)

\* Once the outcomes are absorbed, every element says how many conversations
\* went through it: no more than its turns, each ended in one kind, and no
\* fewer than through any element grouped in it nor more than through all.
Supported ==
  {"build", "absorb"} \subseteq done =>
    \A e \in DOMAIN nodes :
      LET S == nodes[e].stats
          children == {c \in DOMAIN part : part[c] = e}
          n == [c \in children |-> nodes[c].stats.n]
      IN  /\ S.good <= S.n /\ S.n <= nodes[e].count
          /\ S.n = Sum(S.kinds, Types)
          /\ children # {} => S.n <= Sum(n, children) /\ \A c \in children : n[c] <= S.n

\* Only a build changes the first level: the levels above it and the
\* absorption write beside its elements, counts and transitions.
FirstLevel ==
  <<[e \in {e \in DOMAIN nodes : LevelOf(e) = 1} |-> <<nodes[e].count, nodes[e].ends>>],
    [r \in {r \in DOMAIN rels : r[1] = 1} |-> rels[r].num]>>
FirstLevelStands == [][job.stage # "build" => FirstLevel' = FirstLevel]_vars
=============================================================================
