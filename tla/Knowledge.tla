----------------------------- MODULE Knowledge -----------------------------
(***************************************************************************)
(* What agents learn and decide (src/qlsc/converse.py): Facts about things *)
(* in memory, each replacing its owner's current fact with the same        *)
(* predicate about the same thing, and Decisions resting on them.  Every   *)
(* statement is a transaction of its own, so the steps of two conversations*)
(* of one owner interleave, and a process may die between them.  The       *)
(* things are memory's nodes, which the sweep deletes and a recall fetches *)
(* again as new nodes.                                                     *)
(***************************************************************************)
EXTENDS Naturals

CONSTANTS
  Thing,      \* what facts are about: warehouse rows, and Entities
  Row,        \* the warehouse rows among them
  Owner,      \* principals
  Predicate,
  Learning,   \* the calls of learn in a behaviour, each run once
  Deciding,   \* the calls of decide
  None,       \* no value: null
  Serial,     \* the owners whose calls run one at a time
  MaxNodes    \* bound: how many nodes are ever made

Call == Learning \cup Deciding

ASSUME KnowledgeAssumption ==
  /\ Row \subseteq Thing
  /\ Learning \cap Deciding = {}
  /\ None \notin Thing \cup Owner \cup Predicate \cup Call \cup Nat
  /\ Serial \subseteq Owner
  /\ MaxNodes \in Nat

VARIABLES
  node,       \* the node of each thing in memory, None if it isn't there
  made,       \* how many nodes were made: the last one's element id
  facts,      \* the Facts, by the call that learned each
  supersedes, \* <<new, old, because>>
  decisions,  \* the Decisions, by the call that made each
  job,        \* what each call is at
  now         \* the clock: later at every reading

vars == <<node, made, facts, supersedes, decisions, job, now>>

NoJob == [pc |-> "new", by |-> None, thing |-> None, node |-> None,
          predicate |-> None, because |-> None, at |-> 0, basis |-> None]

Running(c) == job[c].pc \notin {"new", "done", "dead"}
MayBegin(c, o) ==
  /\ job[c].pc = "new"
  /\ o \in Serial => \A d \in Call : job[d].by = o => ~Running(d)

Live == {node[t] : t \in Thing} \ {None}

Init ==
  /\ node = [t \in Thing |-> None] /\ made = 0
  /\ facts = [l \in {} |-> None]
  /\ supersedes = {}
  /\ decisions = [d \in {} |-> None]
  /\ job = [c \in Call |-> NoJob]
  /\ now = 1

\* A call that is over forgets all but what it was about
Over(c, pc) ==
  job' = [job EXCEPT ![c] = [NoJob EXCEPT !.pc = pc, !.thing = job[c].thing]]

-----------------------------------------------------------------------------
(* learn *)

\* The thing's node, seen first, and the time
LearnBegin(l) ==
  /\ \E o \in Owner, t \in Thing, p \in Predicate, b \in {"changed", "corrected"} :
       /\ MayBegin(l, o) /\ node[t] # None
       /\ job' = [job EXCEPT ![l] = [pc |-> "fact", by |-> o, thing |-> t,
                    node |-> node[t], predicate |-> p, because |-> b,
                    at |-> now, basis |-> None]]
  /\ now' = now + 1
  /\ UNCHANGED <<node, made, facts, supersedes, decisions>>

\* FACT: none is created, and the call fails, if the node has gone
FactWrite(l) ==
  LET j == job[l] IN
  /\ j.pc = "fact"
  /\ \/ /\ j.node \in Live
        /\ facts' = [f \in DOMAIN facts \cup {l} |->
                       IF f = l THEN [about |-> j.node, by |-> j.by,
                                      predicate |-> j.predicate, at |-> j.at,
                                      until |-> None]
                                ELSE facts[f]]
        /\ job' = [job EXCEPT ![l].pc = "supersede"]
     \/ /\ j.node \notin Live
        /\ Over(l, "dead")
        /\ UNCHANGED facts
  /\ UNCHANGED <<node, made, supersedes, decisions, now>>

\* The owner's facts with this predicate about this node that still hold
Current(o, n, p) ==
  {f \in DOMAIN facts : /\ facts[f].by = o /\ facts[f].about = n
                        /\ facts[f].predicate = p /\ facts[f].until = None}

OldOfAnyone(l) ==   \* mutant of Old: whoever learned it
  {f \in DOMAIN facts : /\ f # l /\ facts[f].predicate = job[l].predicate
                        /\ facts[f].about = job[l].node /\ facts[f].until = None}
OldEver(l) ==    \* mutant of Old: superseded before, too
  {f \in DOMAIN facts : /\ f # l /\ facts[f].by = job[l].by
                        /\ facts[f].about = job[l].node
                        /\ facts[f].predicate = job[l].predicate}
OldEarlier(l) ==   \* mutant of Old: only what was recorded before this one
  {f \in Current(job[l].by, job[l].node, job[l].predicate) :
     f # l /\ facts[f].at < job[l].at}
Old(l) == Current(job[l].by, job[l].node, job[l].predicate) \ {l}

\* SUPERSEDE: changed, the old one held until now; corrected, it never held
Supersede(l) ==
  LET j == job[l] IN
  /\ j.pc = "supersede"
  /\ facts' = [f \in DOMAIN facts |->
                 IF f \in Old(l)
                   THEN [facts[f] EXCEPT !.until =
                           IF j.because = "corrected" THEN facts[f].at ELSE j.at]
                   ELSE facts[f]]
  /\ supersedes' = supersedes \cup {<<l, f, j.because>> : f \in Old(l)}
  /\ Over(l, "done")
  /\ UNCHANGED <<node, made, decisions, now>>

-----------------------------------------------------------------------------
(* decide, on the owner's current fact about the same thing *)

DecideBegin(d) ==
  /\ \E o \in Owner, t \in Thing, p \in Predicate :
       /\ MayBegin(d, o) /\ node[t] # None
       /\ job' = [job EXCEPT ![d] = [pc |-> "basis", by |-> o, thing |-> t,
                    node |-> node[t], predicate |-> p, because |-> None,
                    at |-> 0, basis |-> None]]
  /\ UNCHANGED <<node, made, facts, supersedes, decisions, now>>

\* CURRENT_FACT: the latest recorded of those that hold
LatestOrNone(S) ==   \* mutant of LatestOf: nothing found is not refused
  IF S = {} THEN {None} ELSE {f \in S : \A g \in S : facts[g].at =< facts[f].at}
LatestOf(S) == {f \in S : \A g \in S : facts[g].at =< facts[f].at}

\* Nothing to base a decision on: refused
DecideBasis(d) ==
  LET j == job[d]
      hit == LatestOf(Current(j.by, j.node, j.predicate)) IN
  /\ j.pc = "basis"
  /\ \/ hit = {} /\ Over(d, "dead")
     \/ \E f \in hit :
          job' = [job EXCEPT ![d] = [j EXCEPT !.pc = "decision", !.basis = f]]
  /\ UNCHANGED <<node, made, facts, supersedes, decisions, now>>

\* DECISION, with the time; the node gone, nothing is created and nothing said
DecisionWrite(d) ==
  LET j == job[d] IN
  /\ j.pc = "decision"
  /\ decisions' = [x \in DOMAIN decisions \cup (IF j.node \in Live THEN {d} ELSE {}) |->
                     IF x = d THEN [about |-> j.node, by |-> j.by,
                                    basis |-> j.basis, at |-> now]
                              ELSE decisions[x]]
  /\ now' = now + 1
  /\ Over(d, "done")
  /\ UNCHANGED <<node, made, facts, supersedes>>

\* The process dies between two statements
Kill(c) ==
  /\ Running(c)
  /\ Over(c, "dead")
  /\ UNCHANGED <<node, made, facts, supersedes, decisions, now>>

-----------------------------------------------------------------------------
(* The things' nodes, as memory keeps them (module Memory) *)

\* A recall fetches a row that isn't there; entity merges an Entity
Remember(t) ==
  /\ node[t] = None /\ made < MaxNodes
  /\ made' = made + 1
  /\ node' = [node EXCEPT ![t] = made + 1]
  /\ UNCHANGED <<facts, supersedes, decisions, job, now>>

\* The sweep DETACH DELETEs a row: what was ABOUT it is about nothing
Detach(f, n) ==
  [x \in DOMAIN f |-> IF f[x].about = n THEN [f[x] EXCEPT !.about = None] ELSE f[x]]
Sweep(t) ==
  /\ t \in Row /\ node[t] # None
  /\ facts' = Detach(facts, node[t])
  /\ decisions' = Detach(decisions, node[t])
  /\ node' = [node EXCEPT ![t] = None]
  /\ UNCHANGED <<made, supersedes, job, now>>

-----------------------------------------------------------------------------
Learn(l) == LearnBegin(l) \/ FactWrite(l) \/ Supersede(l)
Decide(d) == DecideBegin(d) \/ DecideBasis(d) \/ DecisionWrite(d)

Next ==
  \/ \E l \in Learning : Learn(l)
  \/ \E d \in Deciding : Decide(d)
  \/ \E c \in Call : Kill(c)
  \/ \E t \in Thing : Remember(t) \/ Sweep(t)

Spec == Init /\ [][Next]_vars

-----------------------------------------------------------------------------
(* What knowledge promises *)

Nodes == 1 .. MaxNodes
FactType == [about : Nodes \cup {None}, by : Owner, predicate : Predicate,
             at : Nat, until : Nat \cup {None}]
DecisionType == [about : Nodes \cup {None}, by : Owner, basis : Learning, at : Nat]
JobType ==
  [pc : {"new", "fact", "supersede", "basis", "decision", "done", "dead"},
   by : Owner \cup {None}, thing : Thing \cup {None},
   node : Nodes \cup {None}, predicate : Predicate \cup {None},
   because : {"changed", "corrected", None}, at : Nat,
   basis : Learning \cup {None}]

\* A call that has begun knows its owner, its thing and its node; a fact still to
\* supersede is there
CallOk(c) ==
  LET j == job[c] IN
  /\ j.pc \in {"fact", "supersede", "basis", "decision"} =>
       /\ j.by \in Owner /\ j.thing \in Thing /\ j.node \in Nodes
       /\ j.predicate \in Predicate
  /\ j.pc \in {"fact", "supersede"} =>
       c \in Learning /\ j.because \in {"changed", "corrected"}
  /\ j.pc \in {"basis", "decision"} => c \in Deciding
  /\ j.pc = "supersede" => c \in DOMAIN facts
  /\ j.pc = "decision" => j.basis \in DOMAIN facts

\* Every variable has its type, and no call goes on without what it needs
TypeOK ==
  /\ node \in [Thing -> Nodes \cup {None}] /\ made \in 0 .. MaxNodes
  /\ DOMAIN facts \subseteq Learning
  /\ \A f \in DOMAIN facts : facts[f] \in FactType
  /\ supersedes \subseteq Learning \X Learning \X {"changed", "corrected"}
  /\ DOMAIN decisions \subseteq Deciding
  /\ \A d \in DOMAIN decisions : decisions[d] \in DecisionType
  /\ job \in [Call -> JobType]
  /\ \A c \in Call : CallOk(c)
  /\ now \in Nat

\* The fact has done its part: it was written, and superseded what it found
Settled(f) == job[f].pc = "done"

Same(f, g) ==
  /\ facts[f].by = facts[g].by /\ facts[f].predicate = facts[g].predicate
  /\ facts[f].about = facts[g].about /\ facts[f].about # None

\* However many conversations of an owner learn at once, and wherever one dies: of
\* the facts that hold with one predicate about one thing, one at most has
\* superseded what it found; any other is still being learned, or was left by a
\* process that died
Holding(f) == facts[f].until = None
OneSettled ==
  \A f, g \in DOMAIN facts :
    f # g /\ Same(f, g) /\ Holding(f) /\ Holding(g) =>
      ~(Settled(f) /\ Settled(g))

\* "Nothing is edited or deleted": a fact stays as it was recorded, but for the one
\* time it is superseded, and a decision on what it was based on; a sweep of the
\* thing takes away only what they were about
PastKept ==
  /\ \A f \in DOMAIN facts :
       /\ f \in DOMAIN facts'
       /\ facts[f].until # None => facts'[f].until = facts[f].until
       /\ \/ facts'[f] = facts[f]
          \/ facts'[f] = [facts[f] EXCEPT !.until = facts'[f].until]
          \/ facts'[f] = [facts[f] EXCEPT !.about = None]
  /\ supersedes \subseteq supersedes'
  /\ \A d \in DOMAIN decisions :
       d \in DOMAIN decisions' /\ decisions'[d].basis = decisions[d].basis
PastFixed == [][PastKept]_vars

\* Time is told forwards to an owner who makes one call at a time: a fact that
\* changed held until a later one was learned
Forwards ==
  \A e \in supersedes : facts[e[1]].by \in Serial =>
    facts[e[2]].at =< facts[e[2]].until /\ facts[e[2]].until =< facts[e[1]].at

\* Of what is not swept, an owner who makes one call at a time has a register,
\* whatever other owners do beside: CURRENT_FACT is the last fact learned, wherever
\* a process died
Slot == Serial \X Predicate \X (Thing \ Row)
CurrentOf(s) ==
  LET hit == LatestOf(Current(s[1], node[s[3]], s[2])) IN
  IF node[s[3]] = None \/ hit = {} THEN None ELSE CHOOSE f \in hit : TRUE
InSlot(x) == x.by \in Serial /\ x.about \in {node[t] : t \in Thing \ Row} \ {None}
R == INSTANCE Register WITH
       current <- [s \in Slot |-> CurrentOf(s)],
       basis <- [d \in Deciding |-> IF d \in DOMAIN decisions /\ InSlot(decisions[d])
                                      THEN decisions[d].basis ELSE None]
ImplementsRegister == R!Spec
=============================================================================
