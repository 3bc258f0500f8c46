-------------------------- MODULE KnowledgeProofs --------------------------
(***************************************************************************)
(* What knowledge keeps for every number of owners, things, predicates and *)
(* calls, beside each other or one at a time.                              *)
(***************************************************************************)
EXTENDS Knowledge, TLAPS

LEMMA NodesNat == \A n \in Nodes : n \in Nat /\ n # None
PROOF
  BY KnowledgeAssumption DEF Nodes

LEMMA TypeInit == Init => TypeOK
PROOF
  <1> SUFFICES ASSUME Init PROVE TypeOK
    OBVIOUS
  <1>1. NoJob \in JobType
    BY DEF NoJob, JobType
  <1>2. \A c \in Call : CallOk(c)
    BY DEF Init, CallOk, NoJob
  <1> QED
    BY <1>1, <1>2, KnowledgeAssumption DEF Init, TypeOK, Nodes

\* A call's own step: the other calls are as they were, and what they need is there
LEMMA OneCall ==
  ASSUME TypeOK, NEW c \in Call, NEW k \in JobType,
         job' = [job EXCEPT ![c] = k],
         DOMAIN facts \subseteq DOMAIN facts', CallOk(c)'
  PROVE  job' \in [Call -> JobType] /\ \A d \in Call : CallOk(d)'
PROOF
  <1>1. \A d \in Call \ {c} : job'[d] = job[d]
    BY DEF TypeOK
  <1>2. \A d \in Call \ {c} : CallOk(d)'
    BY <1>1 DEF TypeOK, CallOk
  <1> QED
    BY <1>2 DEF TypeOK

LEMMA OverType ==
  ASSUME TypeOK, NEW c \in Call, NEW pc \in {"done", "dead"}, Over(c, pc)
  PROVE  /\ job' = [job EXCEPT ![c] = job'[c]] /\ job'[c] \in JobType
         /\ job'[c].pc = pc /\ CallOk(c)'
PROOF
  <1>1. job[c] \in JobType
    BY DEF TypeOK
  <1>2. job'[c] = [NoJob EXCEPT !.pc = pc, !.thing = job[c].thing]
    BY DEF Over, TypeOK
  <1>3. job'[c] \in JobType /\ job'[c].pc = pc
    <2>1. NoJob \in JobType /\ job[c].thing \in Thing \cup {None}
      BY <1>1 DEF NoJob, JobType
    <2> QED
      BY <1>2, <2>1 DEF JobType
  <1>4. job' = [job EXCEPT ![c] = job'[c]]
    BY <1>2 DEF Over
  <1>5. CallOk(c)'
    BY <1>3 DEF CallOk
  <1> QED
    BY <1>3, <1>4, <1>5

LEMMA LiveNodes == ASSUME TypeOK PROVE Live \subseteq Nodes
PROOF
  BY DEF TypeOK, Live

LEMMA LearnBeginType ==
  ASSUME TypeOK, NEW l \in Learning, LearnBegin(l) PROVE TypeOK'
PROOF
  <1>1. PICK o \in Owner, t \in Thing, p \in Predicate, b \in {"changed", "corrected"} :
          /\ node[t] # None
          /\ job' = [job EXCEPT ![l] = [pc |-> "fact", by |-> o, thing |-> t,
                       node |-> node[t], predicate |-> p, because |-> b,
                       at |-> now, basis |-> None]]
    BY DEF LearnBegin
  <1> DEFINE k == [pc |-> "fact", by |-> o, thing |-> t, node |-> node[t],
                   predicate |-> p, because |-> b, at |-> now, basis |-> None]
  <1>2. k \in JobType /\ node[t] \in Nodes
    BY <1>1 DEF TypeOK, JobType
  <1>3. l \in Call /\ job'[l] = k
    BY <1>1 DEF TypeOK, Call
  <1>4. CallOk(l)'
    BY <1>2, <1>3 DEF CallOk
  <1>5. facts' = facts
    BY DEF LearnBegin
  <1>6. job' \in [Call -> JobType] /\ \A d \in Call : CallOk(d)'
    BY <1>1, <1>2, <1>3, <1>4, <1>5, OneCall
  <1> QED
    BY <1>6 DEF LearnBegin, TypeOK

LEMMA FactWriteType ==
  ASSUME TypeOK, NEW l \in Learning, FactWrite(l) PROVE TypeOK'
PROOF
  <1> DEFINE j == job[l]
  <1>1. l \in Call /\ j \in JobType /\ j.pc = "fact" /\ CallOk(l)
    BY DEF FactWrite, TypeOK, Call
  <1>2. CASE /\ j.node \in Live
             /\ facts' = [f \in DOMAIN facts \cup {l} |->
                            IF f = l THEN [about |-> j.node, by |-> j.by,
                                           predicate |-> j.predicate, at |-> j.at,
                                           until |-> None]
                                     ELSE facts[f]]
             /\ job' = [job EXCEPT ![l].pc = "supersede"]
    <2> DEFINE new == [about |-> j.node, by |-> j.by, predicate |-> j.predicate,
                       at |-> j.at, until |-> None]
               k == [j EXCEPT !.pc = "supersede"]
    <2>1. new \in FactType
      BY <1>1 DEF CallOk, FactType, JobType
    <2>2. /\ DOMAIN facts' = DOMAIN facts \cup {l} /\ DOMAIN facts' \subseteq Learning
          /\ \A f \in DOMAIN facts' : facts'[f] \in FactType
      BY <1>2, <2>1 DEF TypeOK
    <2>3. k \in JobType /\ job' = [job EXCEPT ![l] = k] /\ job'[l] = k
      BY <1>1, <1>2 DEF TypeOK, JobType
    <2>4. CallOk(l)'
      BY <1>1, <2>2, <2>3 DEF CallOk, JobType
    <2>5. job' \in [Call -> JobType] /\ \A d \in Call : CallOk(d)'
      BY <1>1, <2>2, <2>3, <2>4, OneCall
    <2> QED
      BY <2>2, <2>5 DEF FactWrite, TypeOK
  <1>3. CASE Over(l, "dead") /\ facts' = facts
    <2>1. /\ job' = [job EXCEPT ![l] = job'[l]] /\ job'[l] \in JobType
          /\ CallOk(l)'
      BY <1>1, <1>3, OverType
    <2>2. job' \in [Call -> JobType] /\ \A d \in Call : CallOk(d)'
      BY <1>1, <1>3, <2>1, OneCall
    <2> QED
      BY <1>3, <2>2 DEF FactWrite, TypeOK
  <1> QED
    BY <1>2, <1>3 DEF FactWrite

LEMMA OldIsOther ==
  ASSUME TypeOK, NEW l \in Learning
  PROVE  Old(l) \subseteq DOMAIN facts \ {l}
PROOF
  BY DEF Old, Current

LEMMA SupersedeType ==
  ASSUME TypeOK, NEW l \in Learning, Supersede(l) PROVE TypeOK'
PROOF
  <1> DEFINE j == job[l]
  <1>1. l \in Call /\ j \in JobType /\ j.pc = "supersede" /\ CallOk(l)
    BY DEF Supersede, TypeOK, Call
  <1>2. /\ DOMAIN facts' = DOMAIN facts
        /\ \A f \in DOMAIN facts' : facts'[f] \in FactType
    <2>1. DOMAIN facts' = DOMAIN facts
      BY DEF Supersede
    <2>2. ASSUME NEW f \in DOMAIN facts PROVE facts'[f] \in FactType
      <3>1. facts[f] \in FactType /\ j.at \in Nat /\ facts[f].at \in Nat
        BY <1>1 DEF TypeOK, JobType, FactType
      <3>2. facts'[f] = facts[f] \/ facts'[f] = [facts[f] EXCEPT !.until = facts[f].at]
              \/ facts'[f] = [facts[f] EXCEPT !.until = j.at]
        BY DEF Supersede
      <3> QED
        BY <3>1, <3>2 DEF FactType
    <2> QED
      BY <2>1, <2>2
  <1>3. supersedes' \subseteq Learning \X Learning \X {"changed", "corrected"}
    BY <1>1, OldIsOther DEF Supersede, TypeOK, CallOk
  <1>4. /\ job' = [job EXCEPT ![l] = job'[l]] /\ job'[l] \in JobType
        /\ CallOk(l)'
    BY <1>1, OverType DEF Supersede
  <1>5. job' \in [Call -> JobType] /\ \A d \in Call : CallOk(d)'
    BY <1>1, <1>2, <1>4, OneCall
  <1> QED
    BY <1>2, <1>3, <1>5 DEF Supersede, TypeOK

LEMMA DecideType ==
  ASSUME TypeOK, NEW d \in Deciding, Decide(d) PROVE TypeOK'
PROOF
  <1> DEFINE j == job[d]
  <1>1. d \in Call /\ d \notin Learning /\ j \in JobType /\ CallOk(d)
    BY KnowledgeAssumption DEF TypeOK, Call
  <1>2. CASE DecideBegin(d)
    <2>1. PICK o \in Owner, t \in Thing, p \in Predicate :
            /\ node[t] # None
            /\ job' = [job EXCEPT ![d] = [pc |-> "basis", by |-> o, thing |-> t,
                         node |-> node[t], predicate |-> p, because |-> None,
                         at |-> 0, basis |-> None]]
      BY <1>2 DEF DecideBegin
    <2> DEFINE k == [pc |-> "basis", by |-> o, thing |-> t, node |-> node[t],
                     predicate |-> p, because |-> None, at |-> 0, basis |-> None]
    <2>2. k \in JobType /\ node[t] \in Nodes
      BY <2>1 DEF TypeOK, JobType
    <2>3. job'[d] = k
      BY <1>1, <2>1 DEF TypeOK
    <2>4. CallOk(d)' /\ facts' = facts
      BY <1>2, <2>2, <2>3 DEF CallOk, DecideBegin
    <2>5. job' \in [Call -> JobType] /\ \A c \in Call : CallOk(c)'
      BY <1>1, <2>1, <2>2, <2>4, OneCall
    <2> QED
      BY <1>2, <2>5 DEF DecideBegin, TypeOK
  <1>3. CASE DecideBasis(d)
    <2>1. CASE Over(d, "dead")
      <3>1. /\ job' = [job EXCEPT ![d] = job'[d]] /\ job'[d] \in JobType
            /\ CallOk(d)'
        BY <1>1, <2>1, OverType
      <3>2. job' \in [Call -> JobType] /\ \A c \in Call : CallOk(c)'
        BY <1>1, <1>3, <3>1, OneCall DEF DecideBasis
      <3> QED
        BY <1>3, <3>2 DEF DecideBasis, TypeOK
    <2>2. ASSUME NEW f \in LatestOf(Current(j.by, j.node, j.predicate)),
                 job' = [job EXCEPT ![d] = [j EXCEPT !.pc = "decision", !.basis = f]]
          PROVE  TypeOK'
      <3> DEFINE k == [j EXCEPT !.pc = "decision", !.basis = f]
      <3>1. f \in DOMAIN facts /\ f \in Learning
        BY <2>2 DEF LatestOf, Current, TypeOK
      <3>2. j.pc = "basis" /\ facts' = facts
        BY <1>3 DEF DecideBasis
      <3>3. k \in JobType /\ job'[d] = k
        BY <1>1, <2>2, <3>1 DEF TypeOK, JobType
      <3>4. CallOk(d)'
        BY <1>1, <3>1, <3>2, <3>3 DEF CallOk, JobType
      <3>5. job' \in [Call -> JobType] /\ \A c \in Call : CallOk(c)'
        BY <1>1, <2>2, <3>2, <3>3, <3>4, OneCall
      <3> QED
        BY <1>3, <3>5 DEF DecideBasis, TypeOK
    <2> QED
      BY <1>3, <2>1, <2>2 DEF DecideBasis
  <1>4. CASE DecisionWrite(d)
    <2>1. j.pc = "decision" /\ j.basis \in Learning /\ j.by \in Owner
          /\ j.node \in Nodes
      BY <1>1, <1>4 DEF DecisionWrite, CallOk, TypeOK
    <2>2. [about |-> j.node, by |-> j.by, basis |-> j.basis, at |-> now] \in DecisionType
      BY <2>1 DEF DecisionType, TypeOK
    <2>3. /\ DOMAIN decisions' \subseteq Deciding
          /\ \A x \in DOMAIN decisions' : decisions'[x] \in DecisionType
      BY <1>4, <2>2 DEF DecisionWrite, TypeOK
    <2>4. /\ job' = [job EXCEPT ![d] = job'[d]] /\ job'[d] \in JobType
          /\ CallOk(d)'
      BY <1>1, <1>4, OverType DEF DecisionWrite
    <2>5. job' \in [Call -> JobType] /\ \A c \in Call : CallOk(c)'
      BY <1>1, <1>4, <2>4, OneCall DEF DecisionWrite
    <2> QED
      BY <1>4, <2>3, <2>5 DEF DecisionWrite, TypeOK
  <1> QED
    BY <1>2, <1>3, <1>4 DEF Decide

LEMMA KillType == ASSUME TypeOK, NEW c \in Call, Kill(c) PROVE TypeOK'
PROOF
  <1>1. /\ job' = [job EXCEPT ![c] = job'[c]] /\ job'[c] \in JobType
        /\ CallOk(c)'
    BY OverType DEF Kill
  <1>2. job' \in [Call -> JobType] /\ \A d \in Call : CallOk(d)'
    BY <1>1, OneCall DEF Kill
  <1> QED
    BY <1>2 DEF Kill, TypeOK

LEMMA NodesType ==
  ASSUME TypeOK, NEW t \in Thing, Remember(t) \/ Sweep(t) PROVE TypeOK'
PROOF
  <1>1. CASE Remember(t)
    <2>1. made + 1 \in Nodes
      BY <1>1, KnowledgeAssumption DEF Remember, TypeOK, Nodes
    <2>2. \A c \in Call : CallOk(c)'
      BY <1>1 DEF Remember, TypeOK, CallOk
    <2> QED
      BY <1>1, <2>1, <2>2 DEF Remember, TypeOK, Nodes
  <1>2. CASE Sweep(t)
    <2>1. /\ DOMAIN facts' = DOMAIN facts /\ DOMAIN decisions' = DOMAIN decisions
          /\ \A f \in DOMAIN facts : \/ facts'[f] = facts[f]
                                     \/ facts'[f] = [facts[f] EXCEPT !.about = None]
          /\ \A d \in DOMAIN decisions :
               \/ decisions'[d] = decisions[d]
               \/ decisions'[d] = [decisions[d] EXCEPT !.about = None]
      BY <1>2 DEF Sweep, Detach
    <2>2. /\ \A f \in DOMAIN facts' : facts'[f] \in FactType
          /\ \A d \in DOMAIN decisions' : decisions'[d] \in DecisionType
      BY <2>1 DEF TypeOK, FactType, DecisionType
    <2>3. \A c \in Call : CallOk(c)'
      BY <1>2, <2>1 DEF Sweep, TypeOK, CallOk
    <2> QED
      BY <1>2, <2>1, <2>2, <2>3 DEF Sweep, TypeOK
  <1> QED
    BY <1>1, <1>2

LEMMA TypeStep == TypeOK /\ [Next]_vars => TypeOK'
PROOF
  <1> SUFFICES ASSUME TypeOK, [Next]_vars PROVE TypeOK'
    OBVIOUS
  <1>1. ASSUME NEW l \in Learning, Learn(l) PROVE TypeOK'
    BY <1>1, LearnBeginType, FactWriteType, SupersedeType DEF Learn
  <1>2. CASE UNCHANGED vars
    <2>1. \A c \in Call : CallOk(c)'
      BY <1>2 DEF vars, TypeOK, CallOk
    <2> QED
      BY <1>2, <2>1 DEF vars, TypeOK
  <1> QED
    BY <1>1, <1>2, DecideType, KillType, NodesType DEF Next

\* Every variable keeps its type, and no call goes on without what its next
\* statement needs, whatever conversations run beside each other
THEOREM TypeCorrect == Spec => []TypeOK
PROOF
  BY TypeInit, TypeStep, PTL DEF Spec

-----------------------------------------------------------------------------
(* At most one settled fact holds *)

\* What OneSettled rests on: a fact still to supersede is the one its call wrote,
\* about the node its call found, unless that was swept; and a call that has not
\* written its fact has none
Written ==
  \A l \in Learning :
    /\ job[l].pc = "supersede" =>
         /\ facts[l].by = job[l].by /\ facts[l].predicate = job[l].predicate
         /\ facts[l].about \in {job[l].node, None}
    /\ job[l].pc \in {"new", "fact"} => l \notin DOMAIN facts

SettledInv == TypeOK /\ Written /\ OneSettled

LEMMA WrittenStep == SettledInv /\ [Next]_vars => Written'
PROOF
  <1> SUFFICES ASSUME SettledInv, [Next]_vars PROVE Written'
    OBVIOUS
  <1> USE DEF SettledInv
  <1>1. ASSUME NEW l \in Learning, LearnBegin(l) PROVE Written'
    <2>1. /\ facts' = facts /\ job'[l].pc = "fact" /\ job[l].pc = "new"
          /\ \A k \in Learning \ {l} : job'[k] = job[k]
      BY <1>1 DEF LearnBegin, MayBegin, TypeOK, Call
    <2> QED
      BY <2>1 DEF Written
  <1>2. ASSUME NEW l \in Learning, FactWrite(l) PROVE Written'
    <2>1. /\ \A k \in Learning \ {l} : job'[k] = job[k]
          /\ job[l].pc = "fact" /\ l \in Call
      BY <1>2 DEF FactWrite, Over, TypeOK, Call
    <2>2. CASE Over(l, "dead") /\ facts' = facts
      <3>1. job'[l].pc = "dead"
        BY <2>1, <2>2, OverType
      <3> QED
        BY <2>1, <2>2, <3>1 DEF Written
    <2>3. CASE /\ job' = [job EXCEPT ![l].pc = "supersede"]
               /\ facts' = [f \in DOMAIN facts \cup {l} |->
                              IF f = l
                                THEN [about |-> job[l].node, by |-> job[l].by,
                                      predicate |-> job[l].predicate,
                                      at |-> job[l].at, until |-> None]
                                ELSE facts[f]]
      <3>1. job'[l] = [job[l] EXCEPT !.pc = "supersede"]
        BY <2>1, <2>3 DEF TypeOK
      <3>2. /\ job'[l].by = job[l].by /\ job'[l].node = job[l].node
            /\ job'[l].predicate = job[l].predicate /\ job'[l].pc = "supersede"
        BY <2>1, <3>1 DEF TypeOK, JobType
      <3>3. /\ facts'[l].by = job[l].by /\ facts'[l].about = job[l].node
            /\ facts'[l].predicate = job[l].predicate
        BY <2>3
      <3>4. \A k \in Learning \ {l} :
              /\ k \in DOMAIN facts <=> k \in DOMAIN facts'
              /\ k \in DOMAIN facts => facts'[k] = facts[k]
        BY <2>3
      <3>5. \A k \in Learning : job[k].pc = "supersede" => k \in DOMAIN facts
        BY DEF TypeOK, CallOk, Call
      <3> QED
        BY <2>1, <3>2, <3>3, <3>4, <3>5 DEF Written
    <2> QED
      BY <1>2, <2>2, <2>3 DEF FactWrite
  <1>3. ASSUME NEW l \in Learning, Supersede(l) PROVE Written'
    <2>1. /\ \A k \in Learning \ {l} : job'[k] = job[k]
          /\ job'[l].pc = "done"
      BY <1>3, OverType DEF Supersede, Over, TypeOK, Call
    <2>2. /\ DOMAIN facts' = DOMAIN facts
          /\ \A f \in DOMAIN facts : /\ facts'[f].by = facts[f].by
                                     /\ facts'[f].about = facts[f].about
                                     /\ facts'[f].predicate = facts[f].predicate
      <3>1. \A f \in DOMAIN facts : \/ facts'[f] = facts[f]
                                    \/ \E u : facts'[f] = [facts[f] EXCEPT !.until = u]
        BY <1>3 DEF Supersede
      <3>2. \A f \in DOMAIN facts : facts[f] \in FactType
        BY DEF TypeOK
      <3> QED
        BY <1>3, <3>1, <3>2 DEF Supersede, FactType
    <2>3. \A k \in Learning : job[k].pc = "supersede" => k \in DOMAIN facts
      BY DEF TypeOK, CallOk, Call
    <2> QED
      BY <2>1, <2>2, <2>3 DEF Written
  <1>4. ASSUME NEW d \in Deciding, Decide(d) PROVE Written'
    <2>1. /\ \A k \in Learning : job'[k] = job[k]
          /\ facts' = facts
      BY <1>4, KnowledgeAssumption
         DEF Decide, DecideBegin, DecideBasis, DecisionWrite, Over, TypeOK, Call
    <2> QED
      BY <2>1 DEF Written
  <1>5. ASSUME NEW c \in Call, Kill(c) PROVE Written'
    <2>1. /\ \A k \in Call \ {c} : job'[k] = job[k]
          /\ job'[c].pc = "dead" /\ facts' = facts
      BY <1>5, OverType DEF Kill, Over, TypeOK
    <2> QED
      BY <2>1 DEF Written, Call
  <1>6. ASSUME NEW t \in Thing, Remember(t) PROVE Written'
    BY <1>6 DEF Remember, Written
  <1>7. ASSUME NEW t \in Thing, Sweep(t) PROVE Written'
    <2>1. /\ DOMAIN facts' = DOMAIN facts /\ job' = job
          /\ \A f \in DOMAIN facts : \/ facts'[f] = facts[f]
                                     \/ facts'[f] = [facts[f] EXCEPT !.about = None]
      BY <1>7 DEF Sweep, Detach
    <2>2. \A f \in DOMAIN facts : facts[f] \in FactType
      BY DEF TypeOK
    <2>3. \A k \in Learning : job[k].pc = "supersede" => k \in DOMAIN facts
      BY DEF TypeOK, CallOk, Call
    <2>4. \A f \in DOMAIN facts : /\ facts'[f].by = facts[f].by
                                  /\ facts'[f].predicate = facts[f].predicate
                                  /\ facts'[f].about \in {facts[f].about, None}
      BY <2>1, <2>2 DEF FactType
    <2> QED
      BY <2>1, <2>3, <2>4 DEF Written
  <1>8. CASE UNCHANGED vars
    BY <1>8 DEF vars, Written
  <1> QED
    BY <1>1, <1>2, <1>3, <1>4, <1>5, <1>6, <1>7, <1>8 DEF Next, Learn

\* Which facts a step leaves: each with its owner and its predicate, about what it
\* was about or about nothing, and holding only if it held
Stays(f) ==
  /\ f \in DOMAIN facts
  /\ facts'[f].by = facts[f].by /\ facts'[f].predicate = facts[f].predicate
  /\ facts'[f].about \in {facts[f].about, None}
  /\ facts'[f].until = None => facts[f].until = None
  /\ Settled(f)' => Settled(f)

LEMMA SettledKept ==
  ASSUME OneSettled, \A f \in DOMAIN facts' : Stays(f) PROVE OneSettled'
PROOF
  <1> SUFFICES ASSUME NEW f \in DOMAIN facts', NEW g \in DOMAIN facts', f # g,
                      Same(f, g)', Holding(f)', Holding(g)', Settled(f)', Settled(g)'
               PROVE  FALSE
    BY DEF OneSettled
  <1>1. Same(f, g) /\ Holding(f) /\ Holding(g)
    BY DEF Stays, Same, Holding
  <1>2. Settled(f) /\ Settled(g)
    BY DEF Stays
  <1> QED
    BY <1>1, <1>2 DEF OneSettled, Stays

LEMMA SettledSupersede ==
  ASSUME SettledInv, NEW l \in Learning, Supersede(l) PROVE OneSettled'
PROOF
  <1> USE DEF SettledInv
  <1> DEFINE j == job[l]
  <1>1. /\ DOMAIN facts' = DOMAIN facts /\ l \in DOMAIN facts
        /\ \A f \in DOMAIN facts : facts[f] \in FactType
        /\ j \in JobType /\ l \in Call /\ j.pc = "supersede"
    BY DEF Supersede, TypeOK, CallOk, Call
  <1>2. \A f \in DOMAIN facts : f \notin Old(l) => facts'[f] = facts[f]
    BY DEF Supersede
  <1>3. ASSUME NEW f \in Old(l)
        PROVE  /\ facts'[f].until # None
               /\ facts'[f].by = facts[f].by /\ facts'[f].about = facts[f].about
               /\ facts'[f].predicate = facts[f].predicate
    <2>1. f \in DOMAIN facts
      BY OldIsOther
    <2>2. PICK u \in Nat : facts'[f] = [facts[f] EXCEPT !.until = u]
      BY <1>1, <2>1 DEF Supersede, FactType, JobType
    <2>3. u # None
      BY KnowledgeAssumption
    <2> QED
      BY <1>1, <2>1, <2>2, <2>3 DEF FactType
  <1>4. \A k \in DOMAIN facts \ {l} : Settled(k)' => Settled(k)
    BY <1>1 DEF Settled, Supersede, Over, TypeOK, Call
  <1> SUFFICES ASSUME NEW f \in DOMAIN facts, NEW g \in DOMAIN facts, f # g,
                      Same(f, g)', Holding(f)', Holding(g)', Settled(f)', Settled(g)'
               PROVE  FALSE
    BY <1>1 DEF OneSettled
  <1>5. f \notin Old(l) /\ g \notin Old(l)
    BY <1>3 DEF Holding
  <1>6. Same(f, g) /\ Holding(f) /\ Holding(g)
    BY <1>2, <1>5 DEF Same, Holding
  <1>7. CASE f = l \/ g = l
    <2>1. facts[l].by = j.by /\ facts[l].predicate = j.predicate
          /\ facts[l].about \in {j.node, None}
      BY <1>1 DEF Written
    <2>2. f \in Old(l) \/ g \in Old(l)
      BY <1>6, <1>7, <2>1 DEF Same, Holding, Old, Current
    <2> QED
      BY <1>5, <2>2
  <1>8. CASE f # l /\ g # l
    BY <1>4, <1>6, <1>8 DEF OneSettled
  <1> QED
    BY <1>7, <1>8

LEMMA SettledStep == SettledInv /\ [Next]_vars => OneSettled'
PROOF
  <1> SUFFICES ASSUME SettledInv, [Next]_vars PROVE OneSettled'
    OBVIOUS
  <1> USE DEF SettledInv
  <1>0. DOMAIN facts \subseteq Learning /\ \A f \in DOMAIN facts : facts[f] \in FactType
    BY DEF TypeOK
  <1>1. ASSUME NEW l \in Learning, LearnBegin(l) PROVE OneSettled'
    <2>1. /\ facts' = facts /\ job'[l].pc = "fact"
          /\ \A k \in Learning \ {l} : job'[k] = job[k]
      BY <1>1 DEF LearnBegin, TypeOK, Call
    <2>2. \A f \in DOMAIN facts' : Stays(f)
      BY <1>0, <2>1 DEF Stays, Settled
    <2> QED
      BY <2>2, SettledKept
  <1>2. ASSUME NEW l \in Learning, FactWrite(l) PROVE OneSettled'
    <2>1. /\ \A k \in Learning \ {l} : job'[k] = job[k]
          /\ l \notin DOMAIN facts
      BY <1>2 DEF FactWrite, Over, TypeOK, Call, Written
    <2>2. CASE Over(l, "dead") /\ facts' = facts
      <3>1. \A f \in DOMAIN facts' : Stays(f)
        BY <1>0, <2>1, <2>2 DEF Stays, Settled
      <3> QED
        BY <3>1, SettledKept
    <2>3. CASE /\ job' = [job EXCEPT ![l].pc = "supersede"]
               /\ facts' = [f \in DOMAIN facts \cup {l} |->
                              IF f = l
                                THEN [about |-> job[l].node, by |-> job[l].by,
                                      predicate |-> job[l].predicate,
                                      at |-> job[l].at, until |-> None]
                                ELSE facts[f]]
      <3>1. ~Settled(l)'
        BY <2>3 DEF Settled, TypeOK, Call, JobType
      <3>2. \A f \in DOMAIN facts : facts'[f] = facts[f] /\ (Settled(f)' => Settled(f))
        BY <1>0, <2>1, <2>3 DEF Settled
      <3>3. DOMAIN facts' = DOMAIN facts \cup {l}
        BY <2>3
      <3>4. ASSUME NEW f \in DOMAIN facts', NEW g \in DOMAIN facts', f # g,
                   Same(f, g)', Holding(f)', Holding(g)', Settled(f)', Settled(g)'
            PROVE  FALSE
        <4>1. f \in DOMAIN facts /\ g \in DOMAIN facts
          BY <3>1, <3>3, <3>4
        <4>2. Same(f, g) /\ Holding(f) /\ Holding(g) /\ Settled(f) /\ Settled(g)
          BY <3>2, <3>4, <4>1 DEF Same, Holding
        <4> QED
          BY <3>4, <4>1, <4>2 DEF OneSettled
      <3> QED
        BY <3>4 DEF OneSettled
    <2> QED
      BY <1>2, <2>2, <2>3 DEF FactWrite
  <1>3. ASSUME NEW d \in Deciding, Decide(d) PROVE OneSettled'
    <2>1. /\ \A k \in Learning : job'[k] = job[k]
          /\ facts' = facts
      BY <1>3, KnowledgeAssumption
         DEF Decide, DecideBegin, DecideBasis, DecisionWrite, Over, TypeOK, Call
    <2>2. \A f \in DOMAIN facts' : Stays(f)
      BY <1>0, <2>1 DEF Stays, Settled
    <2> QED
      BY <2>2, SettledKept
  <1>4. ASSUME NEW c \in Call, Kill(c) PROVE OneSettled'
    <2>1. /\ \A k \in Call \ {c} : job'[k] = job[k]
          /\ job'[c].pc = "dead" /\ facts' = facts
      BY <1>4, OverType DEF Kill, Over, TypeOK
    <2>2. \A f \in DOMAIN facts' : Stays(f)
      BY <1>0, <2>1 DEF Stays, Settled, Call
    <2> QED
      BY <2>2, SettledKept
  <1>5. ASSUME NEW t \in Thing, Remember(t) PROVE OneSettled'
    <2>1. \A f \in DOMAIN facts' : Stays(f)
      BY <1>0, <1>5 DEF Remember, Stays, Settled
    <2> QED
      BY <2>1, SettledKept
  <1>6. ASSUME NEW t \in Thing, Sweep(t) PROVE OneSettled'
    <2>1. /\ DOMAIN facts' = DOMAIN facts /\ job' = job
          /\ \A f \in DOMAIN facts : \/ facts'[f] = facts[f]
                                     \/ facts'[f] = [facts[f] EXCEPT !.about = None]
      BY <1>6 DEF Sweep, Detach
    <2>2. \A f \in DOMAIN facts' : Stays(f)
      BY <1>0, <2>1 DEF Stays, Settled, FactType
    <2> QED
      BY <2>2, SettledKept
  <1>7. CASE UNCHANGED vars
    <2>1. \A f \in DOMAIN facts' : Stays(f)
      BY <1>0, <1>7 DEF vars, Stays, Settled
    <2> QED
      BY <2>1, SettledKept
  <1> QED
    BY <1>1, <1>2, <1>3, <1>4, <1>5, <1>6, <1>7, SettledSupersede DEF Next, Learn

\* Of an owner's facts with one predicate about one thing, at most one that has
\* superseded what it found holds, however many learn at once and wherever one dies
THEOREM SettledOnce == Spec => []OneSettled
PROOF
  <1>1. Init => SettledInv
    <2>1. Init => Written /\ OneSettled
      BY DEF Init, Written, OneSettled, NoJob, Call
    <2> QED
      BY <2>1, TypeInit DEF SettledInv
  <1>2. SettledInv /\ [Next]_vars => SettledInv'
    BY TypeStep, WrittenStep, SettledStep DEF SettledInv
  <1>3. SettledInv => OneSettled
    BY DEF SettledInv
  <1> QED
    BY <1>1, <1>2, <1>3, PTL DEF Spec

-----------------------------------------------------------------------------
(* What was recorded stays *)

\* A decision is made once
Undecided ==
  \A d \in Deciding :
    job[d].pc \in {"new", "basis", "decision"} => d \notin DOMAIN decisions

PastInv == SettledInv /\ Undecided

LEMMA UndecidedStep == PastInv /\ [Next]_vars => Undecided'
PROOF
  <1> SUFFICES ASSUME PastInv, [Next]_vars PROVE Undecided'
    OBVIOUS
  <1> USE DEF PastInv, SettledInv
  <1>1. ASSUME NEW l \in Learning, Learn(l) PROVE Undecided'
    <2>1. /\ \A d \in Deciding : job'[d] = job[d]
          /\ decisions' = decisions
      BY <1>1, KnowledgeAssumption
         DEF Learn, LearnBegin, FactWrite, Supersede, Over, TypeOK, Call
    <2> QED
      BY <2>1 DEF Undecided
  <1>2. ASSUME NEW d \in Deciding, Decide(d) PROVE Undecided'
    <2>0. d \in Call /\ \A e \in Deciding \ {d} : job'[e] = job[e]
      BY <1>2 DEF Decide, DecideBegin, DecideBasis, DecisionWrite, Over, TypeOK, Call
    <2>1. CASE DecideBegin(d) \/ DecideBasis(d)
      <3>1. job[d].pc \in {"new", "basis"} /\ decisions' = decisions
        BY <2>1 DEF DecideBegin, DecideBasis, MayBegin
      <3> QED
        BY <2>0, <3>1 DEF Undecided
    <2>2. CASE DecisionWrite(d)
      <3>1. job'[d].pc = "done"
        BY <2>0, <2>2, OverType DEF DecisionWrite
      <3>2. \A e \in Deciding \ {d} : e \in DOMAIN decisions' => e \in DOMAIN decisions
        BY <2>2 DEF DecisionWrite
      <3> QED
        BY <2>0, <3>1, <3>2 DEF Undecided
    <2> QED
      BY <1>2, <2>1, <2>2 DEF Decide
  <1>3. ASSUME NEW c \in Call, Kill(c) PROVE Undecided'
    <2>1. /\ \A k \in Call \ {c} : job'[k] = job[k]
          /\ job'[c].pc = "dead" /\ decisions' = decisions
      BY <1>3, OverType DEF Kill, Over, TypeOK
    <2> QED
      BY <2>1 DEF Undecided, Call
  <1>4. ASSUME NEW t \in Thing, Remember(t) \/ Sweep(t) PROVE Undecided'
    <2>1. DOMAIN decisions' = DOMAIN decisions /\ job' = job
      BY <1>4 DEF Remember, Sweep, Detach
    <2> QED
      BY <2>1 DEF Undecided
  <1>5. CASE UNCHANGED vars
    BY <1>5 DEF vars, Undecided
  <1> QED
    BY <1>1, <1>2, <1>3, <1>4, <1>5 DEF Next

LEMMA PastStep == PastInv /\ [Next]_vars => [PastKept]_vars
PROOF
  <1> SUFFICES ASSUME PastInv, Next PROVE PastKept
    OBVIOUS
  <1> USE DEF PastInv, SettledInv
  <1>0. /\ \A f \in DOMAIN facts : facts[f] \in FactType
        /\ \A d \in DOMAIN decisions : decisions[d] \in DecisionType
    BY DEF TypeOK
  <1>1. ASSUME NEW l \in Learning, FactWrite(l) PROVE PastKept
    <2>1. l \notin DOMAIN facts
      BY <1>1 DEF FactWrite, Written
    <2>2. \A f \in DOMAIN facts : f \in DOMAIN facts' /\ facts'[f] = facts[f]
      BY <1>1, <2>1 DEF FactWrite
    <2> QED
      BY <1>1, <2>2 DEF FactWrite, PastKept
  <1>2. ASSUME NEW l \in Learning, Supersede(l) PROVE PastKept
    <2>1. \A f \in DOMAIN facts :
            /\ f \in DOMAIN facts'
            /\ \/ f \notin Old(l) /\ facts'[f] = facts[f]
               \/ f \in Old(l) /\ \E u : facts'[f] = [facts[f] EXCEPT !.until = u]
      BY <1>2 DEF Supersede
    <2>2. \A f \in Old(l) : facts[f].until = None
      BY DEF Old, Current
    <2>3. \A f \in DOMAIN facts :
            /\ f \in DOMAIN facts'
            /\ facts[f].until # None => facts'[f].until = facts[f].until
            /\ \/ facts'[f] = facts[f]
               \/ facts'[f] = [facts[f] EXCEPT !.until = facts'[f].until]
      BY <1>0, <2>1, <2>2 DEF FactType
    <2> QED
      BY <1>2, <2>3 DEF Supersede, PastKept
  <1>3. ASSUME NEW d \in Deciding, DecisionWrite(d) PROVE PastKept
    <2>1. d \notin DOMAIN decisions
      BY <1>3 DEF DecisionWrite, Undecided
    <2>2. \A e \in DOMAIN decisions : e \in DOMAIN decisions'
                                      /\ decisions'[e] = decisions[e]
      BY <1>3, <2>1 DEF DecisionWrite
    <2> QED
      BY <1>3, <2>2 DEF DecisionWrite, PastKept
  <1>4. ASSUME NEW t \in Thing, Sweep(t) PROVE PastKept
    <2>1. \A f \in DOMAIN facts :
            /\ f \in DOMAIN facts'
            /\ facts'[f] = facts[f] \/ facts'[f] = [facts[f] EXCEPT !.about = None]
      BY <1>4 DEF Sweep, Detach
    <2>2. \A d \in DOMAIN decisions :
            /\ d \in DOMAIN decisions'
            /\ \/ decisions'[d] = decisions[d]
               \/ decisions'[d] = [decisions[d] EXCEPT !.about = None]
      BY <1>4 DEF Sweep, Detach
    <2>3. \A f \in DOMAIN facts : facts'[f].until = facts[f].until
      BY <1>0, <2>1 DEF FactType
    <2>4. \A d \in DOMAIN decisions : decisions'[d].basis = decisions[d].basis
      BY <1>0, <2>2 DEF DecisionType
    <2>5. supersedes' = supersedes
      BY <1>4 DEF Sweep
    <2> QED
      BY <2>1, <2>2, <2>3, <2>4, <2>5 DEF PastKept
  <1>5. ASSUME facts' = facts, supersedes' = supersedes, decisions' = decisions
        PROVE  PastKept
    BY <1>5 DEF PastKept
  <1> QED
    BY <1>1, <1>2, <1>3, <1>4, <1>5
       DEF Next, Learn, Decide, LearnBegin, DecideBegin, DecideBasis, Kill, Remember

LEMMA PastHolds == Spec => []PastInv
PROOF
  <1>1. Init => PastInv
    <2>1. Init => Written /\ OneSettled /\ Undecided
      BY DEF Init, Written, OneSettled, Undecided, NoJob, Call
    <2> QED
      BY <2>1, TypeInit DEF PastInv, SettledInv
  <1>2. PastInv /\ [Next]_vars => PastInv'
    BY TypeStep, WrittenStep, SettledStep, UndecidedStep DEF PastInv, SettledInv
  <1> QED
    BY <1>1, <1>2, PTL DEF Spec

\* Nothing that was recorded is edited, but for the one time a fact is superseded
THEOREM PastIsFixed == Spec => PastFixed
PROOF
  <1>1. PastInv /\ [Next]_vars => [PastKept]_vars
    BY PastStep
  <1> QED
    BY <1>1, PastHolds, PTL DEF Spec, PastFixed

-----------------------------------------------------------------------------
(* What an owner's calls leave for one another, where they run one at a time *)

\* Calls of an owner who makes one at a time
Alone ==
  \A c, d \in Call : Running(c) /\ Running(d) /\ job[c].by = job[d].by /\ job[c].by \in Serial => c = d

\* Every lesson is told at a time of its own, before now: one whose fact is written and
\* one that has yet to write it
Told ==
  /\ \A f \in DOMAIN facts : facts[f].at < now
  /\ \A f, g \in DOMAIN facts : facts[f].at = facts[g].at => f = g
  /\ \A l \in Learning : job[l].pc = "fact" =>
       /\ job[l].at < now
       /\ \A f \in DOMAIN facts : facts[f].at # job[l].at
       /\ \A k \in Learning : job[k].pc = "fact" /\ job[k].at = job[l].at => k = l
  /\ \A l \in Learning : job[l].pc = "supersede" => facts[l].at = job[l].at

\* An owner's lesson that is being learned is later than all the owner's facts, and its
\* own, once written, holds
Newest ==
  \A l \in Learning : job[l].pc \in {"fact", "supersede"} /\ job[l].by \in Serial =>
    /\ \A f \in DOMAIN facts \ {l} : facts[f].by = job[l].by => facts[f].at < job[l].at
    /\ job[l].pc = "supersede" => Holding(l)

\* What superseded a fact is there, and for an owner whose calls run one at a time the old
\* one held from when it was told, at most until the new one was
Replaced ==
  \A e \in supersedes :
    /\ e[1] \in DOMAIN facts /\ e[2] \in DOMAIN facts /\ facts[e[2]].until # None
    /\ facts[e[1]].by \in Serial =>
         facts[e[2]].at =< facts[e[2]].until /\ facts[e[2]].until =< facts[e[1]].at

\* The nodes made, of which no two things share one; a fact still to supersede is about
\* its call's node, if that is there
Ones == 1 .. made \cup {None}
Placed ==
  /\ \A t \in Thing : node[t] \in Ones
  /\ \A t, u \in Thing : node[t] = node[u] /\ node[t] # None => t = u
  /\ \A f \in DOMAIN facts : facts[f].about \in Ones
  /\ \A d \in DOMAIN decisions : decisions[d].about \in Ones
  /\ \A c \in Call : job[c].node \in Ones
  /\ \A l \in Learning : job[l].pc = "supersede" /\ job[l].node \in Live => facts[l].about = job[l].node

\* A decision being made rests on the latest of the facts that hold, still
Based ==
  \A d \in Deciding : job[d].pc = "decision" /\ job[d].by \in Serial /\ job[d].node \in Live =>
    job[d].basis \in LatestOf(Current(job[d].by, job[d].node, job[d].predicate))

\* A step of a call: it begins, goes on or is over
Begun(c) == job[c].pc = "new" /\ MayBegin(c, job'[c].by) /\ job'[c].node \in Live
GoesOn(c) ==
  /\ Running(c) /\ job'[c].by = job[c].by /\ job'[c].node = job[c].node
  /\ job'[c].predicate = job[c].predicate /\ job'[c].at = job[c].at
Ended(c) == Running(c) /\ job'[c].pc \in {"done", "dead"} /\ job'[c].by = None /\ job'[c].node = None
Steps(c) == (\A d \in Call \ {c} : job'[d] = job[d]) /\ (Begun(c) \/ GoesOn(c) \/ Ended(c))

LEMMA OverEnds ==
  ASSUME TypeOK, NEW c \in Call, NEW pc \in {"done", "dead"}, Over(c, pc), Running(c)
  PROVE  Steps(c) /\ Ended(c) /\ job'[c].pc = pc
PROOF
  <1>1. job'[c] = [NoJob EXCEPT !.pc = pc, !.thing = job[c].thing]
        /\ \A d \in Call \ {c} : job'[d] = job[d]
    BY DEF Over, TypeOK
  <1>2. job'[c].pc = pc /\ job'[c].by = None /\ job'[c].node = None
    BY <1>1 DEF NoJob
  <1> QED
    BY <1>1, <1>2 DEF Steps, Ended

LEMMA BeginEffect ==
  ASSUME TypeOK, NEW l \in Learning, LearnBegin(l)
  PROVE  /\ Steps(l) /\ Begun(l) /\ job'[l].pc = "fact" /\ job'[l].at = now
         /\ now' = now + 1 /\ UNCHANGED <<node, made, facts, supersedes, decisions>>
PROOF
  <1>1. l \in Call
    BY DEF Call
  <1>2. PICK o \in Owner, t \in Thing, p \in Predicate, b \in {"changed", "corrected"} :
          /\ MayBegin(l, o) /\ node[t] # None
          /\ job' = [job EXCEPT ![l] = [pc |-> "fact", by |-> o, thing |-> t,
                       node |-> node[t], predicate |-> p, because |-> b,
                       at |-> now, basis |-> None]]
    BY DEF LearnBegin
  <1>3. /\ job'[l].pc = "fact" /\ job'[l].at = now /\ job'[l].by = o /\ job'[l].node = node[t]
        /\ \A d \in Call \ {l} : job'[d] = job[d]
    BY <1>1, <1>2 DEF TypeOK
  <1> QED
    BY <1>2, <1>3 DEF LearnBegin, Steps, Begun, MayBegin, Live

\* A fact written: the newest, with what its call found
Writes(l) ==
  /\ job[l].pc = "fact" /\ job'[l].pc = "supersede" /\ GoesOn(l) /\ job[l].node \in Live
  /\ DOMAIN facts' = DOMAIN facts \cup {l} /\ \A f \in DOMAIN facts \ {l} : facts'[f] = facts[f]
  /\ facts'[l].by = job[l].by /\ facts'[l].about = job[l].node
  /\ facts'[l].predicate = job[l].predicate /\ facts'[l].at = job[l].at /\ facts'[l].until = None

LEMMA WriteEffect ==
  ASSUME TypeOK, NEW l \in Learning, FactWrite(l)
  PROVE  /\ Steps(l) /\ UNCHANGED <<node, made, supersedes, decisions, now>>
         /\ Writes(l) \/ (Ended(l) /\ facts' = facts)
PROOF
  <1>1. l \in Call /\ job[l].pc = "fact" /\ Running(l)
    BY DEF Call, FactWrite, Running
  <1>2. CASE Over(l, "dead") /\ facts' = facts
    BY <1>1, <1>2, OverEnds DEF FactWrite
  <1>3. CASE /\ job[l].node \in Live /\ job' = [job EXCEPT ![l].pc = "supersede"]
             /\ facts' = [f \in DOMAIN facts \cup {l} |->
                            IF f = l THEN [about |-> job[l].node, by |-> job[l].by,
                                           predicate |-> job[l].predicate, at |-> job[l].at,
                                           until |-> None]
                                     ELSE facts[f]]
    <2>1. job[l] \in JobType
      BY <1>1 DEF TypeOK
    <2>2. /\ \A d \in Call \ {l} : job'[d] = job[d]
          /\ job'[l].pc = "supersede" /\ GoesOn(l)
      BY <1>1, <1>3, <2>1 DEF TypeOK, JobType, GoesOn
    <2>3. Writes(l)
      BY <1>1, <1>3, <2>2 DEF Writes
    <2> QED
      BY <2>2, <2>3 DEF FactWrite, Steps
  <1> QED
    BY <1>2, <1>3 DEF FactWrite

\* The facts it found superseded: at its time, or at theirs if they never held
Replaces(l) ==
  /\ job[l].pc = "supersede" /\ l \in DOMAIN facts /\ DOMAIN facts' = DOMAIN facts
  /\ \A f \in DOMAIN facts \ Old(l) : facts'[f] = facts[f]
  /\ \A f \in Old(l) :
       /\ facts'[f].until \in {facts[f].at, job[l].at}
       /\ facts'[f].at = facts[f].at /\ facts'[f].by = facts[f].by
       /\ facts'[f].about = facts[f].about /\ facts'[f].predicate = facts[f].predicate

LEMMA SupersedeEffect ==
  ASSUME TypeOK, NEW l \in Learning, Supersede(l)
  PROVE  /\ Steps(l) /\ Ended(l) /\ Replaces(l) /\ UNCHANGED <<node, made, decisions, now>>
         /\ supersedes' = supersedes \cup {<<l, f, job[l].because>> : f \in Old(l)}
PROOF
  <1>1. l \in Call /\ job[l].pc = "supersede" /\ Running(l) /\ l \in DOMAIN facts
    BY DEF Call, Supersede, Running, TypeOK, CallOk
  <1>2. Steps(l) /\ Ended(l)
    BY <1>1, OverEnds DEF Supersede
  <1>3. ASSUME NEW f \in Old(l)
        PROVE  /\ facts'[f].until \in {facts[f].at, job[l].at}
               /\ facts'[f].at = facts[f].at /\ facts'[f].by = facts[f].by
               /\ facts'[f].about = facts[f].about /\ facts'[f].predicate = facts[f].predicate
    <2>1. f \in DOMAIN facts /\ facts[f] \in FactType
      BY OldIsOther DEF TypeOK
    <2>2. PICK u \in {facts[f].at, job[l].at} : facts'[f] = [facts[f] EXCEPT !.until = u]
      BY <2>1 DEF Supersede
    <2> QED
      BY <2>1, <2>2 DEF FactType
  <1>4. DOMAIN facts' = DOMAIN facts /\ \A f \in DOMAIN facts \ Old(l) : facts'[f] = facts[f]
    BY DEF Supersede
  <1> QED
    BY <1>1, <1>2, <1>3, <1>4 DEF Supersede, Replaces

LEMMA DecideEffect ==
  ASSUME TypeOK, NEW d \in Deciding, Decide(d)
  PROVE  /\ Steps(d) /\ job'[d].pc \in {"basis", "decision", "done", "dead"}
         /\ UNCHANGED <<node, made, facts, supersedes>> /\ now' \in {now, now + 1}
PROOF
  <1>1. d \in Call
    BY DEF Call
  <1>2. CASE DecideBegin(d)
    <2>1. PICK o \in Owner, t \in Thing, p \in Predicate :
            /\ MayBegin(d, o) /\ node[t] # None
            /\ job' = [job EXCEPT ![d] = [pc |-> "basis", by |-> o, thing |-> t,
                         node |-> node[t], predicate |-> p, because |-> None,
                         at |-> 0, basis |-> None]]
      BY <1>2 DEF DecideBegin
    <2>2. /\ job'[d].pc = "basis" /\ job'[d].by = o /\ job'[d].node = node[t]
          /\ \A c \in Call \ {d} : job'[c] = job[c]
      BY <1>1, <2>1 DEF TypeOK
    <2> QED
      BY <1>2, <2>1, <2>2 DEF DecideBegin, Steps, Begun, MayBegin, Live
  <1>3. CASE DecideBasis(d)
    <2>1. Running(d) /\ job[d] \in JobType
      BY <1>1, <1>3 DEF DecideBasis, Running, TypeOK
    <2>2. CASE Over(d, "dead")
      BY <1>1, <1>3, <2>1, <2>2, OverEnds DEF DecideBasis
    <2>3. ASSUME NEW f, job' = [job EXCEPT ![d] = [job[d] EXCEPT !.pc = "decision", !.basis = f]]
          PROVE  Steps(d) /\ job'[d].pc = "decision"
      <3>1. job'[d] = [job[d] EXCEPT !.pc = "decision", !.basis = f]
            /\ \A c \in Call \ {d} : job'[c] = job[c]
        BY <1>1, <2>3 DEF TypeOK
      <3>2. GoesOn(d) /\ job'[d].pc = "decision"
        BY <2>1, <3>1 DEF GoesOn, JobType
      <3> QED
        BY <3>1, <3>2 DEF Steps
    <2> QED
      BY <1>3, <2>2, <2>3 DEF DecideBasis
  <1>4. CASE DecisionWrite(d)
    <2>1. Running(d)
      BY <1>4 DEF DecisionWrite, Running
    <2> QED
      BY <1>1, <1>4, <2>1, OverEnds DEF DecisionWrite
  <1> QED
    BY <1>2, <1>3, <1>4 DEF Decide

LEMMA KillEffect ==
  ASSUME TypeOK, NEW c \in Call, Kill(c)
  PROVE  /\ Steps(c) /\ Ended(c) /\ job'[c].pc = "dead"
         /\ UNCHANGED <<node, made, facts, supersedes, decisions, now>>
PROOF
  BY OverEnds DEF Kill

LEMMA NoneIsNoOwner == None \notin Serial /\ None \notin Owner /\ None \notin Nat
PROOF
  BY KnowledgeAssumption

LEMMA AloneStep == TypeOK /\ Alone /\ [Next]_vars => Alone'
PROOF
  <1> SUFFICES ASSUME TypeOK, Alone, [Next]_vars PROVE Alone'
    OBVIOUS
  <1>1. ASSUME NEW c \in Call, Steps(c) PROVE Alone'
    <2> SUFFICES ASSUME NEW a \in Call, NEW b \in Call, Running(a)', Running(b)',
                        job'[a].by = job'[b].by, job'[a].by \in Serial
                 PROVE  a = b
      BY DEF Alone
    <2>1. CASE Ended(c)
      BY <1>1, <2>1, NoneIsNoOwner DEF Steps, Ended, Alone, Running
    <2>2. CASE GoesOn(c)
      BY <1>1, <2>2 DEF Steps, GoesOn, Alone, Running
    <2>3. CASE Begun(c)
      <3>1. job'[c].by \in Serial => \A d \in Call : job[d].by = job'[c].by => ~Running(d)
        BY <2>3 DEF Begun, MayBegin
      <3>2. \A d \in Call \ {c} : job'[d] = job[d]
        BY <1>1 DEF Steps
      <3> QED
        BY <3>1, <3>2 DEF Alone, Running
    <2> QED
      BY <1>1, <2>1, <2>2, <2>3 DEF Steps
  <1>2. ASSUME job' = job PROVE Alone'
    BY <1>2 DEF Alone, Running
  <1>3. ASSUME NEW t \in Thing, Remember(t) \/ Sweep(t) PROVE Alone'
    BY <1>2, <1>3 DEF Remember, Sweep
  <1>4. Learning \subseteq Call /\ Deciding \subseteq Call
    BY DEF Call
  <1>5. CASE UNCHANGED vars
    BY <1>2, <1>5 DEF vars
  <1> QED
    BY <1>1, <1>3, <1>4, <1>5, BeginEffect, WriteEffect, SupersedeEffect, DecideEffect, KillEffect
       DEF Next, Learn

\* A step of a call that writes no fact
LEMMA FactsWhole ==
  ASSUME PastInv
  PROVE  /\ DOMAIN facts \subseteq Learning
         /\ \A f \in DOMAIN facts : facts[f].at \in Nat /\ facts[f].by \in Owner
         /\ now \in Nat /\ \A c \in Call : job[c].at \in Nat
         /\ Learning \subseteq Call /\ Deciding \subseteq Call /\ Learning \cap Deciding = {}
         /\ \A l \in Learning : job[l].pc = "supersede" =>
              l \in DOMAIN facts /\ facts[l].by = job[l].by /\ facts[l].predicate = job[l].predicate
         /\ \A l \in Learning : job[l].pc \in {"new", "fact"} => l \notin DOMAIN facts
PROOF
  <1>1. \A c \in Call : job[c] \in JobType /\ CallOk(c)
    BY DEF PastInv, SettledInv, TypeOK
  <1>2. /\ DOMAIN facts \subseteq Learning /\ \A f \in DOMAIN facts : facts[f] \in FactType
        /\ now \in Nat
    BY DEF PastInv, SettledInv, TypeOK
  <1>3. \A f \in DOMAIN facts : facts[f].at \in Nat /\ facts[f].by \in Owner
    BY <1>2 DEF FactType
  <1>4. \A c \in Call : job[c].at \in Nat
    BY <1>1 DEF JobType
  <1> QED
    BY <1>1, <1>2, <1>3, <1>4, KnowledgeAssumption DEF Call, CallOk, PastInv, SettledInv, Written

\* A fact keeps its time and its owner
Times == \A f \in DOMAIN facts : facts'[f].at = facts[f].at /\ facts'[f].by = facts[f].by
SameFacts == DOMAIN facts' = DOMAIN facts /\ Times

\* The calls still learning go on as they were
Fewer ==
  \A l \in Learning :
    \/ job'[l] = job[l]
    \/ job'[l].pc \notin {"fact", "supersede"}

LEMMA ToldFewer ==
  ASSUME PastInv, Told, SameFacts, Fewer, now' \in {now, now + 1}
  PROVE  Told'
PROOF
  <1>1. \A f \in DOMAIN facts' : facts'[f].at < now'
    BY FactsWhole DEF Told, SameFacts, Times
  <1>2. \A f, g \in DOMAIN facts' : facts'[f].at = facts'[g].at => f = g
    BY DEF Told, SameFacts, Times
  <1>3. ASSUME NEW l \in Learning, job'[l].pc = "fact"
        PROVE  /\ job'[l].at < now'
               /\ \A f \in DOMAIN facts' : facts'[f].at # job'[l].at
               /\ \A k \in Learning : job'[k].pc = "fact" /\ job'[k].at = job'[l].at => k = l
    <2>1. job'[l] = job[l] /\ job[l].at < now
      BY <1>3 DEF Fewer, Told
    <2>2. job'[l].at < now'
      BY <2>1, FactsWhole
    <2>3. \A f \in DOMAIN facts' : facts'[f].at # job'[l].at
      BY <1>3, <2>1 DEF Told, SameFacts, Times
    <2>4. \A k \in Learning : job'[k].pc = "fact" /\ job'[k].at = job'[l].at => k = l
      BY <1>3, <2>1 DEF Told, Fewer
    <2> QED
      BY <2>2, <2>3, <2>4
  <1>4. \A l \in Learning : job'[l].pc = "supersede" => facts'[l].at = job'[l].at
    BY FactsWhole DEF Told, Fewer, SameFacts, Times
  <1> QED
    BY <1>1, <1>2, <1>3, <1>4 DEF Told

\* A lesson that begins is told later than all there is
LEMMA ToldBegin ==
  ASSUME PastInv, Told, NEW l \in Learning, LearnBegin(l)
  PROVE  Told'
PROOF
  <1>1. /\ job[l].pc = "new" /\ job'[l].pc = "fact" /\ job'[l].at = now /\ facts' = facts
        /\ now' = now + 1 /\ \A k \in Learning \ {l} : job'[k] = job[k]
    BY BeginEffect, FactsWhole DEF Steps, Begun, PastInv, SettledInv
  <1>2. \A f \in DOMAIN facts : facts[f].at < now' /\ facts[f].at # now
    BY <1>1, FactsWhole DEF Told
  <1>3. \A k \in Learning \ {l} : job'[k].pc = "fact" => job'[k].at # now /\ job'[k].at < now'
    BY <1>1, FactsWhole DEF Told
  <1>4. now < now'
    BY <1>1, FactsWhole
  <1>5. \A k \in Learning : job'[k].pc = "fact" => job'[k].at < now'
                              /\ \A f \in DOMAIN facts' : facts'[f].at # job'[k].at
    BY <1>1, <1>2, <1>3, <1>4 DEF Told
  <1>6. \A k, m \in Learning :
          job'[k].pc = "fact" /\ job'[m].pc = "fact" /\ job'[k].at = job'[m].at => k = m
    BY <1>1, <1>3 DEF Told
  <1>7. \A k \in Learning : job'[k].pc = "supersede" => facts'[k].at = job'[k].at
    BY <1>1 DEF Told
  <1> QED
    BY <1>1, <1>2, <1>5, <1>6, <1>7 DEF Told

LEMMA ToldWrite ==
  ASSUME PastInv, Told, NEW l \in Learning, Writes(l), Steps(l), now' = now
  PROVE  Told'
PROOF
  <1>1. /\ job[l].pc = "fact" /\ job'[l].pc = "supersede" /\ job'[l].at = job[l].at
        /\ \A k \in Learning \ {l} : job'[k] = job[k]
        /\ l \notin DOMAIN facts /\ DOMAIN facts' = DOMAIN facts \cup {l}
        /\ facts'[l].at = job[l].at /\ \A f \in DOMAIN facts : facts'[f] = facts[f]
    BY FactsWhole DEF Writes, Steps, GoesOn
  <1>2. \A f \in DOMAIN facts' : facts'[f].at < now'
    BY <1>1 DEF Told
  <1>3. \A f, g \in DOMAIN facts' : facts'[f].at = facts'[g].at => f = g
    BY <1>1 DEF Told
  <1>4. \A k \in Learning : job'[k].pc = "fact" =>
          /\ job'[k].at < now'
          /\ \A f \in DOMAIN facts' : facts'[f].at # job'[k].at
          /\ \A m \in Learning : job'[m].pc = "fact" /\ job'[m].at = job'[k].at => m = k
    BY <1>1 DEF Told
  <1>5. \A k \in Learning : job'[k].pc = "supersede" => facts'[k].at = job'[k].at
    BY <1>1, FactsWhole DEF Told
  <1> QED
    BY <1>2, <1>3, <1>4, <1>5 DEF Told

LEMMA NewestFewer ==
  ASSUME PastInv, Newest, SameFacts, Fewer,
         \A l \in Learning : job'[l].pc = "supersede" /\ job'[l].by \in Serial /\ Holding(l) => facts'[l].until = None
  PROVE  Newest'
PROOF
  <1> SUFFICES ASSUME NEW l \in Learning, job'[l].pc \in {"fact", "supersede"}, job'[l].by \in Serial
               PROVE  /\ \A f \in DOMAIN facts' \ {l} :
                           facts'[f].by = job'[l].by => facts'[f].at < job'[l].at
                      /\ job'[l].pc = "supersede" => facts'[l].until = None
    BY DEF Newest, Holding
  <1>1. job'[l] = job[l]
    BY DEF Fewer
  <1> QED
    BY <1>1 DEF Newest, SameFacts, Times

\* An owner's call that learns alone is the only one to write
LEMMA NewestStep == PastInv /\ Alone /\ Told /\ Newest /\ [Next]_vars => Newest' /\ Told'
PROOF
  <1> SUFFICES ASSUME PastInv, Alone, Told, Newest, [Next]_vars PROVE Newest' /\ Told'
    OBVIOUS
  <1> USE DEF PastInv, SettledInv
  <1>0. /\ Learning \subseteq Call /\ Deciding \subseteq Call /\ Learning \cap Deciding = {}
        /\ \A l \in Learning : job[l].pc \in {"fact", "supersede"} => Running(l)
    BY FactsWhole DEF Running
  <1>1. ASSUME NEW l \in Learning, LearnBegin(l) PROVE Newest' /\ Told'
    <2>1. /\ job'[l].pc = "fact" /\ job'[l].at = now /\ facts' = facts
          /\ \A k \in Learning \ {l} : job'[k] = job[k]
      BY <1>0, <1>1, BeginEffect DEF Steps
    <2>2. Newest'
      BY <2>1 DEF Newest, Told, Holding
    <2> QED
      BY <1>1, <2>2, ToldBegin
  <1>2. ASSUME NEW l \in Learning, FactWrite(l) PROVE Newest' /\ Told'
    <2>1. /\ \A k \in Learning \ {l} : job'[k] = job[k]
          /\ now' = now /\ Steps(l)
      BY <1>0, <1>2, WriteEffect DEF Steps
    <2>2. CASE Ended(l) /\ facts' = facts
      <3>1. Fewer /\ SameFacts
        BY <2>1, <2>2 DEF Ended, Fewer, SameFacts, Times
      <3> QED
        BY <2>1, <2>2, <3>1, NewestFewer, ToldFewer DEF Holding
    <2>3. CASE Writes(l)
      <3>1. /\ job[l].pc = "fact" /\ job'[l].pc = "supersede" /\ job'[l].at = job[l].at
            /\ job'[l].by = job[l].by /\ l \notin DOMAIN facts /\ DOMAIN facts' = DOMAIN facts \cup {l}
            /\ facts'[l].by = job[l].by /\ facts'[l].until = None
            /\ \A f \in DOMAIN facts : facts'[f] = facts[f]
        BY <2>3, FactsWhole DEF Writes, GoesOn
      <3> SUFFICES ASSUME NEW k \in Learning, job'[k].pc \in {"fact", "supersede"}, job'[k].by \in Serial
                   PROVE  /\ \A f \in DOMAIN facts' \ {k} :
                               facts'[f].by = job'[k].by => facts'[f].at < job'[k].at
                          /\ job'[k].pc = "supersede" => facts'[k].until = None
        BY <2>1, <2>3, ToldWrite DEF Newest, Holding
      <3>2. CASE k = l
        BY <3>1, <3>2 DEF Newest
      <3>3. CASE k # l
        <4>1. job'[k] = job[k] /\ job[k].by # job[l].by
          BY <1>0, <2>1, <3>1, <3>3 DEF Alone
        <4>2. job[k].pc = "supersede" => k \in DOMAIN facts
          BY FactsWhole
        <4> QED
          BY <3>1, <3>3, <4>1, <4>2 DEF Newest, Holding
      <3> QED
        BY <3>2, <3>3
    <2> QED
      BY <1>2, <2>2, <2>3, WriteEffect
  <1>3. ASSUME NEW l \in Learning, Supersede(l) PROVE Newest' /\ Told'
    <2>1. /\ Replaces(l) /\ Ended(l) /\ now' = now
          /\ \A k \in Learning \ {l} : job'[k] = job[k]
      BY <1>0, <1>3, SupersedeEffect DEF Steps
    <2>2. SameFacts /\ Fewer
      BY <2>1 DEF Replaces, SameFacts, Times, Fewer, Ended
    <2>3. ASSUME NEW k \in Learning, job'[k].pc = "supersede", job'[k].by \in Serial, Holding(k)
          PROVE  facts'[k].until = None
      <3>1. k # l /\ job'[k] = job[k] /\ job[l].pc = "supersede"
        BY <2>1, <2>3 DEF Ended, Replaces
      <3>2. job[k].by # job[l].by
        BY <1>0, <2>3, <3>1 DEF Alone
      <3>3. k \in DOMAIN facts /\ facts[k].by = job[k].by
        BY <2>3, <3>1, FactsWhole
      <3>4. k \notin Old(l)
        BY <3>2, <3>3 DEF Old, Current
      <3> QED
        BY <2>1, <2>3, <3>3, <3>4 DEF Replaces, Holding
    <2> QED
      BY <2>1, <2>2, <2>3, NewestFewer, ToldFewer
  <1>4. ASSUME Fewer, facts' = facts, now' \in {now, now + 1} PROVE Newest' /\ Told'
    <2>1. SameFacts
      BY <1>4 DEF SameFacts, Times
    <2> QED
      BY <1>4, <2>1, NewestFewer, ToldFewer DEF Holding
  <1>5. ASSUME NEW d \in Deciding, Decide(d) PROVE Newest' /\ Told'
    BY <1>0, <1>4, <1>5, DecideEffect DEF Steps, Fewer
  <1>6. ASSUME NEW c \in Call, Kill(c) PROVE Newest' /\ Told'
    BY <1>0, <1>4, <1>6, KillEffect DEF Steps, Fewer
  <1>7. ASSUME NEW t \in Thing, Remember(t) PROVE Newest' /\ Told'
    BY <1>4, <1>7 DEF Remember, Fewer
  <1>8. ASSUME NEW t \in Thing, Sweep(t) PROVE Newest' /\ Told'
    <2>1. \A f \in DOMAIN facts : facts[f] \in FactType
      BY DEF TypeOK
    <2>2. /\ DOMAIN facts' = DOMAIN facts /\ job' = job /\ now' = now
          /\ \A f \in DOMAIN facts : facts'[f] \in {facts[f], [facts[f] EXCEPT !.about = None]}
      BY <1>8 DEF Sweep, Detach
    <2>3. /\ SameFacts /\ Fewer
          /\ \A f \in DOMAIN facts : facts'[f].until = facts[f].until
      BY <2>1, <2>2 DEF FactType, SameFacts, Times, Fewer
    <2>4. \A l \in Learning : job'[l].pc = "supersede" => l \in DOMAIN facts
      BY <2>2, FactsWhole
    <2> QED
      BY <2>2, <2>3, <2>4, NewestFewer, ToldFewer DEF Holding
  <1>9. CASE UNCHANGED vars
    BY <1>4, <1>9 DEF vars, Fewer
  <1> QED
    BY <1>1, <1>2, <1>3, <1>5, <1>6, <1>7, <1>8, <1>9 DEF Next, Learn

\* What was recorded of a fact, but what it is about, stays
LEMMA RecordKept ==
  ASSUME PastInv, [Next]_vars, NEW f \in DOMAIN facts
  PROVE  /\ f \in DOMAIN facts' /\ facts'[f].at = facts[f].at /\ facts'[f].by = facts[f].by
         /\ facts'[f].predicate = facts[f].predicate /\ facts'[f].about \in {facts[f].about, None}
         /\ facts[f].until # None => facts'[f].until = facts[f].until
PROOF
  <1>1. facts[f] \in FactType
    BY DEF PastInv, SettledInv, TypeOK
  <1>2. CASE PastKept
    BY <1>1, <1>2 DEF PastKept, FactType
  <1>3. CASE UNCHANGED vars
    BY <1>3 DEF vars
  <1> QED
    BY <1>2, <1>3, PastStep

LEMMA ReplacedStep ==
  PastInv /\ Alone /\ Told /\ Newest /\ Replaced /\ [Next]_vars => Replaced'
PROOF
  <1> SUFFICES ASSUME PastInv, Alone, Told, Newest, Replaced, [Next]_vars PROVE Replaced'
    OBVIOUS
  <1>1. ASSUME NEW e \in supersedes
        PROVE  /\ e[1] \in DOMAIN facts' /\ e[2] \in DOMAIN facts' /\ facts'[e[2]].until # None
               /\ facts'[e[1]].by \in Serial =>
                    facts'[e[2]].at =< facts'[e[2]].until /\ facts'[e[2]].until =< facts'[e[1]].at
    <2>1. e[1] \in DOMAIN facts /\ e[2] \in DOMAIN facts /\ facts[e[2]].until # None
      BY DEF Replaced
    <2>2. /\ e[1] \in DOMAIN facts' /\ e[2] \in DOMAIN facts'
          /\ facts'[e[1]].at = facts[e[1]].at /\ facts'[e[1]].by = facts[e[1]].by
          /\ facts'[e[2]].at = facts[e[2]].at /\ facts'[e[2]].until = facts[e[2]].until
      BY <2>1, RecordKept
    <2> QED
      BY <2>1, <2>2 DEF Replaced
  <1>2. ASSUME supersedes' = supersedes PROVE Replaced'
    BY <1>1, <1>2 DEF Replaced
  <1>3. ASSUME NEW l \in Learning, Supersede(l) PROVE Replaced'
    <2>1. /\ Replaces(l) /\ supersedes' = supersedes \cup {<<l, f, job[l].because>> : f \in Old(l)}
      BY <1>3, SupersedeEffect DEF PastInv, SettledInv
    <2>2. /\ l \in DOMAIN facts /\ facts[l].by = job[l].by /\ facts[l].at = job[l].at
          /\ l \notin Old(l) /\ Old(l) \subseteq DOMAIN facts
          /\ \A f \in Old(l) : facts[f].by = job[l].by
      BY <2>1, FactsWhole DEF Replaces, Told, Old, Current
    <2>3. \A f \in Old(l) : facts[l].by \in Serial => facts[f].at < job[l].at
      BY <2>1, <2>2 DEF Newest, Replaces
    <2>4. ASSUME NEW f \in Old(l)
          PROVE  /\ l \in DOMAIN facts' /\ f \in DOMAIN facts' /\ facts'[f].until # None
                 /\ facts'[l].by \in Serial =>
                      facts'[f].at =< facts'[f].until /\ facts'[f].until =< facts'[l].at
      <3>1. facts'[l] = facts[l] /\ facts'[f].until \in {facts[f].at, job[l].at} /\ facts'[f].at = facts[f].at
        BY <2>1, <2>2 DEF Replaces
      <3>2. facts[f].at \in Nat /\ job[l].at \in Nat
        BY <2>2, FactsWhole
      <3>3. facts'[f].until # None
        BY <3>1, <3>2, NoneIsNoOwner
      <3>4. facts[l].by \in Serial =>
              facts'[f].at =< facts'[f].until /\ facts'[f].until =< facts'[l].at
        BY <2>2, <2>3, <3>1, <3>2
      <3> QED
        BY <2>1, <2>2, <3>1, <3>3, <3>4 DEF Replaces
    <2>5. ASSUME NEW e \in supersedes', e \notin supersedes
          PROVE  \E f \in Old(l) : e[1] = l /\ e[2] = f
      BY <2>1, <2>5
    <2> QED
      BY <1>1, <2>4, <2>5 DEF Replaced
  <1>4. ASSUME NEW l \in Learning, LearnBegin(l) \/ FactWrite(l) PROVE Replaced'
    BY <1>2, <1>4 DEF LearnBegin, FactWrite
  <1>5. ASSUME NEW d \in Deciding, Decide(d) PROVE Replaced'
    BY <1>2, <1>5 DEF Decide, DecideBegin, DecideBasis, DecisionWrite
  <1>6. ASSUME NEW c \in Call, Kill(c) PROVE Replaced'
    BY <1>2, <1>6 DEF Kill
  <1>7. ASSUME NEW t \in Thing, Remember(t) \/ Sweep(t) PROVE Replaced'
    BY <1>2, <1>7 DEF Remember, Sweep
  <1>8. CASE UNCHANGED vars
    BY <1>2, <1>8 DEF vars
  <1> QED
    BY <1>3, <1>4, <1>5, <1>6, <1>7, <1>8 DEF Next, Learn

\* What Forwards rests on
ToldInv == PastInv /\ Alone /\ Told /\ Newest /\ Replaced

LEMMA ToldHolds == Spec => []ToldInv
PROOF
  <1>1. Init => Alone /\ Told /\ Newest /\ Replaced
    BY DEF Init, Alone, Running, Told, Newest, Replaced, NoJob, Call
  <1>2. ToldInv /\ [Next]_vars => Alone' /\ Newest' /\ Told' /\ Replaced'
    BY AloneStep, NewestStep, ReplacedStep DEF ToldInv, PastInv, SettledInv
  <1> QED
    BY <1>1, <1>2, PastHolds, PTL DEF Spec, ToldInv

\* An owner whose calls run one at a time is told of time forwards, wherever one dies and
\* whatever other owners do beside: a fact that was superseded held from when it was learned
\* until then, or until the one that replaced it was learned (learn: FACT, SUPERSEDE)
THEOREM TimeGoesForwards == Spec => []Forwards
PROOF
  <1>1. ToldInv => Forwards
    BY DEF ToldInv, Replaced, Forwards
  <1> QED
    BY <1>1, ToldHolds, PTL

\* The facts with an owner's predicate about a node, and the latest of those that hold
HitOf(o, n, p) == LatestOf(Current(o, n, p))
Agree(o, n, p) ==
  /\ \A f \in DOMAIN facts :
       facts[f].by = o /\ facts[f].about = n /\ facts[f].predicate = p =>
         f \in DOMAIN facts' /\ facts'[f] = facts[f]
  /\ \A f \in DOMAIN facts' :
       facts'[f].by = o /\ facts'[f].about = n /\ facts'[f].predicate = p =>
         f \in DOMAIN facts /\ facts'[f] = facts[f]

LEMMA HitSame ==
  ASSUME NEW o, NEW n, NEW p, Agree(o, n, p) PROVE HitOf(o, n, p)' = HitOf(o, n, p)
PROOF
  <1>1. Current(o, n, p)' = Current(o, n, p)
    BY DEF Current, Agree
  <1>2. \A f \in Current(o, n, p) : facts'[f] = facts[f]
    BY DEF Current, Agree
  <1> QED
    BY <1>1, <1>2 DEF HitOf, LatestOf

LEMMA AgreeStays == ASSUME facts' = facts, NEW o, NEW n, NEW p PROVE Agree(o, n, p)
PROOF
  BY DEF Agree

\* A lesson written or replacing others is of its owner, about its node, with its predicate
LEMMA AgreeBeside ==
  ASSUME PastInv, NEW l \in Learning, Writes(l) \/ Replaces(l), NEW o, NEW n, NEW p,
         job[l].by # o \/ job[l].node # n \/ job[l].predicate # p
  PROVE  Agree(o, n, p)
PROOF
  <1>1. CASE Writes(l)
    <2>1. l \notin DOMAIN facts
      BY <1>1, FactsWhole DEF Writes
    <2> QED
      BY <1>1, <2>1 DEF Writes, Agree
  <1>2. CASE Replaces(l)
    <2>1. \A f \in Old(l) : facts[f].by = job[l].by /\ facts[f].about = job[l].node
                            /\ facts[f].predicate = job[l].predicate /\ f \in DOMAIN facts
      BY DEF Old, Current
    <2>2. ASSUME NEW f \in DOMAIN facts,
                 \/ facts[f].by = o /\ facts[f].about = n /\ facts[f].predicate = p
                 \/ facts'[f].by = o /\ facts'[f].about = n /\ facts'[f].predicate = p
          PROVE  f \in DOMAIN facts' /\ facts'[f] = facts[f]
      BY <1>2, <2>1, <2>2 DEF Replaces
    <2> QED
      BY <1>2, <2>2 DEF Replaces, Agree
  <1> QED
    BY <1>1, <1>2

LEMMA LiveOnes == ASSUME Placed PROVE Live \subseteq 1 .. made /\ None \notin Live
PROOF
  BY DEF Placed, Live, Ones

\* A call that begins finds a node that is there
LEMMA PlacedCalls ==
  ASSUME PastInv, Placed, NEW c \in Call, Steps(c), node' = node, made' = made
  PROVE  \A d \in Call : job'[d].node \in Ones'
PROOF
  <1>1. job'[c].node \in Ones
    BY LiveOnes DEF Steps, Begun, GoesOn, Ended, Placed, Ones
  <1> QED
    BY <1>1 DEF Steps, Placed, Ones

LEMMA PlacedFewer ==
  ASSUME PastInv, Placed, node' = node, made' = made, DOMAIN facts' = DOMAIN facts, Fewer,
         \A f \in DOMAIN facts : facts'[f].about = facts[f].about,
         \A d \in DOMAIN decisions' : decisions'[d].about \in Ones,
         \A d \in Call : job'[d].node \in Ones'
  PROVE  Placed'
PROOF
  <1>1. Live' = Live /\ Ones' = Ones
    BY DEF Live, Ones
  <1>2. \A l \in Learning : job'[l].pc = "supersede" /\ job'[l].node \in Live' =>
                              facts'[l].about = job'[l].node
    BY <1>1, FactsWhole DEF Placed, Fewer
  <1> QED
    BY <1>1, <1>2 DEF Placed

LEMMA PlacedStep == PastInv /\ Placed /\ [Next]_vars => Placed'
PROOF
  <1> SUFFICES ASSUME PastInv, Placed, [Next]_vars PROVE Placed'
    OBVIOUS
  <1> USE DEF PastInv, SettledInv
  <1>0. /\ Learning \subseteq Call /\ Deciding \subseteq Call /\ Learning \cap Deciding = {}
        /\ made \in Nat
    BY FactsWhole DEF TypeOK
  <1>1. ASSUME NEW l \in Learning, LearnBegin(l) PROVE Placed'
    <2>1. /\ job'[l].pc = "fact" /\ facts' = facts /\ \A k \in Learning \ {l} : job'[k] = job[k]
          /\ node' = node /\ made' = made /\ decisions' = decisions /\ Steps(l)
      BY <1>0, <1>1, BeginEffect DEF Steps
    <2>2. Live' = Live /\ Ones' = Ones /\ \A d \in Call : job'[d].node \in Ones
      BY <1>0, <2>1, PlacedCalls DEF Live, Ones
    <2> QED
      BY <2>1, <2>2 DEF Placed
  <1>2. ASSUME NEW l \in Learning, FactWrite(l) PROVE Placed'
    <2>1. /\ \A k \in Learning \ {l} : job'[k] = job[k]
          /\ node' = node /\ made' = made /\ decisions' = decisions /\ Steps(l)
      BY <1>0, <1>2, WriteEffect DEF Steps
    <2>2. Live' = Live /\ Ones' = Ones /\ \A d \in Call : job'[d].node \in Ones
      BY <1>0, <2>1, PlacedCalls DEF Live, Ones
    <2>3. CASE Ended(l) /\ facts' = facts
      BY <2>1, <2>2, <2>3 DEF Placed, Ended
    <2>4. CASE Writes(l)
      <3>1. /\ DOMAIN facts' = DOMAIN facts \cup {l} /\ l \notin DOMAIN facts
            /\ \A f \in DOMAIN facts : facts'[f] = facts[f]
            /\ facts'[l].about = job[l].node /\ job'[l].node = job[l].node /\ job[l].node \in Ones
        BY <1>0, <2>4, FactsWhole DEF Writes, GoesOn, Placed
      <3>2. \A f \in DOMAIN facts' : facts'[f].about \in Ones
        BY <3>1 DEF Placed
      <3>3. \A k \in Learning : job'[k].pc = "supersede" /\ job'[k].node \in Live =>
                                  facts'[k].about = job'[k].node
        BY <2>1, <3>1, FactsWhole DEF Placed
      <3> QED
        BY <2>1, <2>2, <3>2, <3>3 DEF Placed
    <2> QED
      BY <1>2, <2>3, <2>4, WriteEffect
  <1>3. ASSUME NEW l \in Learning, Supersede(l) PROVE Placed'
    <2>1. /\ \A k \in Learning \ {l} : job'[k] = job[k]
          /\ Replaces(l) /\ Ended(l) /\ Steps(l)
          /\ node' = node /\ made' = made /\ decisions' = decisions
      BY <1>0, <1>3, SupersedeEffect DEF Steps
    <2>2. Fewer /\ DOMAIN facts' = DOMAIN facts
      BY <2>1 DEF Fewer, Ended, Replaces
    <2>3. \A f \in DOMAIN facts : facts'[f].about = facts[f].about
      BY <2>1 DEF Replaces
    <2>4. \A d \in DOMAIN decisions' : decisions'[d].about \in Ones
      BY <2>1 DEF Placed
    <2> QED
      BY <1>0, <2>1, <2>2, <2>3, <2>4, PlacedFewer, PlacedCalls
  <1>4. ASSUME NEW d \in Deciding, Decide(d) PROVE Placed'
    <2>1. /\ Steps(d) /\ Fewer /\ node' = node /\ made' = made /\ facts' = facts
      BY <1>0, <1>4, DecideEffect DEF Steps, Fewer
    <2>2. \A e \in DOMAIN decisions' : decisions'[e].about \in Ones
      <3>1. CASE decisions' = decisions
        BY <3>1 DEF Placed
      <3>2. CASE DecisionWrite(d)
        <4>1. job[d].node \in Ones
          BY <1>0 DEF Placed
        <4>2. \A e \in DOMAIN decisions' :
                \/ e \in DOMAIN decisions /\ decisions'[e] = decisions[e]
                \/ decisions'[e].about = job[d].node
          BY <3>2 DEF DecisionWrite
        <4> QED
          BY <4>1, <4>2 DEF Placed
      <3> QED
        BY <1>4, <3>1, <3>2 DEF Decide, DecideBegin, DecideBasis
    <2> QED
      BY <1>0, <2>1, <2>2, PlacedFewer, PlacedCalls
  <1>5. ASSUME NEW c \in Call, Kill(c) PROVE Placed'
    <2>1. /\ Steps(c) /\ Fewer /\ node' = node /\ made' = made /\ facts' = facts
          /\ decisions' = decisions
      BY <1>0, <1>5, KillEffect DEF Steps, Fewer
    <2>2. \A d \in DOMAIN decisions' : decisions'[d].about \in Ones
      BY <2>1 DEF Placed
    <2> QED
      BY <2>1, <2>2, PlacedFewer, PlacedCalls
  <1>6. ASSUME NEW t \in Thing, Remember(t) PROVE Placed'
    <2>1. /\ node[t] = None /\ made' = made + 1 /\ node'[t] = made + 1
          /\ \A u \in Thing \ {t} : node'[u] = node[u]
          /\ facts' = facts /\ decisions' = decisions /\ job' = job
      BY <1>6 DEF Remember, TypeOK
    <2>2. Ones' = Ones \cup {made + 1} /\ made + 1 \notin Ones /\ Live' \subseteq Live \cup {made + 1}
      BY <1>0, <2>1, NoneIsNoOwner DEF Ones, Live
    <2>3. \A u, v \in Thing : node'[u] = node'[v] /\ node'[u] # None => u = v
      BY <2>1, <2>2 DEF Placed
    <2>4. \A u \in Thing : node'[u] \in Ones'
      BY <2>1, <2>2 DEF Placed
    <2>5. \A l \in Learning : job'[l].pc = "supersede" /\ job'[l].node \in Live' =>
                                facts'[l].about = job'[l].node
      BY <1>0, <2>1, <2>2 DEF Placed
    <2> QED
      BY <2>1, <2>2, <2>3, <2>4, <2>5 DEF Placed
  <1>7. ASSUME NEW t \in Thing, Sweep(t) PROVE Placed'
    <2>0. /\ \A f \in DOMAIN facts : facts[f] \in FactType
          /\ \A d \in DOMAIN decisions : decisions[d] \in DecisionType
      BY DEF TypeOK
    <2>1. /\ node[t] # None /\ node'[t] = None /\ made' = made /\ job' = job
          /\ \A u \in Thing \ {t} : node'[u] = node[u]
          /\ DOMAIN facts' = DOMAIN facts /\ DOMAIN decisions' = DOMAIN decisions
      BY <1>7 DEF Sweep, TypeOK, Detach
    <2>2. \A f \in DOMAIN facts :
            \/ facts[f].about # node[t] /\ facts'[f] = facts[f]
            \/ facts[f].about = node[t] /\ facts'[f].about = None
      BY <1>7, <2>0 DEF Sweep, Detach, FactType
    <2>3. \A d \in DOMAIN decisions : decisions'[d].about \in {decisions[d].about, None}
      BY <1>7, <2>0 DEF Sweep, Detach, DecisionType
    <2>4. Ones' = Ones /\ Live' \subseteq Live \ {node[t]} /\ None \in Ones
      BY <2>1 DEF Ones, Live, Placed
    <2>5. \A l \in Learning : job'[l].pc = "supersede" /\ job'[l].node \in Live' =>
                                facts'[l].about = job'[l].node
      BY <2>1, <2>2, <2>4, FactsWhole DEF Placed
    <2>6. \A u, v \in Thing : node'[u] = node'[v] /\ node'[u] # None => u = v
      BY <2>1 DEF Placed
    <2>7. \A u \in Thing : node'[u] \in Ones'
      BY <2>1, <2>4 DEF Placed
    <2> QED
      BY <2>1, <2>2, <2>3, <2>4, <2>5, <2>6, <2>7 DEF Placed
  <1>8. CASE UNCHANGED vars
    BY <1>8 DEF vars, Placed, Ones, Live
  <1> QED
    BY <1>1, <1>2, <1>3, <1>4, <1>5, <1>6, <1>7, <1>8 DEF Next, Learn

\* What a step does to the facts an owner has about a node that stays
LEMMA SweepAgrees ==
  ASSUME PastInv, Placed, NEW t \in Thing, Sweep(t), NEW o, NEW n, NEW p, n \in Live'
  PROVE  n \in Live /\ n # node[t] /\ Agree(o, n, p)
PROOF
  <1> USE DEF PastInv, SettledInv
  <1>0. \A f \in DOMAIN facts : facts[f] \in FactType
    BY DEF TypeOK
  <1>1. /\ node'[t] = None /\ DOMAIN facts' = DOMAIN facts
        /\ \A u \in Thing \ {t} : node'[u] = node[u]
    BY DEF Sweep, TypeOK, Detach
  <1>2. \A f \in DOMAIN facts :
          \/ facts[f].about # node[t] /\ facts'[f] = facts[f]
          \/ facts[f].about = node[t] /\ facts'[f].about = None
    BY <1>0 DEF Sweep, Detach, FactType
  <1>3. n \in Live /\ n # node[t] /\ n # None
    BY <1>1 DEF Live, Placed
  <1> QED
    BY <1>1, <1>2, <1>3 DEF Agree

LEMMA RememberAgrees ==
  ASSUME PastInv, Placed, NEW t \in Thing, Remember(t)
  PROVE  /\ made + 1 \notin Ones /\ node'[t] = made + 1 /\ facts' = facts /\ job' = job
         /\ \A u \in Thing \ {t} : node'[u] = node[u]
         /\ Live' \subseteq Live \cup {made + 1}
PROOF
  <1>1. node[t] = None /\ node'[t] = made + 1 /\ \A u \in Thing \ {t} : node'[u] = node[u]
    BY DEF Remember, PastInv, SettledInv, TypeOK
  <1>2. made + 1 \notin Ones
    BY NoneIsNoOwner DEF Ones, PastInv, SettledInv, TypeOK
  <1> QED
    BY <1>1, <1>2 DEF Remember, Live

\* What Based says of one decision
BasedOn(d) ==
  job[d].pc = "decision" /\ job[d].by \in Serial /\ job[d].node \in Live =>
    job[d].basis \in HitOf(job[d].by, job[d].node, job[d].predicate)

LEMMA BasedIs == /\ Based <=> \A d \in Deciding : BasedOn(d)
                 /\ Based' <=> \A d \in Deciding : BasedOn(d)'
PROOF
  BY DEF Based, BasedOn, HitOf

\* A decision waits while its owner's facts stay as they are
LEMMA BasedStays ==
  ASSUME NEW d \in Deciding, BasedOn(d), job'[d] = job[d],
         job[d].pc = "decision" /\ job[d].by \in Serial /\ job[d].node \in Live' =>
           job[d].node \in Live /\ Agree(job[d].by, job[d].node, job[d].predicate)
  PROVE  BasedOn(d)'
PROOF
  <1> SUFFICES ASSUME job'[d].pc = "decision", job'[d].by \in Serial, job'[d].node \in Live'
               PROVE  (job[d].basis \in HitOf(job[d].by, job[d].node, job[d].predicate))'
    BY DEF BasedOn
  <1>1. PICK o, n, p, f : o = job[d].by /\ n = job[d].node /\ p = job[d].predicate /\ f = job[d].basis
    OBVIOUS
  <1>2. f \in HitOf(o, n, p) /\ Agree(o, n, p)
    BY <1>1 DEF BasedOn
  <1>3. HitOf(o, n, p)' = HitOf(o, n, p)
    BY <1>2, HitSame
  <1>4. f \in HitOf(o, n, p)'
    BY <1>2, <1>3
  <1>5. o = job'[d].by /\ n = job'[d].node /\ p = job'[d].predicate /\ f = job'[d].basis
    BY <1>1
  <1> QED
    BY <1>4, <1>5

LEMMA BasedStep == PastInv /\ Alone /\ Placed /\ Based /\ [Next]_vars => Based'
PROOF
  <1> SUFFICES ASSUME PastInv, Alone, Placed, [Next]_vars, NEW d \in Deciding, BasedOn(d)
               PROVE  BasedOn(d)'
    BY BasedIs
  <1> USE DEF PastInv, SettledInv
  <1>0. /\ Learning \subseteq Call /\ d \in Call /\ d \notin Learning
        /\ job[d].pc = "decision" => Running(d)
    BY FactsWhole DEF Running
  <1>1. ASSUME job'[d] = job[d], facts' = facts, Live' \subseteq Live PROVE BasedOn(d)'
    BY <1>1, BasedStays, AgreeStays
  <1>2. ASSUME NEW l \in Learning, Writes(l) \/ Replaces(l), Steps(l), node' = node PROVE BasedOn(d)'
    <2>1. job'[d] = job[d] /\ Live' = Live
      BY <1>0, <1>2 DEF Steps, Live
    <2>2. ASSUME job[d].pc = "decision", job[d].by \in Serial
          PROVE  Agree(job[d].by, job[d].node, job[d].predicate)
      <3>1. job[l].by # job[d].by
        BY <1>0, <1>2, <2>2 DEF Alone, Running, Writes, Replaces
      <3>2. PICK o, n, p : o = job[d].by /\ n = job[d].node /\ p = job[d].predicate
        OBVIOUS
      <3>3. Agree(o, n, p)
        BY <1>2, <3>1, <3>2, AgreeBeside
      <3> QED
        BY <3>2, <3>3 DEF Agree
    <2> QED
      BY <2>1, <2>2, BasedStays
  <1>3. ASSUME NEW l \in Learning, Learn(l) PROVE BasedOn(d)'
    <2>1. CASE LearnBegin(l)
      BY <1>0, <1>1, <2>1, BeginEffect DEF Steps, Live
    <2>2. CASE FactWrite(l)
      <3>1. CASE Writes(l)
        BY <1>2, <2>2, <3>1, WriteEffect
      <3>2. CASE Ended(l) /\ facts' = facts
        BY <1>0, <1>1, <2>2, <3>2, WriteEffect DEF Steps, Live
      <3> QED
        BY <2>2, <3>1, <3>2, WriteEffect
    <2>3. CASE Supersede(l)
      BY <1>2, <2>3, SupersedeEffect
    <2> QED
      BY <1>3, <2>1, <2>2, <2>3 DEF Learn
  <1>4. ASSUME NEW e \in Deciding \ {d}, Decide(e) PROVE BasedOn(d)'
    BY <1>0, <1>1, <1>4, DecideEffect DEF Steps, Live
  <1>5. ASSUME Decide(d) PROVE BasedOn(d)'
    <2>1. CASE DecideBegin(d)
      <3>1. job'[d].pc = "basis"
        BY <1>0, <2>1 DEF DecideBegin, TypeOK
      <3> QED
        BY <3>1 DEF BasedOn
    <2>2. CASE DecisionWrite(d)
      <3>1. job'[d].pc = "done"
        BY <1>0, <2>2, OverType DEF DecisionWrite
      <3> QED
        BY <3>1 DEF BasedOn
    <2>3. CASE DecideBasis(d)
      <3>1. CASE Over(d, "dead")
        <4>1. job'[d].pc = "dead"
          BY <1>0, <3>1, OverType
        <4> QED
          BY <4>1 DEF BasedOn
      <3>2. ASSUME NEW f \in HitOf(job[d].by, job[d].node, job[d].predicate),
                   job' = [job EXCEPT ![d] = [job[d] EXCEPT !.pc = "decision", !.basis = f]]
            PROVE  BasedOn(d)'
        <4>1. job[d] \in JobType
          BY <1>0 DEF TypeOK
        <4>2. /\ job'[d].by = job[d].by /\ job'[d].node = job[d].node
              /\ job'[d].predicate = job[d].predicate /\ job'[d].basis = f
          BY <1>0, <3>2, <4>1 DEF TypeOK, JobType
        <4>3. PICK o, n, p : o = job[d].by /\ n = job[d].node /\ p = job[d].predicate
          OBVIOUS
        <4>4. HitOf(o, n, p)' = HitOf(o, n, p)
          BY <2>3, AgreeStays, HitSame DEF DecideBasis
        <4>5. f \in HitOf(o, n, p)'
          BY <3>2, <4>3, <4>4
        <4>6. (job[d].basis \in HitOf(job[d].by, job[d].node, job[d].predicate))'
          BY <4>2, <4>3, <4>5
        <4> QED
          BY <4>6 DEF BasedOn
      <3> QED
        BY <2>3, <3>1, <3>2 DEF DecideBasis, HitOf
    <2> QED
      BY <1>5, <2>1, <2>2, <2>3 DEF Decide
  <1>6. ASSUME NEW c \in Call, Kill(c) PROVE BasedOn(d)'
    <2>1. CASE c = d
      <3>1. job'[d].pc = "dead"
        BY <1>6, <2>1, KillEffect
      <3> QED
        BY <3>1 DEF BasedOn
    <2>2. CASE c # d
      BY <1>0, <1>1, <1>6, <2>2, KillEffect DEF Steps, Live
    <2> QED
      BY <2>1, <2>2
  <1>7. ASSUME NEW t \in Thing, Remember(t) PROVE BasedOn(d)'
    <2>1. job[d].node \in Live' => job[d].node \in Live
      BY <1>0, <1>7, RememberAgrees DEF Placed
    <2>2. job'[d] = job[d] /\ facts' = facts
      BY <1>7, RememberAgrees
    <2> QED
      BY <2>1, <2>2, BasedStays, AgreeStays
  <1>8. ASSUME NEW t \in Thing, Sweep(t) PROVE BasedOn(d)'
    <2>1. job'[d] = job[d]
      BY <1>8 DEF Sweep
    <2>2. ASSUME job[d].node \in Live'
          PROVE  job[d].node \in Live /\ Agree(job[d].by, job[d].node, job[d].predicate)
      <3>1. PICK o, n, p : o = job[d].by /\ n = job[d].node /\ p = job[d].predicate
        OBVIOUS
      <3>2. n \in Live /\ Agree(o, n, p)
        BY <1>8, <2>2, <3>1, SweepAgrees
      <3> QED
        BY <3>1, <3>2 DEF Agree
    <2> QED
      BY <2>1, <2>2, BasedStays
  <1>9. CASE UNCHANGED vars
    BY <1>1, <1>9 DEF vars, Live
  <1> QED
    BY <1>3, <1>4, <1>5, <1>6, <1>7, <1>8, <1>9 DEF Next

\* What the register rests on
RegisterInv == ToldInv /\ Placed /\ Based

LEMMA RegisterHolds == Spec => []RegisterInv
PROOF
  <1>1. Init => Placed /\ Based
    BY DEF Init, Placed, Based, Ones, NoJob, Call
  <1>2. ToldInv /\ Placed /\ Based /\ [Next]_vars => Placed' /\ Based'
    BY PlacedStep, BasedStep DEF ToldInv
  <1> QED
    BY <1>1, <1>2, ToldHolds, PTL DEF Spec, RegisterInv

\* What a slot holds, and what a decision rests on
BasisOf(d) == IF d \in DOMAIN decisions /\ InSlot(decisions[d]) THEN decisions[d].basis ELSE None
Held(s) == IF node[s[3]] = None \/ HitOf(s[1], node[s[3]], s[2]) = {} THEN None
           ELSE CHOOSE f \in HitOf(s[1], node[s[3]], s[2]) : TRUE

LEMMA HeldIs == \A s \in Slot : CurrentOf(s) = Held(s) /\ CurrentOf(s)' = Held(s)'
PROOF
  BY DEF CurrentOf, Held, HitOf

LEMMA SlotOf ==
  /\ \A s \in Slot : s[1] \in Serial /\ s[2] \in Predicate /\ s[3] \in Thing \ Row
                     /\ s = <<s[1], s[2], s[3]>>
  /\ \A o \in Serial, p \in Predicate, t \in Thing \ Row : <<o, p, t>> \in Slot
PROOF
  BY DEF Slot

\* A slot stays while its thing's node does and its facts agree
LEMMA HeldSame ==
  ASSUME NEW s \in Slot, node'[s[3]] = node[s[3]],
         node[s[3]] # None => Agree(s[1], node[s[3]], s[2])
  PROVE  CurrentOf(s)' = CurrentOf(s)
PROOF
  <1>1. PICK o, n, p : o = s[1] /\ n = node[s[3]] /\ p = s[2]
    OBVIOUS
  <1>2. CASE n = None
    BY <1>1, <1>2, HeldIs DEF Held
  <1>3. CASE n # None
    <2>1. HitOf(o, n, p)' = HitOf(o, n, p)
      BY <1>1, <1>3, HitSame
    <2>2. Held(s) = IF HitOf(o, n, p) = {} THEN None ELSE CHOOSE f \in HitOf(o, n, p) : TRUE
      BY <1>1, <1>3 DEF Held
    <2>3. Held(s)' = IF HitOf(o, n, p)' = {} THEN None ELSE CHOOSE f \in HitOf(o, n, p)' : TRUE
      <3>1. n = node'[s[3]]
        BY <1>1
      <3> QED
        BY <1>1, <1>3, <3>1 DEF Held
    <2> QED
      BY <2>1, <2>2, <2>3, HeldIs
  <1> QED
    BY <1>2, <1>3

LEMMA BasisSame ==
  ASSUME decisions' = decisions, node' = node PROVE \A d : BasisOf(d)' = BasisOf(d)
PROOF
  BY DEF BasisOf, InSlot

\* The one fact that is later than the others that hold is the slot's
LEMMA HeldLatest ==
  ASSUME NEW s \in Slot, NEW l, node[s[3]] # None, l \in Current(s[1], node[s[3]], s[2]),
         \A f \in DOMAIN facts : facts[f].at \in Nat,
         \A f \in Current(s[1], node[s[3]], s[2]) \ {l} : facts[f].at < facts[l].at
  PROVE  CurrentOf(s) = l
PROOF
  <1> DEFINE S == Current(s[1], node[s[3]], s[2])
  <1>1. l \in LatestOf(S)
    BY DEF LatestOf, Current
  <1>2. \A f \in LatestOf(S) : f = l
    BY DEF LatestOf, Current
  <1>3. LatestOf(S) = {l}
    BY <1>1, <1>2
  <1> HIDE DEF S
  <1>4. HitOf(s[1], node[s[3]], s[2]) = {l}
    BY <1>3 DEF HitOf, S
  <1> QED
    BY <1>4, HeldIs DEF Held

LEMMA HeldLatestNext ==
  ASSUME NEW s \in Slot, NEW l, (node[s[3]] # None)', (l \in Current(s[1], node[s[3]], s[2]))',
         (\A f \in DOMAIN facts : facts[f].at \in Nat)',
         (\A f \in Current(s[1], node[s[3]], s[2]) \ {l} : facts[f].at < facts[l].at)'
  PROVE  CurrentOf(s)' = l
PROOF
  <1> DEFINE S == Current(s[1], node[s[3]], s[2])
  <1>1. (l \in LatestOf(S))'
    BY DEF LatestOf, Current
  <1>2. (\A f \in LatestOf(S) : f = l)'
    BY DEF LatestOf, Current
  <1>3. (LatestOf(S) = {l})'
    BY <1>1, <1>2
  <1> HIDE DEF S
  <1>4. (HitOf(s[1], node[s[3]], s[2]) = {l})'
    BY <1>3 DEF HitOf, S
  <1> QED
    BY <1>4, HeldIs DEF Held

\* A step changes no slot and no basis, or is the register's
Quiet == (\A s \in Slot : CurrentOf(s)' = CurrentOf(s)) /\ (\A d \in Deciding : BasisOf(d)' = BasisOf(d))
Learns(s, l) ==
  /\ \A r \in Slot : CurrentOf(r) # l
  /\ CurrentOf(s)' = l /\ \A r \in Slot \ {s} : CurrentOf(r)' = CurrentOf(r)
  /\ \A d \in Deciding : BasisOf(d)' = BasisOf(d)
Decides(d, s) ==
  /\ BasisOf(d) = None /\ CurrentOf(s) # None
  /\ BasisOf(d)' = CurrentOf(s) /\ \A e \in Deciding \ {d} : BasisOf(e)' = BasisOf(e)
  /\ \A r \in Slot : CurrentOf(r)' = CurrentOf(r)

LEMMA QuietStep ==
  ASSUME facts' = facts, decisions' = decisions, node' = node PROVE Quiet
PROOF
  BY HeldSame, AgreeStays, BasisSame DEF Quiet

LEMMA HeldKnown == ASSUME PastInv, NEW s \in Slot PROVE CurrentOf(s) \in DOMAIN facts \cup {None}
PROOF
  <1>1. HitOf(s[1], node[s[3]], s[2]) \subseteq DOMAIN facts
    BY DEF HitOf, LatestOf, Current
  <1> QED
    BY <1>1, HeldIs DEF Held

\* Whose slot a lesson is for, if it is anyone's
SlotFor(l, s) == s \in Slot /\ s[1] = job[l].by /\ s[2] = job[l].predicate /\ node[s[3]] = job[l].node

LEMMA OneSlot ==
  ASSUME PastInv, Placed, NEW l \in Learning, Writes(l) \/ Replaces(l), job[l].node \in Nodes,
         node' = node, NEW s \in Slot, ~SlotFor(l, s)
  PROVE  CurrentOf(s)' = CurrentOf(s)
PROOF
  <1>1. job[l].by # s[1] \/ job[l].node # node[s[3]] \/ job[l].predicate # s[2]
    BY DEF SlotFor
  <1>2. PICK o, n, p : o = s[1] /\ n = node[s[3]] /\ p = s[2]
    OBVIOUS
  <1>3. Agree(o, n, p)
    BY <1>1, <1>2, AgreeBeside
  <1>4. Agree(s[1], node[s[3]], s[2])
    BY <1>2, <1>3 DEF Agree
  <1> QED
    BY <1>4, HeldSame

LEMMA UniqueSlot ==
  ASSUME PastInv, Placed, NEW l \in Learning, job[l].node \in Nodes,
         NEW s, NEW r, SlotFor(l, s), SlotFor(l, r)
  PROVE  s = r
PROOF
  <1>1. s[3] = r[3]
    BY NodesNat, SlotOf DEF SlotFor, Placed
  <1> QED
    BY <1>1, SlotOf DEF SlotFor

LEMMA WriteLearns ==
  ASSUME RegisterInv, NEW l \in Learning, FactWrite(l)
  PROVE  Quiet \/ \E s \in Slot : Learns(s, l)
PROOF
  <1> USE DEF RegisterInv, ToldInv, PastInv, SettledInv
  <1>1. node' = node /\ decisions' = decisions
    BY WriteEffect
  <1>2. CASE Ended(l) /\ facts' = facts
    BY <1>1, <1>2, QuietStep
  <1>3. CASE Writes(l)
    <2>1. /\ job[l].node \in Nodes /\ l \notin DOMAIN facts /\ l # None
      BY <1>3, FactsWhole, KnowledgeAssumption DEF Writes, TypeOK, CallOk, Call
    <2>2. CASE \A s \in Slot : ~SlotFor(l, s)
      BY <1>1, <1>3, <2>1, <2>2, OneSlot, BasisSame DEF Quiet
    <2>3. ASSUME NEW s \in Slot, SlotFor(l, s) PROVE Learns(s, l)
      <3>1. \A r \in Slot \ {s} : CurrentOf(r)' = CurrentOf(r)
        BY <1>1, <1>3, <2>1, <2>3, OneSlot, UniqueSlot
      <3>2. \A r \in Slot : CurrentOf(r) # l
        BY <2>1, HeldKnown
      <3>3. (l \in Current(s[1], node[s[3]], s[2]))'
        BY <1>1, <1>3, <2>3 DEF Writes, Current, SlotFor
      <3>4. (\A f \in Current(s[1], node[s[3]], s[2]) \ {l} : facts[f].at < facts[l].at)'
        <4> SUFFICES ASSUME NEW f \in Current(s[1], node[s[3]], s[2])', f # l
                     PROVE  facts'[f].at < facts'[l].at
          OBVIOUS
        <4>1. f \in DOMAIN facts /\ facts'[f] = facts[f] /\ facts[f].by = job[l].by
              /\ facts'[l].at = job[l].at
          BY <1>3, <2>1, <2>3 DEF Current, Writes, SlotFor
        <4>2. job[l].by \in Serial /\ job[l].pc = "fact"
          BY <1>3, <2>3, SlotOf DEF SlotFor, Writes
        <4> QED
          BY <4>1, <4>2 DEF Newest
      <3>5. (node[s[3]] # None)'
        BY <1>1, <2>1, <2>3, NodesNat DEF SlotFor
      <3>6. (\A f \in DOMAIN facts : facts[f].at \in Nat)'
        <4>1. TypeOK'
          BY TypeStep DEF Next, Learn
        <4> QED
          BY <4>1 DEF TypeOK, FactType
      <3>7. CurrentOf(s)' = l
        BY <3>3, <3>4, <3>5, <3>6, HeldLatestNext
      <3> QED
        BY <1>1, <3>1, <3>2, <3>7, BasisSame DEF Learns
    <2> QED
      BY <2>2, <2>3
  <1> QED
    BY <1>2, <1>3, WriteEffect

\* Superseding leaves the slot its fact, the newest one of those that held
LEMMA SupersedeQuiet ==
  ASSUME RegisterInv, NEW l \in Learning, Supersede(l)
  PROVE  Quiet
PROOF
  <1> USE DEF RegisterInv, ToldInv, PastInv, SettledInv
  <1>1. /\ Replaces(l) /\ node' = node /\ decisions' = decisions
        /\ job[l].pc = "supersede" /\ l \in DOMAIN facts
    BY SupersedeEffect DEF Replaces
  <1>2. job[l].node \in Nodes /\ facts[l].by = job[l].by /\ facts[l].predicate = job[l].predicate
        /\ facts[l].at = job[l].at
    BY <1>1, FactsWhole DEF TypeOK, CallOk, Call, Told
  <1>3. ASSUME NEW s \in Slot, SlotFor(l, s) PROVE CurrentOf(s)' = CurrentOf(s)
    <2>1. job[l].node \in Live /\ node[s[3]] # None /\ job[l].by \in Serial
      BY <1>2, <1>3, NodesNat, SlotOf DEF SlotFor, Live
    <2>2. facts[l].about = job[l].node /\ facts[l].until = None
      BY <1>1, <2>1 DEF Placed, Newest, Holding
    <2>3. l \in Current(s[1], node[s[3]], s[2])
      BY <1>1, <1>2, <1>3, <2>2 DEF Current, SlotFor
    <2>4. \A f \in DOMAIN facts : facts[f].at \in Nat
      BY FactsWhole
    <2>5. \A f \in Current(s[1], node[s[3]], s[2]) \ {l} : facts[f].at < facts[l].at
      BY <1>1, <1>2, <1>3, <2>1 DEF Current, SlotFor, Newest
    <2>6. CurrentOf(s) = l
      BY <2>1, <2>3, <2>4, <2>5, HeldLatest
    <2>7. Old(l) = Current(s[1], node[s[3]], s[2]) \ {l}
      BY <1>3 DEF Old, SlotFor
    <2>8. facts'[l] = facts[l] /\ DOMAIN facts' = DOMAIN facts
      BY <1>1, <2>7 DEF Replaces
    <2>9. (l \in Current(s[1], node[s[3]], s[2]))'
      BY <1>1, <2>3, <2>8 DEF Current
    <2>10. (\A f \in Current(s[1], node[s[3]], s[2]) \ {l} : facts[f].at < facts[l].at)'
      <3> SUFFICES ASSUME NEW f \in Current(s[1], node[s[3]], s[2])', f # l PROVE FALSE
        OBVIOUS
      <3>1. f \in DOMAIN facts /\ facts'[f].until = None /\ facts'[f].by = s[1]
            /\ facts'[f].about = node[s[3]] /\ facts'[f].predicate = s[2]
        BY <1>1, <2>8 DEF Current
      <3>2. CASE f \in Old(l)
        <4>1. facts[f].at \in Nat /\ job[l].at \in Nat
          BY <3>1, FactsWhole DEF Call
        <4> QED
          BY <1>1, <3>1, <3>2, <4>1, NoneIsNoOwner DEF Replaces
      <3>3. CASE f \notin Old(l)
        <4>1. facts'[f] = facts[f]
          BY <1>1, <3>1, <3>3 DEF Replaces
        <4>2. f \in Current(s[1], node[s[3]], s[2])
          BY <3>1, <4>1 DEF Current
        <4> QED
          BY <2>7, <3>3, <4>2
      <3> QED
        BY <3>2, <3>3
    <2>11. (node[s[3]] # None)'
      BY <1>1, <2>1
    <2>12. (\A f \in DOMAIN facts : facts[f].at \in Nat)'
      <3>1. TypeOK'
        BY TypeStep DEF Next, Learn
      <3> QED
        BY <3>1 DEF TypeOK, FactType
    <2>13. CurrentOf(s)' = l
      BY <2>9, <2>10, <2>11, <2>12, HeldLatestNext
    <2> QED
      BY <2>6, <2>13
  <1>4. ASSUME NEW s \in Slot, ~SlotFor(l, s) PROVE CurrentOf(s)' = CurrentOf(s)
    BY <1>1, <1>2, <1>4, OneSlot
  <1> QED
    BY <1>1, <1>3, <1>4, BasisSame DEF Quiet

\* A decision written rests on what the slot holds
LEMMA DecideDecides ==
  ASSUME RegisterInv, NEW d \in Deciding, DecisionWrite(d)
  PROVE  Quiet \/ \E s \in Slot : Decides(d, s)
PROOF
  <1> USE DEF RegisterInv, ToldInv, PastInv, SettledInv
  <1>1. /\ job[d].pc = "decision" /\ facts' = facts /\ node' = node
        /\ DOMAIN decisions' = DOMAIN decisions \cup (IF job[d].node \in Live THEN {d} ELSE {})
        /\ \A e \in DOMAIN decisions' \ {d} : decisions'[e] = decisions[e]
        /\ d \in DOMAIN decisions' =>
             decisions'[d] = [about |-> job[d].node, by |-> job[d].by, basis |-> job[d].basis, at |-> now]
    BY DEF DecisionWrite
  <1>2. d \notin DOMAIN decisions /\ job[d].node \in Nodes /\ job[d].by \in Owner
        /\ job[d].predicate \in Predicate /\ job[d].basis \in DOMAIN facts
    BY <1>1 DEF Undecided, TypeOK, CallOk, Call
  <1>3. \A s \in Slot : CurrentOf(s)' = CurrentOf(s)
    BY <1>1, HeldSame, AgreeStays
  <1>4. \A e \in Deciding \ {d} : BasisOf(e)' = BasisOf(e)
    BY <1>1 DEF BasisOf, InSlot
  <1>5. BasisOf(d) = None
    BY <1>2 DEF BasisOf
  <1>6. CASE job[d].by \in Serial /\ \E t \in Thing \ Row : node[t] = job[d].node
    <2>1. PICK t \in Thing \ Row : node[t] = job[d].node
      BY <1>6
    <2>2. PICK s : s = <<job[d].by, job[d].predicate, t>>
      OBVIOUS
    <2>3. s \in Slot /\ s[1] = job[d].by /\ s[2] = job[d].predicate /\ s[3] = t
      BY <1>2, <1>6, <2>2, SlotOf
    <2>4. job[d].node # None /\ job[d].node \in Live
      BY <1>2, <2>1, NodesNat DEF Live
    <2>5. job[d].basis \in HitOf(s[1], node[s[3]], s[2])
      BY <1>1, <1>6, <2>1, <2>3, <2>4 DEF Based, HitOf
    <2>6. \A f \in HitOf(s[1], node[s[3]], s[2]) : f = job[d].basis
      <3> SUFFICES ASSUME NEW f \in HitOf(s[1], node[s[3]], s[2]) PROVE f = job[d].basis
        OBVIOUS
      <3>1. /\ f \in DOMAIN facts /\ facts[job[d].basis].at =< facts[f].at
            /\ facts[f].at =< facts[job[d].basis].at
        BY <2>5 DEF HitOf, LatestOf, Current
      <3>2. facts[f].at \in Nat /\ facts[job[d].basis].at \in Nat
        BY <1>2, <3>1, FactsWhole
      <3> QED
        BY <1>2, <3>1, <3>2 DEF Told
    <2>7. HitOf(s[1], node[s[3]], s[2]) = {job[d].basis}
      BY <2>5, <2>6
    <2>8. CurrentOf(s) = job[d].basis
      BY <2>1, <2>3, <2>4, <2>7, HeldIs DEF Held
    <2>9. job[d].basis # None
      BY <1>2, FactsWhole, KnowledgeAssumption
    <2>10. d \in DOMAIN decisions' /\ decisions'[d].basis = job[d].basis /\ InSlot(decisions[d])'
      BY <1>1, <1>6, <2>1, <2>4 DEF InSlot
    <2>11. BasisOf(d)' = job[d].basis
      BY <2>10 DEF BasisOf
    <2> QED
      BY <1>3, <1>4, <1>5, <2>3, <2>8, <2>9, <2>11 DEF Decides
  <1>7. CASE ~(job[d].by \in Serial /\ \E t \in Thing \ Row : node[t] = job[d].node)
    <2>1. d \in DOMAIN decisions' => ~InSlot(decisions[d])'
      BY <1>1, <1>7 DEF InSlot
    <2>2. BasisOf(d)' = None
      BY <2>1 DEF BasisOf
    <2> QED
      BY <1>3, <1>4, <1>5, <2>2 DEF Quiet
  <1> QED
    BY <1>6, <1>7

\* A node made or swept is no slot's
LEMMA RememberQuiet ==
  ASSUME RegisterInv, NEW t \in Thing, Remember(t)
  PROVE  Quiet
PROOF
  <1> USE DEF RegisterInv, ToldInv
  <1>1. /\ made + 1 \notin Ones /\ node'[t] = made + 1 /\ facts' = facts
        /\ \A u \in Thing \ {t} : node'[u] = node[u]
        /\ node[t] = None /\ decisions' = decisions
    BY RememberAgrees DEF Remember
  <1>2. ASSUME NEW s \in Slot PROVE CurrentOf(s)' = CurrentOf(s)
    <2>1. CASE s[3] # t
      BY <1>1, <2>1, SlotOf, HeldSame, AgreeStays
    <2>2. CASE s[3] = t
      <3>1. CurrentOf(s) = None
        BY <1>1, <2>2, HeldIs DEF Held
      <3>2. \A f \in DOMAIN facts : facts[f].about # made + 1
        BY <1>1 DEF Placed
      <3>3. (HitOf(s[1], node[s[3]], s[2]) = {})'
        BY <1>1, <2>2, <3>2 DEF HitOf, LatestOf, Current
      <3>4. CurrentOf(s)' = None
        BY <3>3, HeldIs DEF Held
      <3> QED
        BY <3>1, <3>4
    <2> QED
      BY <2>1, <2>2
  <1>3. ASSUME NEW d \in Deciding PROVE BasisOf(d)' = BasisOf(d)
    <2>1. ASSUME d \in DOMAIN decisions PROVE InSlot(decisions[d])' <=> InSlot(decisions[d])
      <3>1. decisions[d].about # made + 1 /\ decisions'[d] = decisions[d]
        BY <1>1, <2>1 DEF Placed
      <3>2. \A u \in Thing \ Row : decisions[d].about # None =>
              (node'[u] = decisions[d].about <=> node[u] = decisions[d].about)
        BY <1>1, <3>1
      <3> QED
        BY <3>1, <3>2 DEF InSlot
    <2> QED
      BY <1>1, <2>1 DEF BasisOf
  <1> QED
    BY <1>2, <1>3 DEF Quiet

LEMMA SweepQuiet ==
  ASSUME RegisterInv, NEW t \in Thing, Sweep(t)
  PROVE  Quiet
PROOF
  <1> USE DEF RegisterInv, ToldInv, PastInv, SettledInv
  <1>1. /\ t \in Row /\ node[t] # None /\ node'[t] = None
        /\ \A u \in Thing \ {t} : node'[u] = node[u]
        /\ DOMAIN decisions' = DOMAIN decisions
    BY DEF Sweep, TypeOK, Detach
  <1>2. ASSUME NEW s \in Slot PROVE CurrentOf(s)' = CurrentOf(s)
    <2>1. node'[s[3]] = node[s[3]] /\ s[3] \in Thing
      BY <1>1, SlotOf
    <2>2. ASSUME node[s[3]] # None PROVE Agree(s[1], node[s[3]], s[2])
      <3>1. PICK o, n, p : o = s[1] /\ n = node[s[3]] /\ p = s[2]
        OBVIOUS
      <3>2. n \in Live'
        BY <2>1, <2>2, <3>1 DEF Live
      <3>3. Agree(o, n, p)
        BY <3>2, SweepAgrees
      <3> QED
        BY <3>1, <3>3 DEF Agree
    <2> QED
      BY <2>1, <2>2, HeldSame
  <1>3. ASSUME NEW d \in Deciding PROVE BasisOf(d)' = BasisOf(d)
    <2>1. ASSUME d \in DOMAIN decisions
          PROVE  /\ InSlot(decisions[d])' <=> InSlot(decisions[d])
                 /\ decisions'[d].basis = decisions[d].basis
      <3>1. decisions[d] \in DecisionType
        BY <2>1 DEF TypeOK
      <3>2. \/ decisions[d].about # node[t] /\ decisions'[d] = decisions[d]
            \/ decisions[d].about = node[t] /\ decisions'[d] = [decisions[d] EXCEPT !.about = None]
        BY <2>1 DEF Sweep, Detach
      <3>3. {node'[u] : u \in Thing \ Row} = {node[u] : u \in Thing \ Row}
        BY <1>1
      <3>4. CASE decisions[d].about # node[t] /\ decisions'[d] = decisions[d]
        BY <3>3, <3>4 DEF InSlot
      <3>5. CASE decisions[d].about = node[t] /\ decisions'[d] = [decisions[d] EXCEPT !.about = None]
        <4>1. node[t] \notin {node[u] : u \in Thing \ Row} \ {None}
          BY <1>1 DEF Placed
        <4>2. decisions'[d].about = None /\ decisions'[d].basis = decisions[d].basis
          BY <3>1, <3>5 DEF DecisionType
        <4> QED
          BY <3>5, <4>1, <4>2 DEF InSlot
      <3> QED
        BY <3>2, <3>4, <3>5
    <2> QED
      BY <1>1, <2>1 DEF BasisOf
  <1> QED
    BY <1>2, <1>3 DEF Quiet

LEMMA RegisterStep ==
  ASSUME RegisterInv, [Next]_vars
  PROVE  \/ Quiet
         \/ \E s \in Slot, l \in Learning : Learns(s, l)
         \/ \E d \in Deciding, s \in Slot : Decides(d, s)
PROOF
  <1> USE DEF RegisterInv, ToldInv, PastInv, SettledInv
  <1>1. ASSUME NEW l \in Learning, Learn(l) PROVE Quiet \/ \E s \in Slot : Learns(s, l)
    BY <1>1, QuietStep, WriteLearns, SupersedeQuiet DEF Learn, LearnBegin
  <1>2. ASSUME NEW d \in Deciding, Decide(d) PROVE Quiet \/ \E s \in Slot : Decides(d, s)
    BY <1>2, QuietStep, DecideDecides DEF Decide, DecideBegin, DecideBasis
  <1>3. ASSUME NEW c \in Call, Kill(c) PROVE Quiet
    BY <1>3, QuietStep DEF Kill
  <1>4. ASSUME NEW t \in Thing, Remember(t) \/ Sweep(t) PROVE Quiet
    BY <1>4, RememberQuiet, SweepQuiet
  <1>5. CASE UNCHANGED vars
    BY <1>5, QuietStep DEF vars
  <1> QED
    BY <1>1, <1>2, <1>3, <1>4, <1>5 DEF Next

\* Of the things no sweep takes, an owner whose calls run one at a time has a register,
\* whatever other owners do beside and wherever a process dies: the fact that holds is the
\* last one learned, and a decision rests on the one that held when it was written (learn,
\* decide: FACT, SUPERSEDE, CURRENT_FACT, DECISION)
THEOREM KnowledgeImplementsRegister == Spec => ImplementsRegister
PROOF
  <1> DEFINE cur == [s \in Slot |-> CurrentOf(s)]
             bas == [d \in Deciding |-> BasisOf(d)]
  <1>0. bas = [d \in Deciding |-> IF d \in DOMAIN decisions /\ InSlot(decisions[d])
                                    THEN decisions[d].basis ELSE None]
    BY DEF BasisOf
  <1>1. Init => R!Init
    <2> SUFFICES ASSUME Init PROVE R!Init
      OBVIOUS
    <2>1. \A s \in Slot : CurrentOf(s) = None
      BY SlotOf DEF Init, CurrentOf
    <2>2. \A d \in Deciding : BasisOf(d) = None
      BY DEF Init, BasisOf
    <2> QED
      BY <2>1, <2>2 DEF R!Init, BasisOf
  <1>2. RegisterInv /\ [Next]_vars => [R!Next]_(R!vars)
    <2> SUFFICES ASSUME RegisterInv, [Next]_vars PROVE [R!Next]_(R!vars)
      OBVIOUS
    <2>1. CASE Quiet
      <3>1. cur' = cur /\ bas' = bas
        BY <2>1 DEF Quiet
      <3> QED
        BY <3>1 DEF R!vars, BasisOf
    <2>2. ASSUME NEW s \in Slot, NEW l \in Learning, Learns(s, l) PROVE R!Learn(s, l)
      <3>1. cur' = [cur EXCEPT ![s] = l] /\ bas' = bas /\ \A r \in Slot : cur[r] # l
        BY <2>2 DEF Learns
      <3> QED
        BY <3>1 DEF R!Learn, BasisOf
    <2>3. ASSUME NEW d \in Deciding, NEW s \in Slot, Decides(d, s) PROVE R!Decide(d, s)
      <3>1. cur' = cur /\ bas' = [bas EXCEPT ![d] = cur[s]] /\ bas[d] = None /\ cur[s] # None
        BY <2>3 DEF Decides
      <3> QED
        BY <3>1 DEF R!Decide, BasisOf
    <2> QED
      BY <2>1, <2>2, <2>3, RegisterStep DEF R!Next
  <1> QED
    BY <1>1, <1>2, RegisterHolds, PTL DEF Spec, ImplementsRegister, R!Spec
=============================================================================
