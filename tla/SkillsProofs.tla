---------------------------- MODULE SkillsProofs ----------------------------
(***************************************************************************)
(* What skills keep for every number of tasks, paths, distillations and    *)
(* approvals beside each other.                                            *)
(***************************************************************************)
EXTENDS Skills, FiniteSetTheorems, TLAPS

LEMMA TaskSets ==
  ASSUME NEW S, S \subseteq Task
  PROVE  IsFiniteSet(S) /\ Cardinality(S) \in Nat
PROOF
  BY SkillsAssumption, FS_Subset, FS_CardinalityType

LEMMA TypeInit == Init => TypeOK
PROOF
  <1> SUFFICES ASSUME Init PROVE TypeOK
    OBVIOUS
  <1>1. TasksOk /\ SkillsOk /\ FactsOk
    BY DEF Init, TasksOk, SkillsOk, FactsOk, TaskType, Closed
  <1>2. NoRun \in RunType
    BY DEF NoRun, RunType
  <1>3. distilling \in [Run -> RunType] /\ \A r \in Run : RunOk(r)
    BY <1>2 DEF Init, RunOk, NoRun
  <1>4. approving \in [Approver -> ApproveType] /\ \A a \in Approver : ApproveOk(a)
    BY DEF Init, ApproveOk, ApproveType
  <1> QED
    BY <1>1, <1>3, <1>4 DEF TypeOK

\* What every command but the one that takes the step still has
LEMMA RunsStay ==
  ASSUME TypeOK, DOMAIN skills \subseteq DOMAIN skills', Closed \subseteq Closed',
         NEW R \in SUBSET Run, \A r \in R : distilling'[r] = distilling[r]
  PROVE  \A r \in R : RunOk(r)'
PROOF
  BY DEF TypeOK, RunOk

LEMMA ApprovalsStay ==
  ASSUME TypeOK, DOMAIN skills \subseteq DOMAIN skills', approving' = approving
  PROVE  approving' \in [Approver -> ApproveType] /\ \A a \in Approver : ApproveOk(a)'
PROOF
  BY DEF TypeOK, ApproveOk

LEMMA TasksStay ==
  ASSUME TypeOK, DOMAIN skills \subseteq DOMAIN skills', tasks' = tasks
  PROVE  TasksOk' /\ Closed' = Closed
PROOF
  BY DEF TypeOK, TasksOk, Closed

LEMMA FactsStay ==
  ASSUME TypeOK, DOMAIN skills \subseteq DOMAIN skills', Closed \subseteq Closed',
         supersedes' = supersedes, follows' = follows, approvals' = approvals,
         retirals' = retirals
  PROVE  FactsOk'
PROOF
  <1>1. \A f \in retirals : f \in [run : Run, key : DOMAIN skills', uses : Nat, wins : Nat]
    BY DEF TypeOK, FactsOk
  <1> QED
    BY <1>1 DEF TypeOK, FactsOk

\* A task's step: only the task changes, and what it follows are skills it found
LEMMA ConverseSteps ==
  ASSUME TypeOK, NEW t \in Task, Converse(t)
  PROVE  \E x \in TaskType :
           /\ tasks' = [tasks EXCEPT ![t] = x]
           /\ x.pc # "open" => x.path \in Path
           /\ tasks[t].pc # "open" => x.pc # "open"
           /\ x.hits \subseteq DOMAIN skills
           /\ follows' \subseteq follows \cup {<<t, k>> : k \in tasks[t].hits}
           /\ follows' # follows => t \in Closed
PROOF
  <1>1. /\ tasks \in [Task -> TaskType] /\ tasks[t] \in TaskType
        /\ tasks[t].hits \subseteq DOMAIN skills /\ DOMAIN skills \subseteq Path
        /\ tasks[t].pc # "open" => tasks[t].path \in Path
    BY DEF TypeOK, TasksOk, SkillsOk, Closed
  <1>2. CASE Close(t)
    <2>1. PICK p \in Path, ok \in BOOLEAN :
            tasks' = [tasks EXCEPT ![t] = [tasks[t] EXCEPT !.pc = "closed", !.path = p, !.ok = ok]]
      BY <1>1, <1>2 DEF Close
    <2> DEFINE x == [tasks[t] EXCEPT !.pc = "closed", !.path = p, !.ok = ok]
    <2>2. x \in TaskType /\ x.path = p /\ x.pc = "closed" /\ x.hits = tasks[t].hits
      BY <1>1 DEF TaskType
    <2> QED
      BY <1>1, <1>2, <2>1, <2>2 DEF Close
  <1>3. CASE Follow(t)
    <2>1. PICK hits \in SUBSET DOMAIN skills, pc \in {"over", "follow"} :
            tasks' = [tasks EXCEPT ![t] = [tasks[t] EXCEPT !.hits = hits, !.pc = pc]]
      BY <1>1, <1>3 DEF Follow, Approved
    <2> DEFINE x == [tasks[t] EXCEPT !.hits = hits, !.pc = pc]
    <2>2. x \in TaskType /\ x.path = tasks[t].path /\ x.pc = pc /\ x.hits = hits
      BY <1>1 DEF TaskType
    <2>3. tasks[t].pc = "closed"
      BY <1>3 DEF Follow
    <2> QED
      BY <1>1, <1>3, <2>1, <2>2, <2>3 DEF Follow
  <1>4. CASE FollowWrite(t)
    <2>1. PICK k \in tasks[t].hits :
            /\ follows' = follows \cup {<<t, k>>}
            /\ tasks' = [tasks EXCEPT ![t] = Followed(tasks[t], k)]
      BY <1>4 DEF FollowWrite
    <2> DEFINE x == Followed(tasks[t], k)
    <2>2. /\ x \in TaskType /\ x.path = tasks[t].path /\ x.pc # "open"
          /\ x.hits = tasks[t].hits \ {k}
      BY <1>1 DEF TaskType, Followed
    <2>3. tasks[t].pc = "follow" /\ t \in Closed
      BY <1>4 DEF FollowWrite, Closed
    <2> QED
      BY <1>1, <2>1, <2>2, <2>3
  <1>5. CASE Rate(t)
    <2> DEFINE x == [tasks[t] EXCEPT !.bad = TRUE]
    <2>1. x \in TaskType /\ x.path = tasks[t].path /\ x.pc = tasks[t].pc
          /\ x.hits = tasks[t].hits
      BY <1>1 DEF TaskType
    <2>2. tasks' = [tasks EXCEPT ![t] = x]
      BY <1>1, <1>5 DEF Rate
    <2> QED
      BY <1>1, <1>5, <2>1, <2>2 DEF Rate
  <1> QED
    BY <1>2, <1>3, <1>4, <1>5 DEF Converse

LEMMA ConverseType ==
  ASSUME TypeOK, NEW t \in Task, Converse(t) PROVE TypeOK'
PROOF
  <1>0. /\ skills' = skills /\ supersedes' = supersedes /\ approvals' = approvals
        /\ retirals' = retirals /\ distilling' = distilling /\ approving' = approving
    BY DEF Converse, Close, Follow, FollowWrite, Rate, UNCHANGED_SKILLS
  <1>1. PICK x \in TaskType :
           /\ tasks' = [tasks EXCEPT ![t] = x]
           /\ x.pc # "open" => x.path \in Path
           /\ tasks[t].pc # "open" => x.pc # "open"
           /\ x.hits \subseteq DOMAIN skills
           /\ follows' \subseteq follows \cup {<<t, k>> : k \in tasks[t].hits}
           /\ follows' # follows => t \in Closed
    BY ConverseSteps
  <1>2. Closed \subseteq Closed'
    BY <1>1 DEF TypeOK, TasksOk, Closed
  <1>3. TasksOk'
    BY <1>0, <1>1 DEF TypeOK, TasksOk, Closed
  <1>4. FactsOk'
    <2>1. follows' \subseteq Closed' \X DOMAIN skills
      BY <1>1, <1>2 DEF TypeOK, FactsOk, TasksOk
    <2> QED
      BY <1>0, <2>1 DEF TypeOK, FactsOk
  <1>5. \A r \in Run : RunOk(r)'
    BY <1>0, <1>2, RunsStay
  <1>6. SkillsOk'
    BY <1>0 DEF TypeOK, SkillsOk
  <1> QED
    BY <1>0, <1>3, <1>4, <1>5, <1>6, ApprovalsStay DEF TypeOK

\* A distillation's own step: it goes on with what is there
LEMMA OneRun ==
  ASSUME TypeOK, NEW r \in Run, NEW j \in RunType,
         distilling' = [distilling EXCEPT ![r] = j],
         tasks' = tasks, DOMAIN skills \subseteq DOMAIN skills', RunOk(r)'
  PROVE  distilling' \in [Run -> RunType] /\ \A x \in Run : RunOk(x)'
PROOF
  <1>1. \A x \in Run \ {r} : distilling'[x] = distilling[x]
    BY DEF TypeOK
  <1>2. Closed' = Closed
    BY TasksStay
  <1>3. \A x \in Run \ {r} : RunOk(x)'
    BY <1>1, <1>2, RunsStay
  <1> QED
    BY <1>3 DEF TypeOK

\* A step of a distillation that writes nothing
LEMMA ReadType ==
  ASSUME TypeOK, NEW r \in Run, NEW j \in RunType,
         distilling' = [distilling EXCEPT ![r] = j], RunOk(r)',
         UNCHANGED <<tasks, skills, supersedes, follows, approvals, retirals, approving>>
  PROVE  TypeOK'
PROOF
  <1>1. TasksOk' /\ Closed' = Closed
    BY TasksStay
  <1>2. SkillsOk'
    BY DEF TypeOK, SkillsOk
  <1>3. FactsOk'
    BY <1>1, FactsStay
  <1> QED
    BY <1>1, <1>2, <1>3, OneRun, ApprovalsStay DEF TypeOK

LEMMA ExperienceType ==
  ASSUME TypeOK, NEW r \in Run, Experience(r) PROVE TypeOK'
PROOF
  <1> DEFINE j == distilling[r]
             made == {w \in Work : Supported(w)}
  <1>1. j \in RunType /\ RunOk(r)
    BY DEF TypeOK
  <1>2. PICK best \in [made -> Path] :
          distilling' = [distilling EXCEPT ![r] =
            [j EXCEPT !.pc = "existing",
                      !.plan = {[key |-> best[w], members |-> Cluster(w), olds |-> {}] : w \in made}]]
    BY DEF Experience
  <1> DEFINE plan == {[key |-> best[w], members |-> Cluster(w), olds |-> {}] : w \in made}
             x == [j EXCEPT !.pc = "existing", !.plan = plan]
  <1>3. plan \in SUBSET ClusterType /\ \A c \in plan : c.olds = {}
    <2>1. ASSUME NEW w \in made
          PROVE  [key |-> best[w], members |-> Cluster(w), olds |-> {}]
                   \in ClusterType
      BY DEF ClusterType, Cluster, Closed
    <2> QED
      BY <2>1
  <1> HIDE DEF plan
  <1>4. x \in RunType
    BY <1>1, <1>3 DEF RunType
  <1>5. distilling'[r] = x
    BY <1>2 DEF plan, TypeOK
  <1>6. UNCHANGED <<tasks, skills, supersedes, follows, approvals, retirals, approving>>
    BY DEF Experience
  <1>7. RunOk(r)'
    <2>1. /\ x.pc = "existing" /\ x.plan = plan /\ x.olds = j.olds /\ x.left = j.left
          /\ x.read = j.read /\ x.won = j.won /\ x.wins = j.wins /\ x.uses = j.uses
      BY <1>1 DEF RunType
    <2> QED
      BY <1>1, <1>3, <1>5, <1>6, <2>1, TasksStay DEF RunOk
  <1> QED
    BY <1>2, <1>4, <1>6, <1>7, ReadType DEF plan

LEMMA ExistingType ==
  ASSUME TypeOK, NEW r \in Run, Existing(r) PROVE TypeOK'
PROOF
  <1> DEFINE j == distilling[r]
             plan == {[c EXCEPT !.olds = OldsOf(c)] :
                        c \in j.plan}
             keys == {c.key : c \in plan}
             x == [j EXCEPT !.pc = "skill", !.plan = plan, !.known = DOMAIN skills, !.keys = keys]
  <1>1. j \in RunType /\ RunOk(r)
    BY DEF TypeOK
  <1>2. plan \in SUBSET ClusterType /\ \A c \in plan : c.olds \subseteq DOMAIN skills
    <2>1. ASSUME NEW c \in j.plan
          PROVE  /\ [c EXCEPT !.olds = OldsOf(c)]
                      \in ClusterType
                 /\ [c EXCEPT !.olds = OldsOf(c)].olds
                      \subseteq DOMAIN skills
      <3>1. c \in ClusterType
        BY <1>1 DEF RunType
      <3>2. OldsOf(c) \subseteq DOMAIN skills /\ OldsOf(c) \in SUBSET Path
        BY DEF OldsOf, TypeOK, SkillsOk
      <3> QED
        BY <3>1, <3>2 DEF ClusterType
    <2> QED
      BY <2>1
  <1>3. distilling' = [distilling EXCEPT ![r] = x] /\ j.pc = "existing"
    BY DEF Existing
  <1> HIDE DEF plan
  <1>4. keys \in SUBSET Path
    BY <1>2 DEF ClusterType
  <1> HIDE DEF keys
  <1>5. x \in RunType
    BY <1>1, <1>2, <1>4 DEF RunType, TypeOK, SkillsOk
  <1>6. distilling'[r] = x
    BY <1>3 DEF TypeOK
  <1>7. UNCHANGED <<tasks, skills, supersedes, follows, approvals, retirals, approving>>
    BY DEF Existing
  <1>8. RunOk(r)'
    <2>1. /\ x.pc = "skill" /\ x.plan = plan /\ x.olds = j.olds /\ x.left = j.left
          /\ x.read = j.read /\ x.won = j.won /\ x.wins = j.wins /\ x.uses = j.uses
      BY <1>1 DEF RunType
    <2> QED
      BY <1>1, <1>2, <1>6, <1>7, <2>1, TasksStay DEF RunOk
  <1> QED
    BY <1>3, <1>5, <1>7, <1>8, ReadType

\* A step of a distillation that writes
LEMMA WriteType ==
  ASSUME TypeOK, NEW r \in Run, NEW j \in RunType,
         distilling' = [distilling EXCEPT ![r] = j], RunOk(r)',
         DOMAIN skills \subseteq DOMAIN skills', SkillsOk', FactsOk',
         UNCHANGED <<tasks, approving>>
  PROVE  TypeOK'
PROOF
  BY OneRun, TasksStay, ApprovalsStay DEF TypeOK

LEMMA ProposeType ==
  ASSUME TypeOK, NEW r \in Run, Propose(r) PROVE TypeOK'
PROOF
  <1> DEFINE j == distilling[r]
  <1>1. j \in RunType /\ RunOk(r) /\ j.pc = "skill"
    BY DEF TypeOK, Propose
  <1>2. UNCHANGED <<tasks, supersedes, follows, approvals, retirals, approving>>
    BY DEF Propose
  <1>3. PICK c \in j.plan :
          \/ /\ skills' = [k \in DOMAIN skills \cup {c.key} |->
                             IF k = c.key THEN Merged(c) ELSE skills[k]]
             /\ distilling' = [distilling EXCEPT ![r] = Proposed(j, c)]
          \/ /\ distilling' = [distilling EXCEPT ![r] = LetGo(j, c)]
             /\ UNCHANGED skills
    BY DEF Propose
  <1>4. c \in ClusterType /\ c.olds \subseteq DOMAIN skills
    BY <1>1 DEF RunType, RunOk
  <1>5. CASE /\ skills' = [k \in DOMAIN skills \cup {c.key} |->
                             IF k = c.key THEN Merged(c) ELSE skills[k]]
             /\ distilling' = [distilling EXCEPT ![r] = Proposed(j, c)]
    <2>1. Merged(c) \in SkillType
      BY <1>4 DEF Merged, New, SkillType, Status, ClusterType, TypeOK, SkillsOk
    <2>2. SkillsOk' /\ DOMAIN skills' = DOMAIN skills \cup {c.key}
      BY <1>4, <1>5, <2>1 DEF TypeOK, SkillsOk, ClusterType
    <2>3. FactsOk'
      BY <1>2, <2>2, FactsStay, TasksStay
    <2> DEFINE x == Proposed(j, c)
    <2>4. /\ x \in RunType /\ x.key = c.key /\ x.olds = c.olds /\ x.plan = j.plan \ {c}
          /\ x.left = j.left /\ x.read = j.read /\ x.won = j.won
          /\ x.wins = j.wins /\ x.uses = j.uses
      BY <1>1, <1>4 DEF Proposed, RunType, ClusterType
    <2>5. distilling'[r] = x
      BY <1>5 DEF TypeOK
    <2>6. RunOk(r)'
      BY <1>1, <1>2, <1>4, <2>2, <2>4, <2>5, TasksStay DEF RunOk
    <2> QED
      BY <1>2, <1>5, <2>2, <2>3, <2>4, <2>6, WriteType
  <1>6. CASE /\ distilling' = [distilling EXCEPT ![r] = LetGo(j, c)]
             /\ UNCHANGED skills
    <2> DEFINE x == LetGo(j, c)
    <2>1. /\ x \in RunType /\ x.pc = "skill" /\ x.olds = j.olds /\ x.plan = j.plan \ {c}
          /\ x.left = j.left /\ x.read = j.read /\ x.won = j.won
          /\ x.wins = j.wins /\ x.uses = j.uses
      BY <1>1 DEF LetGo, RunType
    <2>2. distilling'[r] = x
      BY <1>6 DEF TypeOK
    <2>3. RunOk(r)'
      BY <1>1, <1>2, <1>6, <2>1, <2>2, TasksStay DEF RunOk
    <2> QED
      BY <1>2, <1>6, <2>1, <2>3, ReadType
  <1> QED
    BY <1>3, <1>5, <1>6

LEMMA SupersedeType ==
  ASSUME TypeOK, NEW r \in Run, Supersede(r) PROVE TypeOK'
PROOF
  <1> DEFINE j == distilling[r]
  <1>1. j \in RunType /\ RunOk(r) /\ j.pc = "supersede"
    BY DEF TypeOK, Supersede
  <1>2. UNCHANGED <<tasks, follows, approvals, retirals, approving>>
    BY DEF Supersede
  <1>3. PICK k \in j.olds :
          /\ \/ UNCHANGED <<skills, supersedes>>
             \/ /\ skills' = [skills EXCEPT ![k].status = "retired"]
                /\ supersedes' = supersedes \cup {<<j.key, k>>}
          /\ distilling' = [distilling EXCEPT ![r] = Superseded(j, k)]
    BY DEF Supersede
  <1>4. k \in DOMAIN skills /\ j.key \in DOMAIN skills /\ skills[k] \in SkillType
    BY <1>1 DEF RunOk, TypeOK, SkillsOk
  <1>5. SkillsOk' /\ DOMAIN skills' = DOMAIN skills
    <2>1. skills' = skills \/ skills' = [skills EXCEPT ![k] =
                                           [skills[k] EXCEPT !.status = "retired"]]
      BY <1>3
    <2>2. [skills[k] EXCEPT !.status = "retired"] \in SkillType
      BY <1>4 DEF SkillType, Status
    <2> QED
      BY <2>1, <2>2 DEF TypeOK, SkillsOk
  <1>6. FactsOk'
    BY <1>2, <1>3, <1>4, <1>5, TasksStay DEF TypeOK, FactsOk
  <1> DEFINE x == Superseded(j, k)
  <1>7. /\ x \in RunType /\ x.key = j.key /\ x.olds = j.olds \ {k} /\ x.plan = j.plan
        /\ x.left = j.left /\ x.read = j.read /\ x.won = j.won
        /\ x.wins = j.wins /\ x.uses = j.uses
    BY <1>1 DEF Superseded, RunType
  <1>8. distilling'[r] = x
    BY <1>3 DEF TypeOK
  <1>9. RunOk(r)'
    BY <1>1, <1>2, <1>4, <1>5, <1>7, <1>8, TasksStay DEF RunOk
  <1> QED
    BY <1>2, <1>3, <1>5, <1>6, <1>7, <1>9, WriteType

LEMMA MeasureType ==
  ASSUME TypeOK, NEW r \in Run, MeasureSkills(r) \/ MeasureTasks(r) PROVE TypeOK'
PROOF
  <1> DEFINE j == distilling[r]
  <1>1. j \in RunType /\ RunOk(r)
    BY DEF TypeOK
  <1>2. UNCHANGED <<tasks, skills, supersedes, follows, approvals, retirals, approving>>
    BY DEF MeasureSkills, MeasureTasks
  <1>3. CASE MeasureSkills(r)
    <2> DEFINE x == [j EXCEPT !.pc = "tasks", !.known = {}, !.left = DOMAIN skills,
                              !.key = None]
    <2>1. distilling' = [distilling EXCEPT ![r] = x]
      BY <1>3 DEF MeasureSkills
    <2>2. /\ x \in RunType /\ x.pc = "tasks" /\ x.olds = j.olds /\ x.plan = j.plan
          /\ x.left = DOMAIN skills /\ x.read = j.read /\ x.won = j.won
          /\ x.wins = j.wins /\ x.uses = j.uses
      BY <1>1 DEF RunType, TypeOK, SkillsOk
    <2>3. distilling'[r] = x
      BY <2>1 DEF TypeOK
    <2>4. RunOk(r)'
      BY <1>1, <1>2, <2>2, <2>3, TasksStay DEF RunOk
    <2> QED
      BY <1>2, <2>1, <2>2, <2>4, ReadType
  <1>4. CASE MeasureTasks(r)
    <2> DEFINE won == {t \in Closed : Success(t)}
               x == [j EXCEPT !.pc = "count", !.read = Closed, !.won = won]
    <2>1. distilling' = [distilling EXCEPT ![r] = x]
      BY <1>4 DEF MeasureTasks
    <2>2. won \subseteq Closed /\ Closed \subseteq Task
      BY DEF Closed
    <2> HIDE DEF won
    <2>3. /\ x \in RunType /\ x.pc = "count" /\ x.olds = j.olds /\ x.plan = j.plan
          /\ x.left = j.left /\ x.read = Closed /\ x.won = won
          /\ x.wins = j.wins /\ x.uses = j.uses
      BY <1>1, <2>2 DEF RunType
    <2>4. distilling'[r] = x
      BY <2>1 DEF TypeOK
    <2>5. RunOk(r)'
      BY <1>1, <1>2, <2>2, <2>3, <2>4, TasksStay DEF RunOk
    <2> QED
      BY <1>2, <2>1, <2>3, <2>5, ReadType
  <1> QED
    BY <1>3, <1>4

LEMMA CountedFields ==
  ASSUME NEW j \in RunType, NEW k \in Path,
         Cardinality(Followers(k, j.read)) \in Nat, Wins(Followers(k, j.read), j.won) \in Nat
  PROVE  /\ Counted(j, k) \in RunType /\ Counted(j, k).pc = "stats"
         /\ Counted(j, k).key = k /\ Counted(j, k).olds = j.olds
         /\ Counted(j, k).plan = j.plan /\ Counted(j, k).left = j.left \ {k}
         /\ Counted(j, k).read = j.read /\ Counted(j, k).won = j.won
         /\ Counted(j, k).uses = Cardinality(Followers(k, j.read))
         /\ Counted(j, k).wins = Wins(Followers(k, j.read), j.won)
PROOF
  BY DEF Counted, RunType

\* The count of a skill's followers, and of those that succeeded
LEMMA CountedType ==
  ASSUME TypeOK, NEW r \in Run, NEW k \in distilling[r].left
  PROVE  LET j == distilling[r]
             x == Counted(j, k) IN
         /\ x \in RunType /\ x.pc = "stats" /\ x.key = k /\ x.olds = j.olds
         /\ x.plan = j.plan /\ x.left = j.left \ {k} /\ x.read = j.read /\ x.won = j.won
         /\ x.wins =< x.uses
PROOF
  <1> DEFINE j == distilling[r]
             used == Followers(k, j.read)
  <1>1. j \in RunType /\ k \in Path
    BY DEF TypeOK, RunType
  <1>2. used \subseteq Task /\ IsFiniteSet(used)
    BY <1>1, TaskSets DEF Followers, RunType
  <1>3. /\ Cardinality(used) \in Nat /\ Wins(used, j.won) \in Nat
        /\ Wins(used, j.won) =< Cardinality(used)
    BY <1>2, FS_CardinalityType, FS_Subset DEF Wins
  <1> QED
    BY <1>1, <1>3, CountedFields

LEMMA CountType ==
  ASSUME TypeOK, NEW r \in Run, Count(r) PROVE TypeOK'
PROOF
  <1> DEFINE j == distilling[r]
  <1>1. j \in RunType /\ RunOk(r)
    BY DEF TypeOK
  <1>2. UNCHANGED <<tasks, skills, supersedes, follows, approvals, retirals, approving>>
    BY DEF Count
  <1>3. ASSUME NEW k \in j.left, distilling' = [distilling EXCEPT ![r] = Counted(j, k)]
        PROVE  TypeOK'
    <2> DEFINE x == Counted(j, k)
    <2>1. /\ x \in RunType /\ x.pc = "stats" /\ x.key = k /\ x.olds = j.olds
          /\ x.plan = j.plan /\ x.left = j.left \ {k} /\ x.read = j.read /\ x.won = j.won
          /\ x.wins =< x.uses
      BY CountedType
    <2>2. distilling'[r] = x
      BY <1>3 DEF TypeOK
    <2>3. RunOk(r)'
      BY <1>1, <1>2, <2>1, <2>2, TasksStay DEF RunOk
    <2> QED
      BY <1>2, <1>3, <2>1, <2>3, ReadType
  <1>4. CASE distilling' = [distilling EXCEPT ![r] = [NoRun EXCEPT !.pc = "done",
                                                        !.keys = j.keys]]
    <2> DEFINE x == [NoRun EXCEPT !.pc = "done", !.keys = j.keys]
    <2>1. /\ x \in RunType /\ x.pc = "done" /\ x.olds = {} /\ x.plan = {} /\ x.left = {}
          /\ x.read = {} /\ x.won = {} /\ x.wins = 0 /\ x.uses = 0
      BY <1>1 DEF RunType, NoRun
    <2>2. distilling'[r] = x
      BY <1>4 DEF TypeOK
    <2>3. RunOk(r)'
      BY <2>1, <2>2 DEF RunOk
    <2> QED
      BY <1>2, <1>4, <2>1, <2>3, ReadType
  <1> QED
    BY <1>3, <1>4 DEF Count

\* A skill whose status or counts are set is a skill
LEMMA SetType ==
  ASSUME TypeOK, NEW k \in DOMAIN skills, NEW x \in SkillType,
         skills' = [skills EXCEPT ![k] = x]
  PROVE  SkillsOk' /\ DOMAIN skills' = DOMAIN skills
PROOF
  BY DEF TypeOK, SkillsOk

LEMMA StatsType ==
  ASSUME TypeOK, NEW r \in Run, Stats(r) PROVE TypeOK'
PROOF
  <1> DEFINE j == distilling[r]
  <1>1. j \in RunType /\ RunOk(r) /\ j.pc = "stats" /\ j.key \in DOMAIN skills
    BY DEF TypeOK, Stats, RunOk
  <1>2. UNCHANGED <<tasks, supersedes, follows, approvals, retirals, approving>>
    BY DEF Stats
  <1> DEFINE s == [skills[j.key] EXCEPT !.uses = j.uses, !.successes = j.wins]
  <1>3. s \in SkillType /\ skills' = [skills EXCEPT ![j.key] = s]
    BY <1>1 DEF Stats, SkillType, RunType, TypeOK, SkillsOk
  <1>4. SkillsOk' /\ DOMAIN skills' = DOMAIN skills
    BY <1>1, <1>3, SetType
  <1>5. FactsOk'
    BY <1>2, <1>4, FactsStay, TasksStay
  <1>6. PICK x \in RunType :
          /\ distilling' = [distilling EXCEPT ![r] = x]
          /\ x.pc = "retire" => x.key = j.key
          /\ x.pc \in {"retire", "count"} /\ x.olds = j.olds /\ x.plan = j.plan
          /\ x.left = j.left /\ x.read = j.read /\ x.won = j.won /\ x.wins =< x.uses
    <2>1. CASE Failing(j.uses, j.wins)
      <3> DEFINE x == [j EXCEPT !.pc = "retire"]
      <3>1. distilling' = [distilling EXCEPT ![r] = x]
        BY <2>1 DEF Stats
      <3>2. /\ x \in RunType /\ x.pc = "retire" /\ x.key = j.key /\ x.olds = j.olds
            /\ x.plan = j.plan /\ x.left = j.left /\ x.read = j.read /\ x.won = j.won
            /\ x.wins = j.wins /\ x.uses = j.uses
        BY <1>1 DEF RunType
      <3> QED
        BY <1>1, <3>1, <3>2 DEF RunOk
    <2>2. CASE ~Failing(j.uses, j.wins)
      <3> DEFINE x == Measured(j)
      <3>1. distilling' = [distilling EXCEPT ![r] = x]
        BY <2>2 DEF Stats
      <3>2. /\ x \in RunType /\ x.pc = "count" /\ x.olds = j.olds
            /\ x.plan = j.plan /\ x.left = j.left /\ x.read = j.read /\ x.won = j.won
            /\ x.wins = 0 /\ x.uses = 0
        BY <1>1 DEF RunType, Measured
      <3>3. x.wins =< x.uses
        BY <3>2
      <3> HIDE DEF x
      <3> QED
        BY <3>1, <3>2, <3>3
    <2> QED
      BY <2>1, <2>2
  <1>7. distilling'[r] = x
    BY <1>6 DEF TypeOK
  <1>8. RunOk(r)'
    BY <1>1, <1>2, <1>4, <1>6, <1>7, TasksStay DEF RunOk
  <1> QED
    BY <1>2, <1>4, <1>5, <1>6, <1>8, WriteType

LEMMA RetireType ==
  ASSUME TypeOK, NEW r \in Run, Retire(r) PROVE TypeOK'
PROOF
  <1> DEFINE j == distilling[r]
  <1>1. j \in RunType /\ RunOk(r) /\ j.pc = "retire" /\ j.key \in DOMAIN skills
    BY DEF TypeOK, Retire, RunOk
  <1>2. UNCHANGED <<tasks, supersedes, follows, approvals, approving>>
    BY DEF Retire
  <1> DEFINE s == [skills[j.key] EXCEPT !.status = "retired"]
             f == [run |-> r, key |-> j.key, uses |-> j.uses, wins |-> j.wins]
  <1>3. s \in SkillType
    BY <1>1 DEF SkillType, Status, TypeOK, SkillsOk
  <1>4. \/ UNCHANGED <<skills, retirals>>
        \/ skills' = [skills EXCEPT ![j.key] = s] /\ retirals' = retirals \cup {f}
    BY DEF Retire
  <1>5. SkillsOk' /\ DOMAIN skills' = DOMAIN skills
    BY <1>1, <1>3, <1>4, SetType DEF TypeOK, SkillsOk
  <1>6. FactsOk'
    <2>1. f \in [run : Run, key : DOMAIN skills, uses : Nat, wins : Nat]
      BY <1>1 DEF RunType
    <2> HIDE DEF f
    <2>2. retirals' \subseteq [run : Run, key : DOMAIN skills, uses : Nat, wins : Nat]
      BY <1>4, <2>1 DEF TypeOK, FactsOk
    <2> QED
      BY <1>2, <1>5, <2>2, TasksStay DEF TypeOK, FactsOk
  <1> DEFINE x == Measured(j)
  <1>7. distilling' = [distilling EXCEPT ![r] = x]
    BY DEF Retire
  <1>8. /\ x \in RunType /\ x.pc = "count" /\ x.olds = j.olds
        /\ x.plan = j.plan /\ x.left = j.left /\ x.read = j.read /\ x.won = j.won
        /\ x.wins = 0 /\ x.uses = 0
    BY <1>1 DEF RunType, Measured
  <1>9. distilling'[r] = x
    BY <1>7 DEF TypeOK
  <1>10. RunOk(r)'
    BY <1>1, <1>2, <1>5, <1>8, <1>9, TasksStay DEF RunOk
  <1> QED
    BY <1>2, <1>5, <1>6, <1>7, <1>8, <1>10, WriteType

LEMMA DecideType ==
  ASSUME TypeOK, NEW a \in Approver, Decide(a) PROVE TypeOK'
PROOF
  <1>1. /\ approving \in [Approver -> ApproveType] /\ ApproveOk(a)
        /\ UNCHANGED <<tasks, supersedes, follows, retirals, distilling>>
    BY DEF TypeOK, Decide, ApproveFind, Approve
  <1>2. PICK x \in ApproveType :
          /\ approving' = [approving EXCEPT ![a] = x]
          /\ x.pc = "approve" => x.key \in DOMAIN skills
    <2>1. CASE ApproveFind(a)
      <3>1. PICK k \in DOMAIN skills : approving' = [approving EXCEPT ![a] =
                                                       [pc |-> "approve", key |-> k]]
        BY <2>1 DEF ApproveFind
      <3> DEFINE x == [pc |-> "approve", key |-> k]
      <3>2. x \in ApproveType /\ x.key = k
        BY DEF ApproveType, TypeOK, SkillsOk
      <3> HIDE DEF x
      <3> QED
        BY <3>1, <3>2 DEF x
    <2>2. CASE Approve(a)
      <3> DEFINE x == [approving[a] EXCEPT !.pc = "done"]
      <3>1. approving' = [approving EXCEPT ![a] = x]
        BY <1>1, <2>2 DEF Approve
      <3>2. x \in ApproveType /\ x.pc = "done"
        BY <1>1 DEF ApproveType
      <3> QED
        BY <3>1, <3>2
    <2> QED
      BY <2>1, <2>2 DEF Decide
  <1>3. /\ SkillsOk' /\ DOMAIN skills' = DOMAIN skills
        /\ approvals' \subseteq Approver \X (DOMAIN skills)
    <2>1. CASE UNCHANGED <<skills, approvals>>
      BY <2>1 DEF TypeOK, SkillsOk, FactsOk
    <2>2. CASE /\ Approve(a)
               /\ skills' = [skills EXCEPT ![approving[a].key].status = "approved"]
               /\ approvals' = approvals \cup {<<a, approving[a].key>>}
      <3> DEFINE k == approving[a].key
                 s == [skills[k] EXCEPT !.status = "approved"]
      <3>1. k \in DOMAIN skills
        BY <1>1, <2>2 DEF Approve, ApproveOk
      <3>2. s \in SkillType
        BY <3>1 DEF TypeOK, SkillsOk, SkillType, Status
      <3>3. skills' = [skills EXCEPT ![k] = s]
        BY <2>2
      <3> HIDE DEF s
      <3>4. SkillsOk' /\ DOMAIN skills' = DOMAIN skills
        BY <3>1, <3>2, <3>3, SetType
      <3> QED
        BY <2>2, <3>1, <3>4 DEF TypeOK, FactsOk
    <2> QED
      BY <2>1, <2>2 DEF Decide, ApproveFind, Approve
  <1>4. TasksOk' /\ Closed' = Closed
    BY <1>1, <1>3, TasksStay
  <1>5. FactsOk'
    BY <1>1, <1>3, <1>4 DEF TypeOK, FactsOk
  <1>6. \A r \in Run : RunOk(r)'
    BY <1>1, <1>3, <1>4, RunsStay
  <1>7. approving' \in [Approver -> ApproveType] /\ \A b \in Approver : ApproveOk(b)'
    BY <1>1, <1>2, <1>3 DEF TypeOK, ApproveOk
  <1> QED
    BY <1>1, <1>3, <1>4, <1>5, <1>6, <1>7 DEF TypeOK

LEMMA TypeStep == TypeOK /\ [Next]_vars => TypeOK'
PROOF
  <1> SUFFICES ASSUME TypeOK, [Next]_vars PROVE TypeOK'
    OBVIOUS
  <1>1. ASSUME NEW r \in Run, Distill(r) PROVE TypeOK'
    BY <1>1, ExperienceType, ExistingType, ProposeType, SupersedeType, MeasureType,
       CountType, StatsType, RetireType DEF Distill
  <1>2. CASE UNCHANGED vars
    <2>1. TasksOk' /\ SkillsOk' /\ FactsOk' /\ (\A r \in Run : RunOk(r)')
      BY <1>2, TasksStay, FactsStay, RunsStay DEF vars, TypeOK, SkillsOk
    <2> QED
      BY <1>2, <2>1, ApprovalsStay DEF vars, TypeOK
  <1> QED
    BY <1>1, <1>2, ConverseType, DecideType DEF Next

\* Every variable keeps its type, and no command goes on with a skill that is not in
\* memory, whatever distillations, approvals and conversations run beside each other
THEOREM TypeCorrect == Spec => []TypeOK
PROOF
  BY TypeInit, TypeStep, PTL DEF Spec

-----------------------------------------------------------------------------
(* A skill's life *)

\* No status changes, and no Fact says so
Quiet ==
  /\ \A k \in Path : StatusOf(k)' = StatusOf(k)
  /\ approvals' = approvals /\ retirals' = retirals

\* One skill's status changes, by the rules of its life, and with the Fact of it
Moves(k) ==
  /\ \A x \in Path \ {k} : StatusOf(x)' = StatusOf(x)
  /\ \/ /\ StatusOf(k) = "absent" /\ StatusOf(k)' = "proposed"
        /\ approvals' = approvals /\ retirals' = retirals
     \/ /\ StatusOf(k) \in {"proposed", "approved"} /\ StatusOf(k)' = "retired"
        /\ approvals' = approvals /\ retirals' = retirals
     \/ /\ StatusOf(k) = "approved" /\ StatusOf(k)' = "retired"
        /\ approvals' = approvals
        /\ \E f : f.key = k /\ retirals' = retirals \cup {f}
     \/ /\ StatusOf(k) = "proposed" /\ StatusOf(k)' = "approved"
        /\ \E a \in Approver : approvals' = approvals \cup {<<a, k>>}
        /\ retirals' = retirals

LEMMA ProposeMoves ==
  ASSUME TypeOK, NEW r \in Run, Propose(r) PROVE Quiet \/ \E k \in Path : Moves(k)
PROOF
  <1> DEFINE j == distilling[r]
  <1>1. PICK c \in j.plan :
          \/ skills' = [k \in DOMAIN skills \cup {c.key} |->
                          IF k = c.key THEN Merged(c) ELSE skills[k]]
          \/ UNCHANGED skills
    BY DEF Propose
  <1>2. approvals' = approvals /\ retirals' = retirals
    BY DEF Propose
  <1>3. c \in ClusterType
    BY DEF TypeOK, RunType
  <1>4. CASE UNCHANGED skills
    BY <1>2, <1>4 DEF Quiet, StatusOf
  <1>5. CASE skills' = [k \in DOMAIN skills \cup {c.key} |->
                          IF k = c.key THEN Merged(c) ELSE skills[k]]
    <2>1. \A x \in Path \ {c.key} : StatusOf(x)' = StatusOf(x)
      BY <1>5 DEF StatusOf
    <2>2. CASE c.key \in DOMAIN skills
      <3>1. skills[c.key] \in SkillType
        BY <2>2 DEF TypeOK, SkillsOk
      <3>2. Merged(c).status = skills[c.key].status
        BY <2>2, <3>1 DEF Merged, SkillType
      <3> QED
        BY <1>2, <1>5, <2>1, <2>2, <3>2 DEF Quiet, StatusOf
    <2>3. CASE c.key \notin DOMAIN skills
      <3>1. Merged(c).status = "proposed"
        BY <2>3 DEF Merged, New
      <3>2. StatusOf(c.key) = "absent" /\ StatusOf(c.key)' = "proposed"
        BY <1>5, <2>3, <3>1 DEF StatusOf
      <3>3. c.key \in Path
        BY <1>3 DEF ClusterType
      <3> QED
        BY <1>2, <2>1, <3>2, <3>3 DEF Moves
    <2> QED
      BY <2>2, <2>3
  <1> QED
    BY <1>1, <1>4, <1>5

\* Setting a skill's status leaves the others'
LEMMA StatusSet ==
  ASSUME TypeOK, NEW k \in DOMAIN skills, NEW v \in Status,
         skills' = [skills EXCEPT ![k].status = v]
  PROVE  /\ k \in Path /\ StatusOf(k) \in Status /\ StatusOf(k)' = v
         /\ StatusOf(k) = skills[k].status
         /\ \A x \in Path \ {k} : StatusOf(x)' = StatusOf(x)
PROOF
  <1>1. k \in Path /\ skills[k] \in SkillType
    BY DEF TypeOK, SkillsOk
  <1>2. skills'[k] = [skills[k] EXCEPT !.status = v] /\ DOMAIN skills' = DOMAIN skills
    OBVIOUS
  <1>3. skills'[k].status = v /\ skills[k].status \in Status
    BY <1>1, <1>2 DEF SkillType
  <1>4. \A x \in DOMAIN skills \ {k} : skills'[x] = skills[x]
    OBVIOUS
  <1> QED
    BY <1>1, <1>2, <1>3, <1>4 DEF StatusOf

LEMMA WriteMoves ==
  ASSUME TypeOK, NEW r \in Run, Supersede(r) \/ Stats(r) \/ Retire(r)
  PROVE  Quiet \/ \E k \in Path : Moves(k)
PROOF
  <1> DEFINE j == distilling[r]
  <1>1. j \in RunType /\ RunOk(r)
    BY DEF TypeOK
  <1>2. CASE Supersede(r)
    <2>1. approvals' = approvals /\ retirals' = retirals
      BY <1>2 DEF Supersede
    <2>2. PICK k \in j.olds : skills' = skills
                              \/ skills' = [skills EXCEPT ![k].status = "retired"]
      BY <1>2 DEF Supersede
    <2>3. k \in DOMAIN skills
      BY <1>1 DEF RunOk
    <2>4. CASE skills' = skills
      BY <2>1, <2>4 DEF Quiet, StatusOf
    <2>5. CASE skills' = [skills EXCEPT ![k].status = "retired"]
      <3>1. /\ k \in Path /\ StatusOf(k) \in Status /\ StatusOf(k)' = "retired"
            /\ \A x \in Path \ {k} : StatusOf(x)' = StatusOf(x)
        BY <2>3, <2>5, StatusSet DEF Status
      <3> QED
        BY <2>1, <3>1 DEF Moves, Quiet, Status
    <2> QED
      BY <2>2, <2>4, <2>5
  <1>3. CASE Stats(r)
    <2>1. /\ approvals' = approvals /\ retirals' = retirals /\ j.key \in DOMAIN skills
          /\ skills' = [skills EXCEPT ![j.key] =
                          [skills[j.key] EXCEPT !.uses = j.uses, !.successes = j.wins]]
      BY <1>1, <1>3 DEF Stats, RunOk
    <2>2. skills[j.key] \in SkillType
      BY <2>1 DEF TypeOK, SkillsOk
    <2>3. skills'[j.key].status = skills[j.key].status
      BY <2>1, <2>2 DEF SkillType
    <2> QED
      BY <2>1, <2>3 DEF Quiet, StatusOf
  <1>4. CASE Retire(r)
    <2>1. approvals' = approvals /\ j.key \in DOMAIN skills
      BY <1>1, <1>4 DEF Retire, RunOk
    <2>2. CASE MayRetire(j.key)
      <3> PICK k : k = j.key
        OBVIOUS
      <3>1. PICK f : f.key = k /\ retirals' = retirals \cup {f}
        <4> DEFINE g == [run |-> r, key |-> j.key, uses |-> j.uses, wins |-> j.wins]
        <4>1. g.key = k /\ retirals' = retirals \cup {g}
          BY <1>4, <2>2 DEF Retire
        <4> HIDE DEF g
        <4> QED
          BY <4>1
      <3>2. /\ k \in DOMAIN skills /\ "retired" \in Status /\ skills[k].status = "approved"
            /\ skills' = [skills EXCEPT ![k].status = "retired"]
        BY <1>4, <2>1, <2>2 DEF Retire, MayRetire, Status
      <3>3. StatusOf(k) = "approved" /\ StatusOf(k)' = "retired" /\ k \in Path
            /\ \A x \in Path \ {k} : StatusOf(x)' = StatusOf(x)
        BY <3>2, StatusSet
      <3> QED
        BY <2>1, <3>1, <3>3 DEF Moves
    <2>3. CASE ~MayRetire(j.key)
      BY <1>4, <2>1, <2>3 DEF Retire, Quiet, StatusOf
    <2> QED
      BY <2>2, <2>3
  <1> QED
    BY <1>2, <1>3, <1>4

LEMMA ApproveMoves ==
  ASSUME TypeOK, NEW a \in Approver, Approve(a) PROVE Quiet \/ \E k \in Path : Moves(k)
PROOF
  <1> PICK k : k = approving[a].key
    OBVIOUS
  <1>1. k \in DOMAIN skills /\ retirals' = retirals
    BY DEF TypeOK, ApproveOk, Approve
  <1>2. CASE MayApprove(k)
    <2>1. /\ skills' = [skills EXCEPT ![k].status = "approved"]
          /\ approvals' = approvals \cup {<<a, k>>}
          /\ "approved" \in Status /\ skills[k].status = "proposed"
      BY <1>2 DEF Approve, MayApprove, Status
    <2>2. StatusOf(k) = "proposed" /\ StatusOf(k)' = "approved" /\ k \in Path
          /\ \A x \in Path \ {k} : StatusOf(x)' = StatusOf(x)
      BY <1>1, <2>1, StatusSet
    <2> QED
      BY <1>1, <2>1, <2>2 DEF Moves
  <1>3. CASE ~MayApprove(k)
    BY <1>1, <1>3 DEF Approve, Quiet, StatusOf
  <1> QED
    BY <1>2, <1>3

LEMMA StepMoves == TypeOK /\ [Next]_vars => Quiet \/ \E k \in Path : Moves(k)
PROOF
  <1> SUFFICES ASSUME TypeOK, [Next]_vars PROVE Quiet \/ \E k \in Path : Moves(k)
    OBVIOUS
  <1>1. ASSUME UNCHANGED <<skills, approvals, retirals>> PROVE Quiet
    BY <1>1 DEF Quiet, StatusOf
  <1>2. ASSUME NEW t \in Task, Converse(t) PROVE Quiet
    BY <1>1, <1>2 DEF Converse, Close, Follow, FollowWrite, Rate, UNCHANGED_SKILLS
  <1>3. ASSUME NEW r \in Run, Distill(r) PROVE Quiet \/ \E k \in Path : Moves(k)
    <2>1. CASE Experience(r) \/ Existing(r) \/ MeasureSkills(r) \/ MeasureTasks(r) \/ Count(r)
      BY <1>1, <2>1 DEF Experience, Existing, MeasureSkills, MeasureTasks, Count
    <2> QED
      BY <1>3, <2>1, ProposeMoves, WriteMoves DEF Distill
  <1>4. ASSUME NEW a \in Approver, Decide(a) PROVE Quiet \/ \E k \in Path : Moves(k)
    BY <1>1, <1>4, ApproveMoves DEF Decide, ApproveFind
  <1>5. CASE UNCHANGED vars
    BY <1>1, <1>5 DEF vars
  <1> QED
    BY <1>2, <1>3, <1>4, <1>5 DEF Next

\* A skill is proposed, approved by a person if at all, and retired for good, by a
\* better path or by how its followers went: distillations beside each other and
\* beside approvals never bring one back
THEOREM SkillsImplementLife == Spec => ImplementsLife
PROOF
  <1>1. Init => Life!Init
    BY DEF Init, Life!Init, StatusOf
  <1>2. TypeOK /\ [Next]_vars => [Life!Next]_([k \in Path |-> StatusOf(k)])
    <2> SUFFICES ASSUME TypeOK, [Next]_vars
                 PROVE  [Life!Next]_([k \in Path |-> StatusOf(k)])
      OBVIOUS
    <2> DEFINE st == [k \in Path |-> StatusOf(k)]
    <2>1. CASE Quiet
      BY <2>1 DEF Quiet
    <2>2. ASSUME NEW k \in Path, Moves(k) PROVE Life!Next
      <3>1. st' = [st EXCEPT ![k] = StatusOf(k)']
        BY <2>2 DEF Moves
      <3> QED
        BY <2>2, <3>1 DEF Moves, Life!Next, Life!Propose, Life!Approve, Life!Retire
    <2> QED
      BY <2>1, <2>2, StepMoves
  <1> QED
    BY <1>1, <1>2, TypeInit, TypeStep, PTL DEF Spec, ImplementsLife, Life!Spec

-----------------------------------------------------------------------------
(* The Facts about a skill *)

\* What OneOfEach says, of every path: with nothing said of one that has no skill
Once(k) ==
  /\ \A f, g \in approvals : f[2] = k /\ g[2] = k => f = g
  /\ \A f, g \in retirals : f.key = k /\ g.key = k => f = g
  /\ StatusOf(k) = "approved" => \E f \in approvals : f[2] = k
  /\ (\E f \in retirals : f.key = k) => \E f \in approvals : f[2] = k
  /\ StatusOf(k) # "retired" => \A f \in retirals : f.key # k
  /\ StatusOf(k) \in {"absent", "proposed"} => \A f \in approvals : f[2] # k
OnceInv == \A k \in Path : Once(k)

LEMMA OnceIsOneOfEach == TypeOK /\ OnceInv => OneOfEach
PROOF
  <1> SUFFICES ASSUME TypeOK, OnceInv, NEW k \in DOMAIN skills
               PROVE  LET yes == {f \in approvals : f[2] = k}
                          no  == {f \in retirals : f.key = k} IN
                      /\ \A f, g \in yes : f = g
                      /\ \A f, g \in no : f = g
                      /\ skills[k].status = "approved" \/ no # {} => yes # {}
                      /\ skills[k].status # "retired" => no = {}
                      /\ skills[k].status = "proposed" => yes = {}
    BY DEF OneOfEach
  <1>1. k \in Path /\ StatusOf(k) = skills[k].status
    BY DEF TypeOK, SkillsOk, StatusOf
  <1>2. Once(k)
    BY <1>1 DEF OnceInv
  <1> QED
    BY <1>1, <1>2 DEF Once

LEMMA OnceStep ==
  ASSUME OnceInv, Quiet \/ \E k \in Path : Moves(k) PROVE OnceInv'
PROOF
  <1> SUFFICES ASSUME NEW x \in Path PROVE Once(x)'
    BY DEF OnceInv
  <1>1. Once(x)
    BY DEF OnceInv
  <1>2. CASE Quiet
    BY <1>1, <1>2 DEF Quiet, Once
  <1>3. ASSUME NEW k \in Path, Moves(k) PROVE Once(x)'
    <2>1. CASE x = k
      <3>1. CASE /\ StatusOf(k) = "absent" /\ StatusOf(k)' = "proposed"
                 /\ approvals' = approvals /\ retirals' = retirals
        BY <1>1, <2>1, <3>1 DEF Once
      <3>2. CASE /\ StatusOf(k) \in {"proposed", "approved"} /\ StatusOf(k)' = "retired"
                 /\ approvals' = approvals /\ retirals' = retirals
        BY <1>1, <2>1, <3>2 DEF Once
      <3>3. CASE /\ StatusOf(k) = "approved" /\ StatusOf(k)' = "retired"
                 /\ approvals' = approvals
                 /\ \E f : f.key = k /\ retirals' = retirals \cup {f}
        <4>1. PICK f : f.key = k /\ retirals' = retirals \cup {f}
          BY <3>3
        <4>2. \A g \in retirals : g.key # k
          BY <1>1, <2>1, <3>3 DEF Once
        <4> QED
          BY <1>1, <2>1, <3>3, <4>1, <4>2 DEF Once
      <3>4. CASE /\ StatusOf(k) = "proposed" /\ StatusOf(k)' = "approved"
                 /\ \E a \in Approver : approvals' = approvals \cup {<<a, k>>}
                 /\ retirals' = retirals
        <4>1. PICK a \in Approver : approvals' = approvals \cup {<<a, k>>}
          BY <3>4
        <4>2. \A g \in approvals : g[2] # k
          BY <1>1, <2>1, <3>4 DEF Once
        <4>3. <<a, k>> \in approvals' /\ <<a, k>>[2] = k
          BY <4>1
        <4> QED
          BY <1>1, <2>1, <3>4, <4>1, <4>2, <4>3 DEF Once
      <3> QED
        BY <1>3, <3>1, <3>2, <3>3, <3>4 DEF Moves
    <2>2. CASE x # k
      <3>1. StatusOf(x)' = StatusOf(x)
        BY <1>3, <2>2 DEF Moves
      <3>2. /\ approvals \subseteq approvals'
            /\ \A f \in approvals' : f[2] = x => f \in approvals
        BY <1>3, <2>2 DEF Moves
      <3>3. /\ retirals \subseteq retirals'
            /\ \A f \in retirals' : f.key = x => f \in retirals
        BY <1>3, <2>2 DEF Moves
      <3> QED
        BY <1>1, <3>1, <3>2, <3>3 DEF Once
    <2> QED
      BY <2>1, <2>2
  <1> QED
    BY <1>2, <1>3

\* A skill in use was approved by one person, once; one retired by its followers was
\* approved before and retired once; nothing in use has a Fact of its retirement:
\* whoever distils, approves and converses beside whom
THEOREM SkillsDecidedOnce == Spec => []OneOfEach
PROOF
  <1>1. Init => OnceInv
    BY DEF Init, OnceInv, Once, StatusOf
  <1>2. TypeOK /\ OnceInv /\ [Next]_vars => OnceInv'
    BY StepMoves, OnceStep
  <1> QED
    BY <1>1, <1>2, TypeInit, TypeStep, OnceIsOneOfEach, PTL DEF Spec

-----------------------------------------------------------------------------
(* What a retirement by measurement rests on *)

UsedOf(k) == {t \in Task : <<t, k>> \in follows}
FailedOf(k) == {t \in UsedOf(k) : ~Success(t)}
Grounds(k, uses, wins) ==
  Cardinality(FailedOf(k)) >= uses - wins /\ Cardinality(UsedOf(k)) >= uses

\* What a measurement holds is true of the record, and stays so: what succeeded of
\* the tasks it read is among those it read as won
Measuring(r) ==
  LET j == distilling[r] IN
  /\ j.pc \in {"count", "stats", "retire"} => \A t \in j.read : Success(t) => t \in j.won
  /\ j.pc \in {"stats", "retire"} => Grounds(j.key, j.uses, j.wins)
  /\ j.pc = "retire" => Failing(j.uses, j.wins)
JustInv == TypeOK /\ (\A r \in Run : Measuring(r)) /\ Justified

LEMMA JustifiedIs ==
  Justified <=> \A f \in retirals : Failing(f.uses, f.wins) /\ Grounds(f.key, f.uses, f.wins)
PROOF
  BY DEF Justified, Grounds, UsedOf, FailedOf

\* A task that closed and failed has failed for good
LEMMA FailureStays ==
  ASSUME TypeOK, NEW x \in Task, Converse(x), NEW t \in Closed, ~Success(t)
  PROVE  ~Success(t)' /\ follows \subseteq follows'
PROOF
  <1>1. tasks \in [Task -> TaskType] /\ t \in Task /\ tasks[t].pc # "open"
    BY DEF TypeOK, TasksOk, Closed
  <1>2. ~tasks[t].ok \/ tasks[t].bad
    BY DEF Success
  <1>3. CASE Close(x)
    <2>1. x # t
      BY <1>1, <1>3 DEF Close
    <2>2. tasks'[t] = tasks[t] /\ follows' = follows
      BY <1>1, <1>3, <2>1 DEF Close
    <2> QED
      BY <1>2, <2>2 DEF Success
  <1>4. CASE Follow(x)
    <2>1. PICK hits, pc :
            tasks' = [tasks EXCEPT ![x] = [tasks[x] EXCEPT !.hits = hits, !.pc = pc]]
      BY <1>1, <1>4 DEF Follow
    <2>2. tasks'[t].ok = tasks[t].ok /\ tasks'[t].bad = tasks[t].bad
      BY <1>1, <2>1 DEF TaskType
    <2> QED
      BY <1>2, <1>4, <2>2 DEF Success, Follow
  <1>5. CASE FollowWrite(x)
    <2>1. PICK k : /\ tasks' = [tasks EXCEPT ![x] = Followed(tasks[x], k)]
                   /\ follows' = follows \cup {<<x, k>>}
      BY <1>5 DEF FollowWrite
    <2>2. tasks'[t].ok = tasks[t].ok /\ tasks'[t].bad = tasks[t].bad
      BY <1>1, <2>1 DEF TaskType, Followed
    <2> QED
      BY <1>2, <2>1, <2>2 DEF Success
  <1>6. CASE Rate(x)
    <2>1. tasks' = [tasks EXCEPT ![x].bad = TRUE] /\ follows' = follows
      BY <1>6 DEF Rate
    <2>2. tasks'[t].ok = tasks[t].ok
      BY <1>1, <2>1 DEF TaskType
    <2>3. tasks'[t].bad = tasks[t].bad \/ tasks'[t].bad = TRUE
      BY <1>1, <2>1 DEF TaskType
    <2> QED
      BY <1>2, <2>1, <2>2, <2>3 DEF Success
  <1> QED
    BY <1>3, <1>4, <1>5, <1>6 DEF Converse

LEMMA FollowsGrow == ASSUME NEW x \in Task, Converse(x) PROVE follows \subseteq follows'
PROOF
  BY DEF Converse, Close, Follow, FollowWrite, Rate

\* Nothing a step does makes less of what a skill's followers did
LEMMA RecordGrows ==
  ASSUME TypeOK, [Next]_vars
  PROVE  /\ follows \subseteq follows'
         /\ \A t \in Closed : ~Success(t) => ~Success(t)'
PROOF
  <1>1. ASSUME NEW x \in Task, Converse(x)
        PROVE  /\ follows \subseteq follows'
               /\ \A t \in Closed : ~Success(t) => ~Success(t)'
    BY <1>1, FailureStays, FollowsGrow
  <1>2. ASSUME tasks' = tasks, follows' = follows
        PROVE  /\ follows \subseteq follows'
               /\ \A t \in Closed : ~Success(t) => ~Success(t)'
    BY <1>2 DEF Success, Closed
  <1>3. ASSUME NEW r \in Run, Distill(r) PROVE tasks' = tasks /\ follows' = follows
    BY <1>3 DEF Distill, Experience, Existing, Propose, Supersede, MeasureSkills,
                MeasureTasks, Count, Stats, Retire
  <1>4. ASSUME NEW a \in Approver, Decide(a) PROVE tasks' = tasks /\ follows' = follows
    BY <1>4 DEF Decide, ApproveFind, Approve
  <1>5. CASE UNCHANGED vars
    BY <1>2, <1>5 DEF vars
  <1> QED
    BY <1>1, <1>2, <1>3, <1>4, <1>5 DEF Next

LEMMA GroundsStay ==
  ASSUME TypeOK, [Next]_vars, NEW k, NEW u \in Nat, NEW w \in Nat, Grounds(k, u, w)
  PROVE  Grounds(k, u, w)'
PROOF
  <1>1. UsedOf(k) \subseteq UsedOf(k)'
    BY RecordGrows DEF UsedOf
  <1>2. UsedOf(k) \subseteq Closed
    BY DEF UsedOf, TypeOK, FactsOk
  <1>3. FailedOf(k) \subseteq FailedOf(k)'
    BY <1>1, <1>2, RecordGrows DEF FailedOf
  <1>4. /\ UsedOf(k) \subseteq Task /\ UsedOf(k)' \subseteq Task
        /\ FailedOf(k) \subseteq Task /\ FailedOf(k)' \subseteq Task
    BY DEF UsedOf, FailedOf
  <1>5. /\ Cardinality(UsedOf(k)) \in Nat /\ Cardinality(UsedOf(k)') \in Nat
        /\ Cardinality(FailedOf(k)) \in Nat /\ Cardinality(FailedOf(k)') \in Nat
        /\ IsFiniteSet(UsedOf(k)') /\ IsFiniteSet(FailedOf(k)')
    BY <1>4, TaskSets
  <1>6. /\ Cardinality(UsedOf(k)) =< Cardinality(UsedOf(k)')
        /\ Cardinality(FailedOf(k)) =< Cardinality(FailedOf(k)')
    BY <1>1, <1>3, <1>5, FS_Subset
  <1> QED
    BY <1>5, <1>6 DEF Grounds

\* What a measurement counts is grounded
LEMMA CountGrounds ==
  ASSUME TypeOK, NEW r \in Run, Measuring(r), distilling[r].pc = "count", NEW k
  PROVE  LET j == distilling[r]
             used == Followers(k, j.read) IN
         Grounds(k, Cardinality(used), Wins(used, j.won))
PROOF
  <1> DEFINE j == distilling[r]
             used == Followers(k, j.read)
  <1>1. j \in RunType
    BY DEF TypeOK
  <1>2. used \subseteq Task /\ used \subseteq UsedOf(k) /\ UsedOf(k) \subseteq Task
    BY <1>1 DEF Followers, RunType, UsedOf
  <1>3. used \ j.won \subseteq FailedOf(k) /\ FailedOf(k) \subseteq Task
    BY <1>2 DEF FailedOf, Measuring, Followers
  <1>4. IsFiniteSet(used) /\ IsFiniteSet(UsedOf(k)) /\ IsFiniteSet(FailedOf(k))
    BY <1>2, <1>3, TaskSets
  <1>5. Cardinality(used) =< Cardinality(UsedOf(k))
    BY <1>2, <1>4, FS_Subset
  <1>6. Cardinality(used \ j.won) =< Cardinality(FailedOf(k))
    BY <1>3, <1>4, FS_Subset
  <1>7. Cardinality(used \ j.won) = Cardinality(used) - Wins(used, j.won)
    BY <1>4, FS_Difference DEF Wins
  <1>8. /\ Cardinality(used) \in Nat /\ Cardinality(UsedOf(k)) \in Nat
        /\ Cardinality(FailedOf(k)) \in Nat /\ Cardinality(used \cap j.won) \in Nat
    BY <1>2, <1>3, TaskSets
  <1> QED
    BY <1>5, <1>6, <1>7, <1>8 DEF Grounds, Wins

LEMMA MeasuringStays ==
  ASSUME TypeOK, [Next]_vars, NEW r \in Run, Measuring(r), distilling'[r] = distilling[r]
  PROVE  Measuring(r)'
PROOF
  <1> DEFINE j == distilling[r]
  <1>1. j \in RunType /\ j.read \subseteq Closed
    BY DEF TypeOK, RunOk
  <1>2. ASSUME j.pc \in {"count", "stats", "retire"}
        PROVE  \A t \in j.read : Success(t)' => t \in j.won
    BY <1>1, <1>2, RecordGrows DEF Measuring
  <1>3. ASSUME j.pc \in {"stats", "retire"} PROVE Grounds(j.key, j.uses, j.wins)'
    <2> PICK k, u, w : k = j.key /\ u = j.uses /\ w = j.wins
      OBVIOUS
    <2>1. u \in Nat /\ w \in Nat /\ Grounds(k, u, w)
      BY <1>1, <1>3 DEF RunType, Measuring
    <2>2. Grounds(k, u, w)'
      BY <2>1, GroundsStay
    <2> QED
      BY <2>2
  <1> QED
    BY <1>2, <1>3 DEF Measuring

\* A distillation that isn't measuring has nothing to show for it
LEMMA NotMeasuring ==
  ASSUME TypeOK, NEW r \in Run,
         Experience(r) \/ Existing(r) \/ Propose(r) \/ Supersede(r) \/ MeasureSkills(r)
  PROVE  Measuring(r)'
PROOF
  <1>1. distilling \in [Run -> RunType] /\ distilling[r] \in RunType
    BY DEF TypeOK
  <1>2. CASE Experience(r)
    <2>1. distilling'[r].pc = "existing"
      BY <1>1, <1>2 DEF Experience, RunType
    <2> QED
      BY <2>1 DEF Measuring
  <1>3. CASE Existing(r)
    <2>1. distilling'[r].pc = "skill"
      BY <1>1, <1>3 DEF Existing, RunType
    <2> QED
      BY <2>1 DEF Measuring
  <1>4. CASE Propose(r)
    <2>1. PICK c \in distilling[r].plan :
            \/ distilling' = [distilling EXCEPT ![r] = Proposed(distilling[r], c)]
            \/ distilling' = [distilling EXCEPT ![r] = LetGo(distilling[r], c)]
      BY <1>4 DEF Propose
    <2>2. distilling[r].pc = "skill"
      BY <1>4 DEF Propose
    <2>3. LetGo(distilling[r], c).pc = "skill"
      BY <1>1, <2>2 DEF LetGo, RunType
    <2>4. Proposed(distilling[r], c).pc \in {"skill", "supersede"}
      BY <1>1 DEF Proposed, RunType
    <2>5. distilling'[r].pc \in {"skill", "supersede"}
      BY <1>1, <2>1, <2>3, <2>4
    <2> QED
      BY <2>5 DEF Measuring
  <1>5. CASE Supersede(r)
    <2>1. PICK k \in distilling[r].olds :
            distilling' = [distilling EXCEPT ![r] = Superseded(distilling[r], k)]
      BY <1>5 DEF Supersede
    <2>2. Superseded(distilling[r], k).pc \in {"skill", "supersede"}
      BY <1>1 DEF Superseded, RunType
    <2>3. distilling'[r].pc \in {"skill", "supersede"}
      BY <1>1, <2>1, <2>2
    <2> QED
      BY <2>3 DEF Measuring
  <1>6. CASE MeasureSkills(r)
    <2>1. distilling'[r].pc = "tasks"
      BY <1>1, <1>6 DEF MeasureSkills, RunType
    <2> QED
      BY <2>1 DEF Measuring
  <1> QED
    BY <1>2, <1>3, <1>4, <1>5, <1>6

LEMMA MeasuringSteps ==
  ASSUME TypeOK, [Next]_vars, NEW r \in Run, Measuring(r),
         MeasureTasks(r) \/ Count(r) \/ Stats(r) \/ Retire(r)
  PROVE  Measuring(r)'
PROOF
  <1> DEFINE j == distilling[r]
  <1>1. distilling \in [Run -> RunType] /\ j \in RunType /\ j.read \subseteq Closed
    BY DEF TypeOK, RunOk
  <1>2. tasks' = tasks /\ follows' = follows
    BY DEF MeasureTasks, Count, Stats, Retire
  <1>3. /\ \A t \in Task : Success(t)' = Success(t)
        /\ \A k, u, w : Grounds(k, u, w)' = Grounds(k, u, w)
    BY <1>2 DEF Success, Closed, Grounds, UsedOf, FailedOf
  <1>4. CASE MeasureTasks(r)
    <2>1. /\ distilling'[r].pc = "count" /\ distilling'[r].read = Closed
          /\ distilling'[r].won = {t \in Closed : Success(t)}
      BY <1>1, <1>4 DEF MeasureTasks, RunType
    <2>2. Closed \subseteq Task
      BY DEF Closed
    <2> QED
      BY <1>3, <2>1, <2>2 DEF Measuring
  <1>5. CASE Count(r)
    <2>1. ASSUME NEW k \in j.left, distilling' = [distilling EXCEPT ![r] = Counted(j, k)]
          PROVE  Measuring(r)'
      <3>1. j.pc = "count"
        BY <1>5 DEF Count
      <3> DEFINE used == Followers(k, j.read)
      <3>2. k \in Path /\ used \subseteq Task /\ IsFiniteSet(used)
        BY <1>1, TaskSets DEF Followers, RunType
      <3>3. Cardinality(used) \in Nat /\ Wins(used, j.won) \in Nat
        BY <3>2, FS_CardinalityType, FS_Subset DEF Wins
      <3>4. /\ distilling'[r].pc = "stats" /\ distilling'[r].key = k
            /\ distilling'[r].read = j.read /\ distilling'[r].won = j.won
            /\ distilling'[r].uses = Cardinality(used)
            /\ distilling'[r].wins = Wins(used, j.won)
        BY <1>1, <2>1, <3>2, <3>3, CountedFields
      <3>5. Grounds(k, Cardinality(used), Wins(used, j.won))
        BY <3>1, CountGrounds
      <3>6. \A t \in j.read : Success(t) => t \in j.won
        BY <3>1 DEF Measuring
      <3>7. j.read \subseteq Task
        BY <1>1 DEF RunType
      <3> HIDE DEF j, used
      <3> QED
        BY <1>3, <3>4, <3>5, <3>6, <3>7 DEF Measuring
    <2>2. CASE distilling' = [distilling EXCEPT ![r] = [NoRun EXCEPT !.pc = "done",
                                                          !.keys = j.keys]]
      <3>1. distilling'[r].pc = "done"
        BY <1>1, <2>2 DEF NoRun
      <3> QED
        BY <3>1 DEF Measuring
    <2> QED
      BY <1>5, <2>1, <2>2 DEF Count
  <1>6. CASE Stats(r)
    <2>1. j.pc = "stats"
      BY <1>6 DEF Stats
    <2>2. CASE Failing(j.uses, j.wins)
      <3>1. /\ distilling'[r].pc = "retire" /\ distilling'[r].key = j.key
            /\ distilling'[r].read = j.read /\ distilling'[r].won = j.won
            /\ distilling'[r].uses = j.uses /\ distilling'[r].wins = j.wins
        BY <1>1, <1>6, <2>2 DEF Stats, RunType
      <3>2. j.read \subseteq Task
        BY <1>1 DEF RunType
      <3> QED
        BY <1>3, <2>1, <2>2, <3>1, <3>2 DEF Measuring
    <2>3. CASE ~Failing(j.uses, j.wins)
      <3>1. /\ distilling'[r].pc = "count"
            /\ distilling'[r].read = j.read /\ distilling'[r].won = j.won
        BY <1>1, <1>6, <2>3 DEF Stats, Measured, RunType
      <3>2. j.read \subseteq Task
        BY <1>1 DEF RunType
      <3> QED
        BY <1>3, <2>1, <3>1, <3>2 DEF Measuring
    <2> QED
      BY <2>2, <2>3
  <1>7. CASE Retire(r)
    <2>1. j.pc = "retire"
      BY <1>7 DEF Retire
    <2>2. /\ distilling'[r].pc = "count"
          /\ distilling'[r].read = j.read /\ distilling'[r].won = j.won
      BY <1>1, <1>7 DEF Retire, Measured, RunType
    <2>3. j.read \subseteq Task
      BY <1>1 DEF RunType
    <2> QED
      BY <1>3, <2>1, <2>2, <2>3 DEF Measuring
  <1> QED
    BY <1>4, <1>5, <1>6, <1>7

LEMMA MeasuringStep ==
  ASSUME TypeOK, \A r \in Run : Measuring(r), [Next]_vars
  PROVE  \A r \in Run : Measuring(r)'
PROOF
  <1> SUFFICES ASSUME NEW r \in Run PROVE Measuring(r)'
    OBVIOUS
  <1>1. CASE distilling'[r] = distilling[r]
    BY <1>1, MeasuringStays
  <1>2. ASSUME NEW x \in Run, Distill(x) PROVE Measuring(r)'
    <2>1. distilling' = [distilling EXCEPT ![x] = distilling'[x]]
      BY <1>2 DEF TypeOK, Distill, Experience, Existing, Propose, Supersede, MeasureSkills,
                  MeasureTasks, Count, Stats, Retire
    <2>2. CASE x # r
      BY <1>1, <2>1, <2>2 DEF TypeOK
    <2>3. CASE x = r
      BY <1>2, <2>3, NotMeasuring, MeasuringSteps DEF Distill
    <2> QED
      BY <2>2, <2>3
  <1>3. ASSUME NEW t \in Task, Converse(t) PROVE distilling' = distilling
    BY <1>3 DEF Converse, Close, Follow, FollowWrite, Rate, UNCHANGED_SKILLS
  <1>4. ASSUME NEW a \in Approver, Decide(a) PROVE distilling' = distilling
    BY <1>4 DEF Decide, ApproveFind, Approve
  <1>5. CASE UNCHANGED vars
    BY <1>1, <1>5 DEF vars
  <1> QED
    BY <1>1, <1>2, <1>3, <1>4, <1>5 DEF Next

\* A Fact of retirement is new only by a measurement that found the skill failing
LEMMA NewRetirals ==
  ASSUME [Next]_vars, NEW f \in retirals', f \notin retirals
  PROVE  \E r \in Run : /\ distilling[r].pc = "retire"
                        /\ f = [run |-> r, key |-> distilling[r].key,
                                uses |-> distilling[r].uses, wins |-> distilling[r].wins]
PROOF
  <1>1. ASSUME NEW t \in Task, Converse(t) PROVE retirals' = retirals
    BY <1>1 DEF Converse, Close, Follow, FollowWrite, Rate, UNCHANGED_SKILLS
  <1>2. ASSUME NEW a \in Approver, Decide(a) PROVE retirals' = retirals
    BY <1>2 DEF Decide, ApproveFind, Approve
  <1>3. ASSUME NEW r \in Run, Distill(r), ~Retire(r) PROVE retirals' = retirals
    BY <1>3 DEF Distill, Experience, Existing, Propose, Supersede, MeasureSkills,
                MeasureTasks, Count, Stats
  <1>4. UNCHANGED vars => retirals' = retirals
    BY DEF vars
  <1>5. PICK r \in Run : Retire(r)
    BY <1>1, <1>2, <1>3, <1>4 DEF Next
  <1> QED
    BY <1>5 DEF Retire

LEMMA JustifiedStep == JustInv /\ [Next]_vars => Justified'
PROOF
  <1> SUFFICES ASSUME JustInv, [Next]_vars PROVE Justified'
    OBVIOUS
  <1> USE DEF JustInv
  <1>1. SUFFICES ASSUME NEW f \in retirals'
                 PROVE  Failing(f.uses, f.wins) /\ Grounds(f.key, f.uses, f.wins)'
    BY DEF Justified, Grounds, UsedOf, FailedOf
  <1>2. PICK k, u, w : k = f.key /\ u = f.uses /\ w = f.wins
    OBVIOUS
  <1>3. u \in Nat /\ w \in Nat /\ Failing(u, w) /\ Grounds(k, u, w)
    <2>1. CASE f \in retirals
      <3>1. u \in Nat /\ w \in Nat
        BY <1>2, <2>1 DEF TypeOK, FactsOk
      <3> QED
        BY <1>2, <2>1, <3>1, JustifiedIs
    <2>2. CASE f \notin retirals
      <3>1. PICK r \in Run :
              /\ distilling[r].pc = "retire"
              /\ f = [run |-> r, key |-> distilling[r].key,
                      uses |-> distilling[r].uses, wins |-> distilling[r].wins]
        BY <2>2, NewRetirals
      <3>2. /\ k = distilling[r].key /\ u = distilling[r].uses /\ w = distilling[r].wins
            /\ distilling[r] \in RunType
        BY <1>2, <3>1 DEF TypeOK
      <3>3. Failing(distilling[r].uses, distilling[r].wins)
            /\ Grounds(distilling[r].key, distilling[r].uses, distilling[r].wins)
        BY <3>1 DEF Measuring
      <3> QED
        BY <3>2, <3>3 DEF RunType
    <2> QED
      BY <2>1, <2>2
  <1>4. Grounds(k, u, w)'
    BY <1>3, GroundsStay
  <1> QED
    BY <1>2, <1>3, <1>4

\* A skill retired by measurement had followers that failed, as many as the Fact
\* says: whatever is followed, rated and measured meanwhile
THEOREM RetiredWithCause == Spec => []Justified
PROOF
  <1>1. Init => JustInv
    BY TypeInit DEF Init, JustInv, Measuring, Justified, NoRun
  <1>2. JustInv /\ [Next]_vars => JustInv'
    BY TypeStep, MeasuringStep, JustifiedStep DEF JustInv
  <1> QED
    BY <1>1, <1>2, PTL DEF Spec, JustInv

-----------------------------------------------------------------------------
(* What a skill rests on *)

Rested(k, S) ==
  /\ S \subseteq Closed /\ Cardinality(S) >= MinSupport
  /\ \E t \in S : tasks[t].path = k /\ tasks[t].ok

\* Rests, of skills and of the clusters a distillation has still to propose
RestsInv ==
  /\ TypeOK
  /\ \A r \in Run : \A c \in distilling[r].plan : Rested(c.key, c.members)
  /\ \A k \in DOMAIN skills : Rested(k, skills[k].evidence)

\* What a closed task did is done
LEMMA PathStays ==
  ASSUME TypeOK, NEW x \in Task, Converse(x), NEW t \in Closed
  PROVE  t \in Closed' /\ tasks'[t].path = tasks[t].path /\ tasks'[t].ok = tasks[t].ok
PROOF
  <1>1. tasks \in [Task -> TaskType] /\ t \in Task /\ tasks[t].pc # "open"
    BY DEF TypeOK, TasksOk, Closed
  <1>2. SUFFICES /\ tasks'[t].path = tasks[t].path /\ tasks'[t].ok = tasks[t].ok
                 /\ tasks'[t].pc # "open"
    BY <1>1 DEF Closed
  <1>3. CASE Close(x)
    <2>1. x # t
      BY <1>1, <1>3 DEF Close
    <2>2. tasks'[t] = tasks[t]
      BY <1>1, <1>3, <2>1 DEF Close
    <2> QED
      BY <1>1, <2>2
  <1>4. CASE Follow(x)
    <2>1. PICK hits \in SUBSET DOMAIN skills, pc \in {"over", "follow"} :
            tasks' = [tasks EXCEPT ![x] = [tasks[x] EXCEPT !.hits = hits, !.pc = pc]]
      BY <1>1, <1>4 DEF Follow, Approved
    <2> QED
      BY <1>1, <2>1 DEF TaskType
  <1>5. CASE FollowWrite(x)
    <2>1. PICK k : tasks' = [tasks EXCEPT ![x] = Followed(tasks[x], k)]
      BY <1>5 DEF FollowWrite
    <2> QED
      BY <1>1, <2>1 DEF TaskType, Followed
  <1>6. CASE Rate(x)
    BY <1>1, <1>6 DEF Rate, TaskType
  <1> QED
    BY <1>3, <1>4, <1>5, <1>6 DEF Converse

LEMMA RestedStays ==
  ASSUME TypeOK, [Next]_vars, NEW k, NEW S, Rested(k, S) PROVE Rested(k, S)'
PROOF
  <1>1. ASSUME NEW x \in Task, Converse(x) PROVE Rested(k, S)'
    BY <1>1, PathStays DEF Rested
  <1>2. ASSUME tasks' = tasks PROVE Rested(k, S)'
    BY <1>2 DEF Rested, Closed
  <1>3. ASSUME NEW r \in Run, Distill(r) PROVE tasks' = tasks
    BY <1>3 DEF Distill, Experience, Existing, Propose, Supersede, MeasureSkills,
                MeasureTasks, Count, Stats, Retire
  <1>4. ASSUME NEW a \in Approver, Decide(a) PROVE tasks' = tasks
    BY <1>4 DEF Decide, ApproveFind, Approve
  <1> QED
    BY <1>1, <1>2, <1>3, <1>4 DEF Next, vars

\* The best path of a cluster that makes a skill was taken, with every step run
LEMMA BestIsTaken ==
  ASSUME NEW w \in Work, Supported(w), NEW p \in Path, IsBest(p, w), TypeOK
  PROVE  Rested(p, Cluster(w))
PROOF
  <1>1. Cluster(w) \subseteq Closed /\ Closed \subseteq Task /\ Good(w) \subseteq Cluster(w)
    BY DEF Cluster, Closed, Good
  <1>2. /\ Cardinality(Cluster(w)) \in Nat /\ Cardinality(Good(w)) \in Nat
        /\ IsFiniteSet(Good(w))
    BY <1>1, TaskSets
  <1>3. Good(w) # {}
    <2>1. SUFFICES ASSUME Cardinality(Good(w)) = 0 PROVE FALSE
      BY FS_EmptySet
    <2> DEFINE n == Cardinality(Cluster(w))
    <2>2. n \in Nat \ {0} /\ MinSuccess \in Nat \ {0}
      BY <1>2, SkillsAssumption DEF Supported
    <2>3. 0 >= MinSuccess * n
      BY <1>2, <2>1 DEF Supported
    <2> HIDE DEF n
    <2> QED
      BY <2>2, <2>3
  <1>4. PICK t \in Good(w) : TRUE
    BY <1>3
  <1>5. tasks[t].path \in Path
    BY <1>1, <1>4 DEF TypeOK, TasksOk
  <1> PICK q \in Path : q = tasks[t].path
    BY <1>5
  <1>6. /\ On(q, Good(w)) \subseteq Task /\ On(p, Good(w)) \subseteq Task
        /\ On(q, Good(w)) # {}
    BY <1>1, <1>4 DEF On
  <1>7. /\ Cardinality(On(q, Good(w))) \in Nat /\ Cardinality(On(q, Good(w))) # 0
        /\ Cardinality(On(p, Good(w))) \in Nat
        /\ IsFiniteSet(On(p, Good(w))) /\ IsFiniteSet(On(q, Good(w)))
    <2>1. /\ IsFiniteSet(On(p, Good(w))) /\ Cardinality(On(p, Good(w))) \in Nat
          /\ IsFiniteSet(On(q, Good(w))) /\ Cardinality(On(q, Good(w))) \in Nat
      BY <1>6, TaskSets
    <2> QED
      BY <1>6, <2>1, FS_EmptySet
  <1>8. Cardinality(On(p, Good(w))) # 0
    BY <1>7 DEF IsBest
  <1>9. PICK u \in On(p, Good(w)) : TRUE
    BY <1>8, FS_EmptySet
  <1>10. u \in Cluster(w) /\ tasks[u].path = p /\ tasks[u].ok
    BY <1>1, <1>9 DEF On, Good, Success
  <1> QED
    BY <1>1, <1>10 DEF Rested, Supported

\* A distillation's plan is what it planned before, or what its experience made
LEMMA PlanFrom ==
  ASSUME TypeOK, NEW r \in Run, Distill(r), NEW c \in distilling'[r].plan
  PROVE  \/ \E d \in distilling[r].plan : d.key = c.key /\ d.members = c.members
         \/ \E w \in Work : /\ Supported(w) /\ IsBest(c.key, w) /\ c.key \in Path
                            /\ c.members = Cluster(w)
PROOF
  <1> DEFINE j == distilling[r]
  <1>1. distilling \in [Run -> RunType] /\ j \in RunType
    BY DEF TypeOK
  <1>2. CASE Experience(r)
    <2> DEFINE made == {w \in Work : Supported(w)}
    <2>1. PICK best \in [made -> Path] :
            /\ \A w \in made : IsBest(best[w], w)
            /\ distilling' = [distilling EXCEPT ![r] =
                 [j EXCEPT !.pc = "existing",
                           !.plan = {[key |-> best[w], members |-> Cluster(w), olds |-> {}] :
                                       w \in made}]]
      BY <1>2 DEF Experience
    <2>2. distilling'[r].plan = {[key |-> best[w], members |-> Cluster(w), olds |-> {}] :
                                   w \in made}
      BY <1>1, <2>1 DEF RunType
    <2>3. PICK w \in made : c = [key |-> best[w], members |-> Cluster(w), olds |-> {}]
      BY <2>2
    <2>4. c.key = best[w] /\ c.members = Cluster(w) /\ best[w] \in Path
      BY <2>3
    <2> QED
      BY <2>1, <2>4
  <1>3. CASE Existing(r)
    <2>1. distilling'[r].plan = {[d EXCEPT !.olds = OldsOf(d)] : d \in j.plan}
      BY <1>1, <1>3 DEF Existing, RunType
    <2>2. PICK d \in j.plan : c = [d EXCEPT !.olds = OldsOf(d)]
      BY <2>1
    <2>3. d \in ClusterType
      BY <1>1 DEF RunType
    <2>4. c.key = d.key /\ c.members = d.members
      BY <2>2, <2>3 DEF ClusterType
    <2> QED
      BY <2>4
  <1>4. CASE Propose(r)
    <2>1. PICK d \in j.plan :
            \/ distilling' = [distilling EXCEPT ![r] = Proposed(j, d)]
            \/ distilling' = [distilling EXCEPT ![r] = LetGo(j, d)]
      BY <1>4 DEF Propose
    <2>2. Proposed(j, d).plan = j.plan \ {d} /\ LetGo(j, d).plan = j.plan \ {d}
      BY <1>1 DEF Proposed, LetGo, RunType
    <2> QED
      BY <1>1, <2>1, <2>2
  <1>5. CASE Supersede(r)
    <2>1. PICK k : distilling' = [distilling EXCEPT ![r] = Superseded(j, k)]
      BY <1>5 DEF Supersede
    <2>2. Superseded(j, k).plan = j.plan
      BY <1>1 DEF Superseded, RunType
    <2> QED
      BY <1>1, <2>1, <2>2
  <1>6. CASE MeasureSkills(r) \/ MeasureTasks(r)
    <2>1. CASE MeasureSkills(r)
      BY <1>1, <2>1 DEF MeasureSkills, RunType
    <2>2. CASE MeasureTasks(r)
      <3> DEFINE read == [j EXCEPT !.pc = "count", !.read = Closed,
                                   !.won = {t \in Closed : Success(t)}]
      <3>1. distilling'[r] = read
        BY <1>1, <2>2 DEF MeasureTasks
      <3>2. read.plan = j.plan
        BY <1>1 DEF RunType
      <3> QED
        BY <3>1, <3>2
    <2> QED
      BY <1>6, <2>1, <2>2
  <1>7. CASE Count(r)
    <2>1. ASSUME NEW k, distilling' = [distilling EXCEPT ![r] = Counted(j, k)]
          PROVE  distilling'[r].plan = j.plan
      BY <1>1, <2>1 DEF Counted, RunType
    <2>2. ASSUME distilling' = [distilling EXCEPT ![r] = [NoRun EXCEPT !.pc = "done",
                                                            !.keys = j.keys]]
          PROVE  distilling'[r].plan = {}
      BY <1>1, <2>2 DEF NoRun
    <2> QED
      BY <1>7, <2>1, <2>2 DEF Count
  <1>8. CASE Stats(r) \/ Retire(r)
    <2>1. Measured(j).plan = j.plan /\ [j EXCEPT !.pc = "retire"].plan = j.plan
      BY <1>1 DEF Measured, RunType
    <2>2. distilling'[r] \in {Measured(j), [j EXCEPT !.pc = "retire"]}
      BY <1>1, <1>8 DEF Stats, Retire
    <2> QED
      BY <2>1, <2>2
  <1> QED
    BY <1>2, <1>3, <1>4, <1>5, <1>6, <1>7, <1>8 DEF Distill

LEMMA PlanStep ==
  ASSUME RestsInv, [Next]_vars, NEW r \in Run, NEW c \in distilling'[r].plan
  PROVE  Rested(c.key, c.members)'
PROOF
  <1> USE DEF RestsInv
  <1>1. SUFFICES Rested(c.key, c.members)
    <2> PICK k, S : k = c.key /\ S = c.members
      OBVIOUS
    <2> QED
      BY RestedStays
  <1>2. CASE distilling'[r] = distilling[r]
    BY <1>2
  <1>3. CASE Distill(r)
    BY <1>3, PlanFrom, BestIsTaken
  <1>4. ASSUME NEW x \in Run, Distill(x), x # r PROVE distilling'[r] = distilling[r]
    BY <1>4 DEF TypeOK, Distill, Experience, Existing, Propose, Supersede, MeasureSkills,
                MeasureTasks, Count, Stats, Retire
  <1>5. ASSUME NEW t \in Task, Converse(t) PROVE distilling' = distilling
    BY <1>5 DEF Converse, Close, Follow, FollowWrite, Rate, UNCHANGED_SKILLS
  <1>6. ASSUME NEW a \in Approver, Decide(a) PROVE distilling' = distilling
    BY <1>6 DEF Decide, ApproveFind, Approve
  <1> QED
    BY <1>2, <1>3, <1>4, <1>5, <1>6 DEF Next, vars

\* A skill's evidence is what it was, and a cluster's members
LEMMA EvidenceFrom ==
  ASSUME TypeOK, [Next]_vars, NEW k \in DOMAIN skills'
  PROVE  \/ k \in DOMAIN skills /\ skills'[k].evidence = skills[k].evidence
         \/ \E r \in Run : \E c \in distilling[r].plan :
              /\ c.key = k
              /\ \/ skills'[k].evidence = c.members
                 \/ /\ k \in DOMAIN skills
                    /\ skills'[k].evidence = skills[k].evidence \cup c.members
PROOF
  <1>1. \A x \in DOMAIN skills : skills[x] \in SkillType
    BY DEF TypeOK, SkillsOk
  <1>2. CASE skills' = skills
    BY <1>2
  <1>3. ASSUME NEW t \in Task, Converse(t) PROVE skills' = skills
    BY <1>3 DEF Converse, Close, Follow, FollowWrite, Rate, UNCHANGED_SKILLS
  <1>4. ASSUME NEW a \in Approver, Decide(a)
        PROVE  k \in DOMAIN skills /\ skills'[k].evidence = skills[k].evidence
    BY <1>1, <1>4 DEF Decide, ApproveFind, Approve, SkillType
  <1>5. ASSUME NEW r \in Run, Propose(r), skills' # skills
        PROVE  \/ k \in DOMAIN skills /\ skills'[k].evidence = skills[k].evidence
               \/ \E c \in distilling[r].plan :
                    /\ c.key = k
                    /\ \/ skills'[k].evidence = c.members
                       \/ /\ k \in DOMAIN skills
                          /\ skills'[k].evidence = skills[k].evidence \cup c.members
    <2>1. PICK c \in distilling[r].plan :
            skills' = [x \in DOMAIN skills \cup {c.key} |->
                         IF x = c.key THEN Merged(c) ELSE skills[x]]
      BY <1>5 DEF Propose
    <2>2. CASE k # c.key
      BY <2>1, <2>2
    <2>3. CASE k = c.key /\ k \in DOMAIN skills
      <3>1. Merged(c).evidence = skills[k].evidence \cup c.members
        BY <1>1, <2>3 DEF Merged, SkillType
      <3> QED
        BY <2>1, <2>3, <3>1
    <2>4. CASE k = c.key /\ k \notin DOMAIN skills
      <3>1. Merged(c).evidence = c.members
        BY <2>4 DEF Merged, New
      <3> QED
        BY <2>1, <2>4, <3>1
    <2> QED
      BY <2>2, <2>3, <2>4
  <1>6. ASSUME NEW r \in Run, Supersede(r) \/ Retire(r)
        PROVE  k \in DOMAIN skills /\ skills'[k].evidence = skills[k].evidence
    <2>1. PICK x : skills' = [skills EXCEPT ![x].status = "retired"] \/ skills' = skills
      BY <1>6 DEF Supersede, Retire
    <2>2. k \in DOMAIN skills
      BY <2>1
    <2> QED
      BY <1>1, <2>1, <2>2 DEF SkillType
  <1>7. ASSUME NEW r \in Run, Stats(r)
        PROVE  k \in DOMAIN skills /\ skills'[k].evidence = skills[k].evidence
    BY <1>1, <1>7 DEF Stats, SkillType
  <1>8. ASSUME NEW r \in Run, Experience(r) \/ Existing(r) \/ MeasureSkills(r)
                              \/ MeasureTasks(r) \/ Count(r)
        PROVE  skills' = skills
    BY <1>8 DEF Experience, Existing, MeasureSkills, MeasureTasks, Count
  <1>9. ASSUME NEW r \in Run, Distill(r)
        PROVE  \/ k \in DOMAIN skills /\ skills'[k].evidence = skills[k].evidence
               \/ \E c \in distilling[r].plan :
                    /\ c.key = k
                    /\ \/ skills'[k].evidence = c.members
                       \/ /\ k \in DOMAIN skills
                          /\ skills'[k].evidence = skills[k].evidence \cup c.members
    BY <1>2, <1>5, <1>6, <1>7, <1>8, <1>9 DEF Distill
  <1> QED
    BY <1>2, <1>3, <1>4, <1>9 DEF Next, vars

LEMMA RestedMore ==
  ASSUME NEW k, NEW S, NEW T, Rested(k, S), S \subseteq T, T \subseteq Closed
  PROVE  Rested(k, T)
PROOF
  <1>1. S \subseteq Task /\ T \subseteq Task
    BY DEF Closed
  <1>2. /\ Cardinality(S) \in Nat /\ Cardinality(T) \in Nat
        /\ IsFiniteSet(T)
    BY <1>1, TaskSets
  <1>3. Cardinality(S) =< Cardinality(T)
    BY <1>2, FS_Subset
  <1> QED
    BY <1>2, <1>3, SkillsAssumption DEF Rested

LEMMA RestsStep == RestsInv /\ [Next]_vars => RestsInv'
PROOF
  <1> SUFFICES ASSUME RestsInv, [Next]_vars PROVE RestsInv'
    OBVIOUS
  <1>1. TypeOK'
    BY TypeStep DEF RestsInv
  <1>2. \A r \in Run : \A c \in distilling'[r].plan : Rested(c.key, c.members)'
    BY PlanStep
  <1>3. ASSUME NEW k \in DOMAIN skills', NEW S, S = skills'[k].evidence
        PROVE  Rested(k, S)'
    <2>1. SUFFICES Rested(k, S)
      BY RestedStays DEF RestsInv
    <2>2. CASE k \in DOMAIN skills /\ S = skills[k].evidence
      BY <2>2 DEF RestsInv
    <2>3. ASSUME NEW r \in Run, NEW c \in distilling[r].plan, c.key = k,
                 S = c.members \/ (k \in DOMAIN skills /\ S = skills[k].evidence \cup c.members)
          PROVE  Rested(k, S)
      <3>1. Rested(k, c.members)
        BY <2>3 DEF RestsInv
      <3>2. k \in DOMAIN skills => skills[k].evidence \subseteq Closed
        BY DEF RestsInv, Rested
      <3>3. S \subseteq Closed /\ c.members \subseteq S
        BY <2>3, <3>1, <3>2 DEF Rested
      <3> QED
        BY <3>1, <3>3, RestedMore
    <2> QED
      BY <1>3, <2>2, <2>3, EvidenceFrom DEF RestsInv
  <1>4. (\A k \in DOMAIN skills : Rested(k, skills[k].evidence))'
    BY <1>3 DEF Rested
  <1>5. (\A r \in Run : \A c \in distilling[r].plan : Rested(c.key, c.members))'
    BY <1>2
  <1> QED
    BY <1>1, <1>4, <1>5 DEF RestsInv

\* Every skill rests on min_support tasks or more, one of which took its path with
\* every step run, though its evidence is read long before it is written
THEOREM SkillsRest == Spec => []Rests
PROOF
  <1>1. Init => RestsInv
    BY TypeInit DEF Init, RestsInv, NoRun
  <1>2. RestsInv => Rests
    BY DEF RestsInv, Rested, Rests
  <1> QED
    BY <1>1, <1>2, RestsStep, PTL DEF Spec
=============================================================================
