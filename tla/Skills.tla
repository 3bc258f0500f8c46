------------------------------- MODULE Skills -------------------------------
(***************************************************************************)
(* Skills from the agents' own experience (src/qlsc/distill.py): distilled *)
(* from tasks that succeeded, approved by a person, followed by later      *)
(* tasks, measured by how those went, superseded by a better path and      *)
(* retired.  `qlsc distill`, `qlsc skills --approve` and the conversations *)
(* run beside each other, and each statement is a transaction of its own:  *)
(* a distillation works from what it read, while memory moves on.  A       *)
(* process that dies takes no further step.                                *)
(***************************************************************************)
EXTENDS Integers, FiniteSets

CONSTANTS
  Work,       \* kinds of work: the clusters Leiden finds among the tasks
  Path,       \* paths of fingerprints, in their order: a skill is its path
  WorkOf,     \* the kind of work a path does
  Task,       \* the agents' tasks, of two steps or more (distill.min_steps)
  Run,        \* the calls of qlsc distill in a behaviour, each run once
  Approver,   \* the calls of qlsc skills --approve
  None,       \* no value: null
  MinSupport, \* distill.min_support
  MinSuccess, \* distill.min_success, in percent
  RetireBelow \* distill.retire_below, in percent

ASSUME SkillsAssumption ==
  /\ Path \subseteq Nat
  /\ WorkOf \in [Path -> Work]
  /\ IsFiniteSet(Task)
  /\ MinSupport \in Nat \ {0} /\ MinSuccess \in 1 .. 100 /\ RetireBelow \in 0 .. 100
  /\ None \notin Path

VARIABLES
  tasks,      \* what each task did
  skills,     \* the Skills, by their path
  supersedes, \* <<new, old>>
  follows,    \* <<task, path>>
  approvals,  \* the Facts of approval: <<approver, path>>
  retirals,   \* the Facts of retirement, with the followers and wins they state
  distilling, \* what each distillation is at, and holds of what it read
  approving   \* what each approval is at

vars == <<tasks, skills, supersedes, follows, approvals, retirals, distilling, approving>>

NoRun == [pc |-> "new", plan |-> {}, known |-> {}, keys |-> {}, olds |-> {}, key |-> None,
          read |-> {}, won |-> {}, left |-> {}, uses |-> 0, wins |-> 0]

Init ==
  /\ tasks = [t \in Task |-> [pc |-> "open", path |-> None, ok |-> FALSE,
                              bad |-> FALSE, hits |-> {}]]
  /\ skills = [k \in {} |-> None]
  /\ supersedes = {} /\ follows = {} /\ approvals = {} /\ retirals = {}
  /\ distilling = [r \in Run |-> NoRun]
  /\ approving = [a \in Approver |-> [pc |-> "new", key |-> None]]

Approved == {k \in DOMAIN skills : skills[k].status = "approved"}

-----------------------------------------------------------------------------
(* Tasks: the conversations (converse.py) *)

UNCHANGED_SKILLS == UNCHANGED <<skills, supersedes, approvals, retirals, distilling, approving>>

\* The agent's reply closes the task, on whatever path, its steps run or not
Close(t) ==
  /\ tasks[t].pc = "open"
  /\ \E p \in Path, ok \in BOOLEAN :
       tasks' = [tasks EXCEPT ![t] = [@ EXCEPT !.pc = "closed", !.path = p, !.ok = ok]]
  /\ UNCHANGED follows /\ UNCHANGED_SKILLS

\* The approved skills it is close to, those of them its reader may see
Follow(t) ==
  /\ tasks[t].pc = "closed"
  /\ LET near == {k \in Approved : WorkOf[k] = WorkOf[tasks[t].path]} IN
     \E hits \in SUBSET near :
       tasks' = [tasks EXCEPT ![t] =
                   [@ EXCEPT !.hits = hits, !.pc = IF hits = {} THEN "over" ELSE "follow"]]
  /\ UNCHANGED follows /\ UNCHANGED_SKILLS

\* FOLLOW, one after another
Followed(x, k) ==
  [x EXCEPT !.hits = @ \ {k}, !.pc = IF x.hits = {k} THEN "over" ELSE "follow"]
FollowWrite(t) ==
  /\ tasks[t].pc = "follow"
  /\ \E k \in tasks[t].hits :
       /\ follows' = follows \cup {<<t, k>>}
       /\ tasks' = [tasks EXCEPT ![t] = Followed(tasks[t], k)]
  /\ UNCHANGED_SKILLS

\* A rating, or the outcome of a decision, that calls the task a failure
Rate(t) ==
  /\ ~tasks[t].bad
  /\ tasks' = [tasks EXCEPT ![t].bad = TRUE]
  /\ UNCHANGED follows /\ UNCHANGED_SKILLS

-----------------------------------------------------------------------------
(* distill *)

Closed == {t \in Task : tasks[t].pc # "open"}
Success(t) == t \in Closed /\ tasks[t].ok /\ ~tasks[t].bad
On(p, S) == {t \in S : tasks[t].path = p}
Cluster(w) == {t \in Closed : WorkOf[tasks[t].path] = w}
Good(w) == {t \in Cluster(w) : Success(t)}
Supported(w) ==
  /\ Cardinality(Cluster(w)) >= MinSupport
  /\ 100 * Cardinality(Good(w)) >= MinSuccess * Cardinality(Cluster(w))
\* The most common successful path; of as many, the first
IsCommonest(p, w) ==   \* mutant of IsBest: the most common path, successful or not
  \A q \in Path :
    \/ Cardinality(On(p, Cluster(w))) > Cardinality(On(q, Cluster(w)))
    \/ Cardinality(On(p, Cluster(w))) = Cardinality(On(q, Cluster(w))) /\ p =< q
IsBest(p, w) ==
  \A q \in Path :
    \/ Cardinality(On(p, Good(w))) > Cardinality(On(q, Good(w)))
    \/ Cardinality(On(p, Good(w))) = Cardinality(On(q, Good(w))) /\ p =< q

\* EXPERIENCE: the clusters that make a skill, with its path and the tasks they hold
Experience(r) ==
  /\ distilling[r].pc = "new"
  /\ LET made == {w \in Work : Supported(w)} IN
     \E best \in [made -> Path] :
       /\ \A w \in made : IsBest(best[w], w)
       /\ distilling' = [distilling EXCEPT ![r] =
            [@ EXCEPT !.pc = "existing",
                      !.plan = {[key |-> best[w], members |-> Cluster(w), olds |-> {}] :
                                  w \in made}]]
  /\ UNCHANGED <<tasks, skills, supersedes, follows, approvals, retirals, approving>>

\* SKILLS: which are known, and which each cluster's would supersede
OldsOf(c) ==
  {k \in DOMAIN skills \ {c.key} :
     /\ skills[k].status # "retired"
     /\ 2 * Cardinality(skills[k].evidence \cap c.members)
          >= Cardinality(skills[k].evidence)}
Existing(r) ==
  LET plan == {[c EXCEPT !.olds = OldsOf(c)] : c \in distilling[r].plan} IN
  /\ distilling[r].pc = "existing"
  /\ distilling' = [distilling EXCEPT ![r] =
       [@ EXCEPT !.pc = "skill", !.plan = plan, !.known = DOMAIN skills,
                 !.keys = {c.key : c \in plan}]]
  /\ UNCHANGED <<tasks, skills, supersedes, follows, approvals, retirals, approving>>

New(c) == [status |-> "proposed", evidence |-> c.members, uses |-> 0, successes |-> 0]
Merged(c) ==
  IF c.key \in DOMAIN skills
    THEN [skills[c.key] EXCEPT !.evidence = @ \cup c.members]
    ELSE New(c)

Proposed(j, c) ==
  [j EXCEPT !.pc = IF c.olds = {} THEN "skill" ELSE "supersede",
            !.key = c.key, !.olds = c.olds, !.plan = @ \ {c}]
LetGo(j, c) == [j EXCEPT !.plan = @ \ {c}, !.keys = @ \ {c.key}]

\* SKILL: a cluster's skill, proposed or updated; or, its name leaking what a task
\* named, a new one let go
Propose(r) ==
  LET j == distilling[r] IN
  /\ j.pc = "skill"
  /\ \E c \in j.plan :
       \/ /\ skills' = [k \in DOMAIN skills \cup {c.key} |->
                          IF k = c.key THEN Merged(c) ELSE skills[k]]
          /\ distilling' = [distilling EXCEPT ![r] = Proposed(j, c)]
       \/ /\ c.key \notin j.known
          /\ distilling' = [distilling EXCEPT ![r] = LetGo(j, c)]
          /\ UNCHANGED skills
  /\ UNCHANGED <<tasks, supersedes, follows, approvals, retirals, approving>>

Superseded(j, k) ==
  [j EXCEPT !.olds = @ \ {k}, !.pc = IF j.olds = {k} THEN "skill" ELSE "supersede"]

\* SUPERSEDE, one after another: retired, whatever has become of it since it was read
Supersede(r) ==
  LET j == distilling[r] IN
  /\ j.pc = "supersede"
  /\ \E k \in j.olds :
       /\ IF <<j.key, k>> \in supersedes
            THEN UNCHANGED <<skills, supersedes>>
            ELSE /\ skills' = [skills EXCEPT ![k].status = "retired"]
                 /\ supersedes' = supersedes \cup {<<j.key, k>>}
       /\ distilling' = [distilling EXCEPT ![r] = Superseded(j, k)]
  /\ UNCHANGED <<tasks, follows, approvals, retirals, approving>>

-----------------------------------------------------------------------------
(* measure *)

\* The skills, and then the tasks, as they stand
MeasureSkills(r) ==
  /\ distilling[r].pc = "skill" /\ distilling[r].plan = {}
  /\ distilling' = [distilling EXCEPT ![r] =
       [@ EXCEPT !.pc = "tasks", !.known = {}, !.left = DOMAIN skills, !.key = None]]
  /\ UNCHANGED <<tasks, skills, supersedes, follows, approvals, retirals, approving>>
MeasureTasks(r) ==
  /\ distilling[r].pc = "tasks"
  /\ distilling' = [distilling EXCEPT ![r] =
       [@ EXCEPT !.pc = "count", !.read = Closed, !.won = {t \in Closed : Success(t)}]]
  /\ UNCHANGED <<tasks, skills, supersedes, follows, approvals, retirals, approving>>

FollowersAnyWork(k, read) == read   \* mutant of Followers: every task read
Followers(k, read) == {t \in read : <<t, k>> \in follows}

WinsOfAll(used, won) == Cardinality(won)   \* mutant of Wins: whatever they followed
Wins(used, won) == Cardinality(used \cap won)

Counted(j, k) ==
  LET used == Followers(k, j.read) IN
  [j EXCEPT !.pc = "stats", !.key = k, !.left = @ \ {k},
            !.uses = Cardinality(used), !.wins = Wins(used, j.won)]

\* FOLLOWERS of one skill after another
Count(r) ==
  LET j == distilling[r] IN
  /\ j.pc = "count"
  /\ \/ \E k \in j.left : distilling' = [distilling EXCEPT ![r] = Counted(j, k)]
     \/ /\ j.left = {}
        /\ distilling' = [distilling EXCEPT ![r] = [NoRun EXCEPT !.pc = "done", !.keys = j.keys]]
  /\ UNCHANGED <<tasks, skills, supersedes, follows, approvals, retirals, approving>>

Failing(uses, wins) == uses >= MinSupport /\ 100 * wins < RetireBelow * uses

Measured(j) == [j EXCEPT !.pc = "count", !.key = None, !.uses = 0, !.wins = 0]

\* STATS
Stats(r) ==
  LET j == distilling[r] IN
  /\ j.pc = "stats"
  /\ skills' = [skills EXCEPT ![j.key] = [@ EXCEPT !.uses = j.uses, !.successes = j.wins]]
  /\ distilling' = [distilling EXCEPT ![r] =
       IF Failing(j.uses, j.wins) THEN [j EXCEPT !.pc = "retire"] ELSE Measured(j)]
  /\ UNCHANGED <<tasks, supersedes, follows, approvals, retirals, approving>>

\* RETIRE: only an approved one
MayRetireAny(k) == TRUE   \* mutant of MayRetire: whatever its status
MayRetire(k) == skills[k].status = "approved"
Retire(r) ==
  LET j == distilling[r] IN
  /\ j.pc = "retire"
  /\ IF MayRetire(j.key)
       THEN /\ skills' = [skills EXCEPT ![j.key].status = "retired"]
            /\ retirals' = retirals \cup
                 {[run |-> r, key |-> j.key, uses |-> j.uses, wins |-> j.wins]}
       ELSE UNCHANGED <<skills, retirals>>
  /\ distilling' = [distilling EXCEPT ![r] = Measured(j)]
  /\ UNCHANGED <<tasks, supersedes, follows, approvals, approving>>

-----------------------------------------------------------------------------
(* approve *)

\* A skill, found, that the person may see
ApproveFind(a) ==
  /\ approving[a].pc = "new"
  /\ \E k \in DOMAIN skills : approving' = [approving EXCEPT ![a] = [pc |-> "approve", key |-> k]]
  /\ UNCHANGED <<tasks, skills, supersedes, follows, approvals, retirals, distilling>>

\* APPROVE: only a proposed one
MayApproveAny(k) == TRUE   \* mutant of MayApprove: whatever its status
MayApprove(k) == skills[k].status = "proposed"
Approve(a) ==
  LET k == approving[a].key IN
  /\ approving[a].pc = "approve"
  /\ IF MayApprove(k)
       THEN /\ skills' = [skills EXCEPT ![k].status = "approved"]
            /\ approvals' = approvals \cup {<<a, k>>}
       ELSE UNCHANGED <<skills, approvals>>
  /\ approving' = [approving EXCEPT ![a].pc = "done"]
  /\ UNCHANGED <<tasks, supersedes, follows, retirals, distilling>>

-----------------------------------------------------------------------------
Converse(t) == Close(t) \/ Follow(t) \/ FollowWrite(t) \/ Rate(t)
Distill(r) == \/ Experience(r) \/ Existing(r) \/ Propose(r) \/ Supersede(r)
              \/ MeasureSkills(r) \/ MeasureTasks(r) \/ Count(r) \/ Stats(r) \/ Retire(r)
Decide(a) == ApproveFind(a) \/ Approve(a)

Next ==
  \/ \E t \in Task : Converse(t)
  \/ \E r \in Run : Distill(r)
  \/ \E a \in Approver : Decide(a)

Spec == Init /\ [][Next]_vars

-----------------------------------------------------------------------------
(* What skills promise *)

Status == {"proposed", "approved", "retired"}
SkillType == [status : Status, evidence : SUBSET Task, uses : Nat, successes : Nat]
TaskType == [pc : {"open", "closed", "follow", "over"}, path : Path \cup {None},
             ok : BOOLEAN, bad : BOOLEAN, hits : SUBSET Path]
ClusterType == [key : Path, members : SUBSET Task, olds : SUBSET Path]
RunType ==
  [pc : {"new", "existing", "skill", "supersede", "tasks", "count", "stats", "retire", "done"},
   plan : SUBSET ClusterType, known : SUBSET Path, keys : SUBSET Path, olds : SUBSET Path,
   key : Path \cup {None}, read : SUBSET Task, won : SUBSET Task, left : SUBSET Path,
   uses : Nat, wins : Nat]
ApproveType == [pc : {"new", "approve", "done"}, key : Path \cup {None}]

TasksOk ==
  /\ tasks \in [Task -> TaskType]
  /\ \A t \in Task : /\ tasks[t].hits \subseteq DOMAIN skills
                     /\ t \in Closed => tasks[t].path \in Path
SkillsOk ==
  /\ DOMAIN skills \subseteq Path
  /\ \A k \in DOMAIN skills : skills[k] \in SkillType
FactsOk ==
  /\ supersedes \subseteq (DOMAIN skills) \X (DOMAIN skills)
  /\ follows \subseteq Closed \X (DOMAIN skills)
  /\ approvals \subseteq Approver \X (DOMAIN skills)
  /\ retirals \subseteq [run : Run, key : DOMAIN skills, uses : Nat, wins : Nat]
RunOk(r) ==
  LET j == distilling[r] IN
  /\ j.pc \in {"supersede", "stats", "retire"} => j.key \in DOMAIN skills
  /\ j.olds \subseteq DOMAIN skills /\ j.left \subseteq DOMAIN skills
  /\ \A c \in j.plan : c.olds \subseteq DOMAIN skills
  /\ j.read \subseteq Closed /\ j.won \subseteq j.read /\ j.wins =< j.uses
ApproveOk(a) == approving[a].pc = "approve" => approving[a].key \in DOMAIN skills

\* Every variable has its type, and what a command goes on with is in memory
TypeOK ==
  /\ TasksOk /\ SkillsOk /\ FactsOk
  /\ distilling \in [Run -> RunType] /\ \A r \in Run : RunOk(r)
  /\ approving \in [Approver -> ApproveType] /\ \A a \in Approver : ApproveOk(a)

\* What the Facts about a skill say of it, whoever approves and measures beside
\* whom: it was approved once, by one person, if it is approved or was retired by
\* measurement, and so retired once; an approved skill has not been retired
OneOfEach ==
  \A k \in DOMAIN skills :
    LET yes == {f \in approvals : f[2] = k}
        no  == {f \in retirals : f.key = k} IN
    /\ \A f, g \in yes : f = g
    /\ \A f, g \in no : f = g
    /\ skills[k].status = "approved" \/ no # {} => yes # {}
    /\ skills[k].status # "retired" => no = {}
    /\ skills[k].status = "proposed" => yes = {}

\* "A skill that stops working is retired", and no other: of the tasks that followed
\* a skill retired by measurement, as many failed as its Fact says, or more since
Justified ==
  \A f \in retirals :
    LET used == {t \in Task : <<t, f.key>> \in follows}
        failed == {t \in used : ~Success(t)} IN
    /\ Failing(f.uses, f.wins)
    /\ Cardinality(failed) >= f.uses - f.wins
    /\ Cardinality(used) >= f.uses

\* A skill rests on experience: on min_support tasks or more, one of which took its
\* path with every step run
Rests ==
  \A k \in DOMAIN skills :
    /\ Cardinality(skills[k].evidence) >= MinSupport
    /\ \E t \in skills[k].evidence : tasks[t].path = k /\ tasks[t].ok

\* A skill is offered only between its one approval and its end
StatusOf(k) == IF k \in DOMAIN skills THEN skills[k].status ELSE "absent"
Life == INSTANCE SkillLife WITH status <- [k \in Path |-> StatusOf(k)]
ImplementsLife == Life!Spec
=============================================================================
