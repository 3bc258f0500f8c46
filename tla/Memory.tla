------------------------------- MODULE Memory -------------------------------
(***************************************************************************)
(* The Context Memory (src/qlsc/memory.py): an anchor's context is fetched *)
(* from the virtual graph a hop at a time, merged into a shared database,  *)
(* and read back from there for as long as it holds.  Commands of several  *)
(* readers run beside each other, beside the retention sweep and beside    *)
(* the warehouse, whose rows, row policies and grants change under them.   *)
(*                                                                         *)
(* A node is a warehouse row.  The columns modelled are the ones           *)
(* relationships are (a fact's customer_key): a relationship type IS a     *)
(* column of its start label's table, so Rel stands for both, and a        *)
(* column's value is the node it points at.                                *)
(***************************************************************************)
EXTENDS Naturals, FiniteSets

CONSTANTS
  Node,        \* the rows of every table the virtual graph serves
  Labels,      \* one per table
  Label,       \* [Node -> Labels]
  Rel,         \* relationship types, each a column of its start's table
  Start, End,  \* [Rel -> Labels]
  Used,        \* the Rel columns the log's queries read or filter on
  Null,        \* a column without a value, a command without a source
  Day,         \* [Node -> Nat]: a fact's partition column
  Since,       \* [time -> Nat]: window_start, the first day of the window
  Cap,         \* memory.cap
  Reader,      \* principals, and the data source itself
  Grants,      \* [Reader -> sets of grants]: the labels and columns readable
  Policied,    \* the labels whose table has a row access policy
  Frozen,      \* the labels whose table is frozen
  Hold,        \* [Labels -> Nat]: a table's write cadence
  UnknownHold, \* memory.unknown_hold_days
  Retain,      \* memory.retain.fetched_days
  Tables,      \* the rows the warehouse may start with
  Command,     \* the commands of a behaviour, each run once
  AtOnce,      \* how many commands and sweeps run beside each other
  MaxTime,     \* bound: the clock stops here
  MaxChanges   \* bound: changes of rows, policies, grants, and failed sweeps

Times == 0 .. MaxTime
Column == [Rel -> Node \cup {Null}]

ASSUME ShapeAssumption ==
  /\ Null \notin Node
  /\ Label \in [Node -> Labels]
  /\ Start \in [Rel -> Labels] /\ End \in [Rel -> Labels]
  /\ Used \subseteq Rel
  /\ Policied \subseteq Labels /\ Frozen \subseteq Labels
  /\ \A r \in Reader : Grants[r] \subseteq SUBSET (Labels \cup Rel)

ASSUME TimeAssumption ==
  /\ MaxTime \in Nat /\ MaxChanges \in Nat /\ AtOnce \in Nat
  /\ Hold \in [Labels -> Nat \ {0}] /\ UnknownHold \in Nat \ {0}
  /\ Retain \in Nat /\ Cap \in Nat
  /\ Since \in [Times -> Nat] /\ Day \in [Node -> Nat]

\* A row has a value only in its own table's columns, a node of the column's end
ASSUME TablesAssumption ==
  \A w \in Tables :
    /\ w \in [Node -> Column]
    /\ \A n \in Node, t \in Rel : w[n][t] # Null =>
         Start[t] = Label[n] /\ Label[w[n][t]] = End[t]

VARIABLES
  wh,      \* the warehouse: each row's columns
  admits,  \* the row policies: the policied nodes each reader is let see
  revoked, \* history: when a reader last lost a policied node
  grant,   \* what each reader's allowlist says (entitle.py, cached there)
  now,     \* the clock
  changes, \* how many changes the environment made (bounded)
  mem,     \* the remembered nodes, each with its columns and its stamp
  rels,    \* the relationships memory derived, <<start, type, end>>
  step,    \* the recall Steps, by the command that left each
  job,     \* the commands running
  sweep,   \* the retention sweep
  lost     \* history: of the rows each fetch left, those swept or stamped back since

world == <<wh, admits, revoked, grant, now, changes>>
vars == <<world, mem, rels, step, job, sweep, lost>>

-----------------------------------------------------------------------------
(* The model and the template, as a grant restricts them *)

\* entitle.model: the relationships between two readable tables, on a readable
\* column
Model(g) == {t \in Rel : {t, Start[t], End[t]} \subseteq g}

\* The properties memory keeps: the columns the model's relationships are, and
\* those the log uses, though the reader may not read the table they point at
Kept(g) == Model(g) \cup {t \in Used : {t, Start[t]} \subseteq g}

Out(l, g) == {t \in Model(g) : Start[t] = l}
In(l, g) == {t \in Model(g) : End[t] = l /\ Start[t] # l}
Frontier(l, g) == {End[t] : t \in Out(l, g)} \cup {Start[t] : t \in In(l, g)}
Dimensions(l, g) ==
  {t \in Model(g) \ (Out(l, g) \cup In(l, g)) : Start[t] \in Frontier(l, g)}

LastHop(l, g) ==
  IF Dimensions(l, g) # {} THEN 2 ELSE IF Frontier(l, g) # {} THEN 1 ELSE 0

\* What a context was fetched with: its reads, and the columns of what they read
Digest(l, g) ==
  LET reached == {l} \cup Frontier(l, g) \cup {End[t] : t \in Dimensions(l, g)}
  IN  [out |-> Out(l, g), in |-> In(l, g), dims |-> Dimensions(l, g),
       cols |-> {t \in Kept(g) : Start[t] \in reached}]

-----------------------------------------------------------------------------
(* Freshness, and what of memory a reader may see *)

Holds(n, time) == Label[n] \in Frozen \/ time < mem[n].at + Hold[Label[n]]

\* Until when a reader's own read of a policied node lets them see it: as long as
\* the fact; a frozen table's, as long as an unknown cadence's
SeenHold(l) == IF l \in Frozen THEN UnknownHold ELSE Hold[l]

Fetched(c) == step[c].origin = "virtual graph"

SeenByAnyone(r, n, time) ==   \* mutant of Seen: whoever the step's owner is
  \E c \in DOMAIN step : /\ Fetched(c)
                         /\ n \in step[c].read
                         /\ time < step[c].at + SeenHold(Label[n])

Seen(r, n, time) ==
  \E c \in DOMAIN step : /\ step[c].by = r /\ Fetched(c)
                         /\ n \in step[c].read
                         /\ time < step[c].at + SeenHold(Label[n])

Guard(r, n, time) ==
  /\ n \in DOMAIN mem
  /\ Holds(n, time)
  /\ Label[n] \in Policied => Seen(r, n, time)

ContextHoldsLongest(c, time) ==   \* mutant of ContextHolds: the last, not the first
  \E n \in step[c].got :
    Label[n] \in Frozen \/ time < step[c].at + Hold[Label[n]]

\* context_until, the first fact of the context to expire; none when all are frozen
ContextHolds(c, time) ==
  \A n \in step[c].got :
    Label[n] \in Frozen \/ time < step[c].at + Hold[Label[n]]

\* FRESH: the reader's own fetch of this anchor with this template still holds
Fresh(r, a, template, time) ==
  {c \in DOMAIN step : /\ step[c].by = r /\ step[c].template = template
                       /\ Fetched(c)
                       /\ step[c].anchor = a /\ a \in step[c].read
                       /\ step[c].at =< time /\ ContextHolds(c, time)}

-----------------------------------------------------------------------------
(* One hop's reads, the same for either target (cypher, run_batch) *)

\* A row as a command reads it: the columns its model keeps, as they are at its
\* target; asOf is history, when the warehouse held each of these values
Row(j, n) ==
  IF j.origin = "memory"
    THEN [val |-> [t \in Rel |-> IF t \in Kept(j.grant) THEN mem[n].val[t]
                                                        ELSE Null],
          asOf |-> mem[n].asOf, at |-> mem[n].at]
    ELSE [val |-> [t \in Rel |-> IF t \in Kept(j.grant) THEN wh[n][t] ELSE Null],
          asOf |-> [t \in Rel |-> IF t \in Kept(j.grant) /\ Start[t] = Label[n]
                                     THEN now ELSE 0],
          at |-> j.at]

\* Whether the target returns the row to this reader
Shows(j, n) ==
  IF j.origin = "memory"
    THEN Guard(j.by, n, j.at)
    ELSE Label[n] \in Policied => n \in admits[j.by]

\* The many side: the rows that point at the anchor, in the window; the most
\* recent of them are the context's, and the read is capped if there are more
Facts(j, t) ==
  {n \in Node : /\ Label[n] = Start[t] /\ Shows(j, n)
                /\ Row(j, n).val[t] = j.anchor
                /\ Day[n] >= Since[j.at]}
Newest(S) == {n \in S : Cardinality({m \in S : Day[m] > Day[n]}) < Cap}
Capped(j) ==
  IF j.hop = 1 /\ j.origin = "virtual graph"
    THEN {t \in In(Label[j.anchor], j.grant) : Cardinality(Facts(j, t)) > Cap}
    ELSE j.capped

\* The to-one ends the rows fetched so far point at
Ends(j, types) ==
  {j.rows[n].val[t] : n \in DOMAIN j.rows, t \in types} \ {Null}

\* The anchor; the nodes each relationship touching it reaches; the dimensions
Asked(j) ==
  LET l == Label[j.anchor] IN
  IF j.hop = 0 THEN {j.anchor}
  ELSE IF j.hop = 1 THEN Ends(j, Out(l, j.grant)) \cup
                           UNION {Newest(Facts(j, t)) : t \in In(l, j.grant)}
  ELSE Ends(j, Dimensions(l, j.grant))

Reached(j) == {n \in Asked(j) : Shows(j, n)}

-----------------------------------------------------------------------------
NoRows == [n \in {} |-> Null]

Idle(pc) == [pc |-> pc, by |-> Null, anchor |-> Null, grant |-> {}, at |-> 0,
             origin |-> Null, hop |-> 0, rows |-> NoRows, capped |-> {},
             source |-> Null]

Running(c) == job[c].pc \notin {"new", "done"}
Busy == Cardinality({c \in Command : Running(c)})
          + (IF sweep.pc = "idle" THEN 0 ELSE 1)

Init ==
  /\ wh \in Tables
  /\ admits \in [Reader -> SUBSET {n \in Node : Label[n] \in Policied}]
  /\ revoked = [r \in Reader |-> [n \in Node |-> 0]]
  /\ grant \in {g \in [Reader -> UNION {Grants[r] : r \in Reader}] :
                  \A r \in Reader : g[r] \in Grants[r]}
  /\ now = 0 /\ changes = 0
  /\ mem = NoRows /\ rels = {} /\ step = [c \in {} |-> Null]
  /\ job = [c \in Command |-> Idle("new")]
  /\ sweep = [pc |-> "idle", matched |-> {}]
  /\ lost = [c \in Command |-> {}]

\* recall or remember (force): the command takes its time and its model first
Begin(c) ==
  /\ job[c].pc = "new" /\ Busy < AtOnce
  /\ \E r \in Reader, a \in Node, force \in BOOLEAN :
       /\ Label[a] \in grant[r]
       /\ job' = [job EXCEPT ![c] =
                   [Idle(IF force THEN "read" ELSE "look") EXCEPT
                      !.by = r, !.anchor = a, !.grant = grant[r], !.at = now,
                      !.origin = IF force THEN "virtual graph" ELSE Null]]
  /\ UNCHANGED <<world, mem, rels, step, sweep, lost>>

\* recall_batch: from memory if a context of the reader's is fresh, the latest,
\* else from the virtual graph
Look(c) ==
  LET j == job[c]
      fresh == Fresh(j.by, j.anchor, Digest(Label[j.anchor], j.grant), j.at) IN
  /\ j.pc = "look"
  /\ \/ /\ fresh = {}
        /\ job' = [job EXCEPT ![c] =
                     [j EXCEPT !.pc = "read", !.origin = "virtual graph"]]
     \/ \E f \in fresh :
          /\ \A o \in fresh : step[o].at =< step[f].at
          /\ job' = [job EXCEPT ![c] =
                       [j EXCEPT !.pc = "read", !.origin = "memory",
                                 !.source = f, !.capped = step[f].capped]]
  /\ UNCHANGED <<world, mem, rels, step, sweep, lost>>

NeverEmpty(rows) == FALSE   \* mutant of Empty: a missing anchor is saved

\* The anchor's own read gates the context
Empty(rows) == DOMAIN rows = {}

\* run_batch, a hop: its reads at one instant.  A node read before keeps its row.
\* An anchor that is not there, or that the reader may not see, ends the command
Hop(c) ==
  LET j == job[c]
      rows == [n \in DOMAIN j.rows \cup Reached(j) |->
                 IF n \in DOMAIN j.rows THEN j.rows[n] ELSE Row(j, n)] IN
  /\ j.pc = "read"
  /\ IF Empty(rows)
       THEN job' = [job EXCEPT ![c] = Idle("done")]
       ELSE job' = [job EXCEPT ![c] =
              IF j.hop = LastHop(Label[j.anchor], j.grant)
                THEN [j EXCEPT !.rows = rows, !.capped = Capped(j), !.pc = "save"]
                ELSE [j EXCEPT !.rows = rows, !.capped = Capped(j),
                               !.hop = j.hop + 1]]
  /\ UNCHANGED <<world, mem, rels, step, sweep, lost>>

StepOf(j, read) ==
  [by |-> j.by, at |-> j.at, anchor |-> j.anchor, origin |-> j.origin,
   template |-> Digest(Label[j.anchor], j.grant), read |-> read,
   got |-> DOMAIN j.rows, capped |-> j.capped]

Leaves(c, s) ==
  step' = [x \in DOMAIN step \cup {c} |-> IF x = c THEN s ELSE step[x]]

\* Some fetches lose these of their rows
Loses(rows, fetches) ==
  lost' = [d \in Command |-> lost[d] \cup {n \in rows : d \in fetches /\ n \in step[d].got}]

MergedOver(j, n) ==   \* mutant of Merged: n = props, not n += props
  [val |-> j.rows[n].val, asOf |-> j.rows[n].asOf, at |-> j.rows[n].at,
   derived |-> {t \in Model(j.grant) : Label[n] \in {Start[t], End[t]}}]
MergedNow(j, n) ==   \* mutant of Merged: stamped when it is written
  [MergedOver(j, n) EXCEPT !.at = now]
MergedOnCreate(j, n) ==   \* mutant of Merged: the stamp is set ON CREATE, a fetch again leaves it
  [MergedOver(j, n) EXCEPT !.at = IF n \in DOMAIN mem THEN mem[n].at ELSE @]

\* What n += props leaves of a node: the columns this reader's model keeps, and
\* what was there of the others.  derived is history: the types whose
\* relationships a write of this copy derived since it last set their column
Merged(j, n) ==
  LET row == j.rows[n]
      old == IF n \in DOMAIN mem THEN mem[n]
             ELSE [val |-> [t \in Rel |-> Null], asOf |-> [t \in Rel |-> 0],
                   at |-> 0, derived |-> {}]
  IN  [val |-> [t \in Rel |-> IF t \in Kept(j.grant) THEN row.val[t]
                                                     ELSE old.val[t]],
       asOf |-> [t \in Rel |-> IF t \in Kept(j.grant) THEN row.asOf[t]
                                                      ELSE old.asOf[t]],
       at |-> row.at,
       derived |->
         {t \in old.derived : Start[t] = Label[n] => t \notin Kept(j.grant)}
           \cup {t \in Model(j.grant) : Label[n] \in {Start[t], End[t]}}]

\* OUT_OF and INTO: of each type of the model, a written start's relationships are
\* replaced from its column, and a written end gains those of the starts remembered
NoneReplaced(j) == {}   \* mutant of Replaced: the old relationship stays
Replaced(j) == {e \in rels : e[1] \in DOMAIN j.rows /\ e[2] \in Model(j.grant)}
Derived(j, m) ==
  {e \in (DOMAIN m) \X Model(j.grant) \X (DOMAIN m) :
     /\ m[e[1]].val[e[2]] = e[3]
     /\ e[1] \in DOMAIN j.rows \/ e[3] \in DOMAIN j.rows}

\* write: the context into memory and the recall's Step, in one transaction
Remember(c) ==
  LET j == job[c]
      m == [n \in DOMAIN mem \cup DOMAIN j.rows |->
              IF n \in DOMAIN j.rows THEN Merged(j, n) ELSE mem[n]] IN
  /\ j.pc = "save" /\ j.origin = "virtual graph"
  /\ mem' = m
  /\ rels' = (rels \ Replaced(j)) \cup Derived(j, m)
  /\ Leaves(c, StepOf(j, {j.anchor} \cup
                         {n \in DOMAIN j.rows : Label[n] \in Policied}))
  /\ job' = [job EXCEPT ![c] = Idle("done")]
  /\ Loses(DOMAIN j.rows, {d \in DOMAIN step : step[d].at > j.at})
  /\ UNCHANGED <<world, sweep>>

\* record: a read of memory leaves its Step too, on the anchor if it is still there
Record(c) ==
  LET j == job[c] IN
  /\ j.pc = "save" /\ j.origin = "memory"
  /\ Leaves(c, StepOf(j, {j.anchor} \cap DOMAIN mem))
  /\ job' = [job EXCEPT ![c] = Idle("done")]
  /\ UNCHANGED <<world, mem, rels, sweep, lost>>

\* A command that dies: its process killed, its read refused
Kill(c) ==
  /\ Running(c)
  /\ job' = [job EXCEPT ![c] = Idle("done")]
  /\ UNCHANGED <<world, mem, rels, step, sweep, lost>>

-----------------------------------------------------------------------------
(* The sweep: one match, then its deletions in batches of their own *)

ExpiredAndStale ==   \* mutant of Expired: only what no longer holds
  {n \in DOMAIN mem : mem[n].at + Retain < now /\ ~Holds(n, now)}
Expired == {n \in DOMAIN mem : mem[n].at + Retain < now}

DetachedOut(batch) ==   \* mutant of Detached: DELETE, of what goes out only
  {e \in rels : e[1] \notin batch}
Detached(batch) == {e \in rels : e[1] \notin batch /\ e[3] \notin batch}

SweepMatch ==
  /\ sweep.pc = "idle" /\ Busy < AtOnce
  /\ Expired # {}
  /\ sweep' = [pc |-> "delete", matched |-> Expired]
  /\ UNCHANGED <<world, mem, rels, step, job, lost>>

\* DETACH DELETE: a node's relationships go with it, and the READs of it
SweepDelete ==
  /\ sweep.pc = "delete"
  /\ \E batch \in (SUBSET sweep.matched) \ {{}} :
       /\ mem' = [n \in DOMAIN mem \ batch |-> mem[n]]
       /\ rels' = Detached(batch)
       /\ step' = [c \in DOMAIN step |->
                     [step[c] EXCEPT !.read = step[c].read \ batch]]
       /\ sweep' = IF batch = sweep.matched
                     THEN [pc |-> "idle", matched |-> {}]
                     ELSE [sweep EXCEPT !.matched = sweep.matched \ batch]
       /\ Loses(batch, DOMAIN step)
  /\ UNCHANGED <<world, job>>

\* A batch fails, or the sweep's process dies: the batches before it stay
SweepFail ==
  /\ sweep.pc = "delete" /\ changes < MaxChanges
  /\ sweep' = [pc |-> "idle", matched |-> {}]
  /\ changes' = changes + 1
  /\ UNCHANGED <<wh, admits, revoked, grant, now, mem, rels, step, job, lost>>

-----------------------------------------------------------------------------
(* The world: the clock, the warehouse's rows, its row policies, its grants *)

Tick ==
  /\ now < MaxTime
  /\ now' = now + 1
  /\ UNCHANGED <<wh, admits, revoked, grant, changes, mem, rels, step, job, sweep, lost>>

Change == changes < MaxChanges /\ changes' = changes + 1

WarehouseWrite ==
  /\ Change
  /\ \E n \in Node, t \in Rel, v \in Node \cup {Null} :
       /\ Label[n] = Start[t] /\ Label[n] \notin Frozen
       /\ v # Null => Label[v] = End[t]
       /\ v # wh[n][t]
       /\ wh' = [wh EXCEPT ![n][t] = v]
  /\ UNCHANGED <<admits, revoked, grant, now, mem, rels, step, job, sweep, lost>>

Admit ==
  /\ Change
  /\ \E r \in Reader, n \in Node :
       /\ Label[n] \in Policied /\ n \notin admits[r]
       /\ admits' = [admits EXCEPT ![r] = admits[r] \cup {n}]
  /\ UNCHANGED <<wh, revoked, grant, now, mem, rels, step, job, sweep, lost>>

Revoke ==
  /\ Change
  /\ \E r \in Reader, n \in Node :
       /\ n \in admits[r]
       /\ admits' = [admits EXCEPT ![r] = admits[r] \ {n}]
       /\ revoked' = [revoked EXCEPT ![r][n] = now]
  /\ UNCHANGED <<wh, grant, now, mem, rels, step, job, sweep, lost>>

Regrant ==
  /\ Change
  /\ \E r \in Reader : \E g \in Grants[r] :
       g # grant[r] /\ grant' = [grant EXCEPT ![r] = g]
  /\ UNCHANGED <<wh, admits, revoked, now, mem, rels, step, job, sweep, lost>>

-----------------------------------------------------------------------------
Recall(c) == Begin(c) \/ Look(c) \/ Hop(c) \/ Remember(c) \/ Record(c) \/ Kill(c)
Sweep == SweepMatch \/ SweepDelete \/ SweepFail
World == Tick \/ WarehouseWrite \/ Admit \/ Revoke \/ Regrant

Next == (\E c \in Command : Recall(c)) \/ Sweep \/ World

Spec == Init /\ [][Next]_vars

\* The sweep is fired by a schedule, so it is never left out for ever; a command
\* that began goes on
Fairness ==
  /\ WF_vars(SweepMatch) /\ WF_vars(SweepDelete)
  /\ \A c \in Command :
       WF_vars(Look(c) \/ Hop(c) \/ Remember(c) \/ Record(c))

FairSpec == Spec /\ Fairness
-----------------------------------------------------------------------------
(* What memory promises *)

Copied == [val : Column, asOf : [Rel -> Nat], at : Nat]
Remembered == [val : Column, asOf : [Rel -> Nat], at : Nat,
               derived : SUBSET Rel]
Templates == [out : SUBSET Rel, in : SUBSET Rel, dims : SUBSET Rel,
              cols : SUBSET Rel]

\* f holds a T for each of some of the nodes
PartialOn(f, S, T) == DOMAIN f \subseteq S /\ \A x \in DOMAIN f : f[x] \in T

JobWith(nodes) ==
  [pc : {"new", "look", "read", "save", "done"}, by : Reader \cup {Null},
   anchor : Node \cup {Null}, grant : SUBSET (Labels \cup Rel), at : Times,
   origin : {"memory", "virtual graph", Null}, hop : 0 .. 2,
   rows : [nodes -> Copied], capped : SUBSET Rel, source : Command \cup {Null}]

\* A command that runs knows its reader and its anchor; one that reads, its target;
\* and one with a context to save holds the anchor's row
JobOk(j) ==
  /\ j.pc \in {"look", "read", "save"} =>
       j.by \in Reader /\ j.anchor \in Node /\ j.at =< now
  /\ j.pc \in {"read", "save"} => j.origin \in {"memory", "virtual graph"}
  /\ j.pc = "look" => j.hop = 0
  /\ j.pc = "read" => j.hop =< LastHop(Label[j.anchor], j.grant)
  /\ j.pc \in {"look", "read"} /\ j.hop = 0 => DOMAIN j.rows = {}
  /\ j.pc = "read" /\ j.hop # 0 => j.anchor \in DOMAIN j.rows
  /\ j.pc = "save" => j.anchor \in DOMAIN j.rows

StepType ==
  [by : Reader, at : Times, anchor : Node, template : Templates,
   origin : {"memory", "virtual graph"}, read : SUBSET Node,
   got : SUBSET Node, capped : SUBSET Rel]

WorldOk ==
  /\ wh \in [Node -> Column]
  /\ admits \in [Reader -> SUBSET Node]
  /\ revoked \in [Reader -> [Node -> Times]]
  /\ grant \in [Reader -> SUBSET (Labels \cup Rel)]
  /\ now \in Times /\ changes \in 0 .. MaxChanges
MemoryOk ==
  /\ PartialOn(mem, Node, Remembered)
  /\ rels \subseteq Node \X Rel \X Node
StepsOk ==
  /\ PartialOn(step, Command, StepType)
  /\ lost \in [Command -> SUBSET Node]
JobsOk ==
  /\ job = [c \in Command |-> job[c]]
  /\ \A c \in Command :
       /\ DOMAIN job[c].rows \subseteq Node
       /\ job[c] \in JobWith(DOMAIN job[c].rows)
       /\ JobOk(job[c])
SweepOk == sweep.pc \in {"idle", "delete"} /\ sweep.matched \subseteq Node

\* Every variable has its type, and no command goes on without what it needs
TypeOK == WorldOk /\ MemoryOk /\ StepsOk /\ JobsOk /\ SweepOk

\* Memory has a relationship of a type exactly where the start's column names the
\* end, for copies written by readers whose model has the relationship, and none
\* dangles: whatever the order in which overlapping contexts were fetched, merged,
\* swept and fetched again ("no state of its own: it holds as long as its two
\* nodes do")
RelationshipsJoin ==
  \A e \in rels : e[1] \in DOMAIN mem /\ e[3] \in DOMAIN mem
RelationshipsNamed ==
  \A e \in rels :
    Start[e[2]] = Label[e[1]] /\ e[2] \in mem[e[1]].derived =>
      mem[e[1]].val[e[2]] = e[3]
RelationshipsFound ==
  \A a, b \in DOMAIN mem : \A t \in mem[a].derived \cap mem[b].derived :
    Start[t] = Label[a] /\ mem[a].val[t] = b => <<a, t, b>> \in rels
RelationshipsMatch == RelationshipsNamed /\ RelationshipsFound
RelationshipsFollow == RelationshipsJoin /\ RelationshipsMatch

\* A command that reads memory, complete: what it shows its reader
Delivers(c) == job[c].pc = "save" /\ job[c].origin = "memory"

\* A revoked row outlives the revocation in memory no longer than its hold: what
\* memory shows of a policied table the warehouse either lets the reader see now,
\* or did within the hold, whoever else fetched the row since
RevocationBounded ==
  \A c \in Command : Delivers(c) =>
    LET j == job[c] IN
    \A n \in DOMAIN j.rows : Label[n] \in Policied =>
      n \in admits[j.by] \/ j.at < revoked[j.by][n] + SeenHold(Label[n])

\* A fact memory shows was the warehouse's within its table's write cadence: each
\* column of the row, not only the row's stamp
FactsHold ==
  \A c \in Command : Delivers(c) =>
    LET j == job[c] IN
    \A n \in DOMAIN j.rows : \A t \in Kept(j.grant) :
      Start[t] = Label[n] /\ Label[n] \notin Frozen =>
        j.at < j.rows[n].asOf[t] + Hold[Label[n]]

\* The fetches whose context FRESH would serve now
Served(c) ==
  c \in Fresh(step[c].by, step[c].anchor, step[c].template, now)

\* Of a context that is served no row is missing once a sweep is over: "a row a live
\* context still uses is as young as that context" (memory.py, retention)
ContextWhole ==
  \A c \in DOMAIN step : Served(c) /\ sweep.pc = "idle" =>
    \A n \in step[c].got : Guard(step[c].by, n, now)

\* A frozen policied row's READ runs out before the row does
ReadLasts(c, n, time) ==
  Label[n] \in Frozen \cap Policied => time < step[c].at + UnknownHold

\* What a context that is served lacks, a sweep has taken since it was fetched, or a
\* command that began earlier has stamped back: expiry, other readers' fetches, their
\* models, policies and grants, and commands that began later take nothing from it
ContextRest ==
  \A c \in DOMAIN step : Served(c) =>
    \A n \in step[c].got \ lost[c] :
      ReadLasts(c, n, now) => Guard(step[c].by, n, now)

\* As long as nothing changes in the world, a context that lost nothing is read back
\* from memory as it was fetched, node for node and value for value, but for facts the
\* window has left
ReadBack ==
  \A c \in Command : Delivers(c) /\ changes = 0 =>
    LET j == job[c]
        s == step[j.source] IN
    lost[j.source] = {} /\ (\A n \in s.got : ReadLasts(j.source, n, j.at)) =>
      /\ DOMAIN j.rows \subseteq s.got
      /\ Since[j.at] = Since[s.at] => DOMAIN j.rows = s.got
      /\ \A n \in DOMAIN j.rows : \A t \in Kept(j.grant) :
           j.rows[n].val[t] = wh[n][t]

\* A remembered row past its retention is swept, or fetched again
SweptEventually ==
  \A n \in Node :
    (n \in DOMAIN mem /\ mem[n].at + Retain < now)
      ~> (n \in DOMAIN mem => mem[n].at + Retain >= now)
=============================================================================
