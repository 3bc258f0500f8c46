--------------------------------- MODULE Ask ---------------------------------
(***************************************************************************)
(* What a command `qlsc ask` does in its process, beside others on the     *)
(* same disk: the request from the LLM's call cache or the LLM             *)
(* (src/qlsc/llm.py), the uniqueness of join columns from its cache or the *)
(* warehouse (navigate.unique_check), the compile (Compile), and by the    *)
(* router's rule the answer, from memory (Recall) or the warehouse.        *)
(* Both caches are files written in place, by processes that the server's  *)
(* timer or a visitor's leaving may kill at any step (Methods).            *)
(***************************************************************************)
EXTENDS Methods, Recall

CONSTANTS
  Starts,   \* what a behaviour may start from: rows, what was recalled, answers cached
  Worlds,   \* what the warehouse may be loaded with
  Replies,  \* the requests the LLM may answer each question with
  Absent,   \* a file that is not there,
  Empty,    \* one opened and not written yet,
  Broken    \* one that two writers left in pieces

Warehouses == [Tables -> Seq([Columns -> Nat \cup {Nil}])]
Questions == DOMAIN Replies
\* Files that json.loads fails on.
Unread == {Empty, Broken}

ASSUME AskAssumption ==
  /\ \A q \in Questions : Replies[q] \subseteq Request
  /\ Nil \notin Questions
  /\ Worlds \subseteq Warehouses
  /\ \A s \in Starts :
       /\ s.data \in Warehouses /\ s.held \subseteq Tables \X Nat
       /\ s.asks \in [Visitors -> Questions \cup {Nil}]
       /\ DOMAIN s.answers = Questions
       /\ \A q \in Questions : s.answers[q] \in Replies[q] \cup {Absent} \cup Unread

VARIABLES
  data,     \* the warehouse's rows
  answers,  \* <work>/llm_cache: each question's file
  uniques,  \* <work>/unique_cache.json
  memory,   \* what memory holds for the asker, recalled before
  work,     \* what each process is doing
  asks,     \* each visitor's question, or Nil: a bound of the model
  leave,    \* whether visitors may leave: a bound of the model
  loads     \* how often the rows may still change: a bound of the model

askVars == <<data, answers, uniques, memory, work, asks, leave, loads>>
vars == <<methodVars, askVars>>

Idle == [step |-> "none"]
Targets == {<<s.to, s.theirs>> : s \in Steps}
True(known) == {k \in DOMAIN known : known[k]}

Init ==
  /\ MethodsInit
  /\ \E s \in Starts :
       /\ data = s.data /\ memory = Remembered(s.data, s.held) /\ answers = s.answers
       /\ asks = s.asks /\ leave = s.leave /\ loads = s.loads
  /\ uniques = Absent
  /\ work = [v \in Visitors |-> Idle]

\* A write into a file opened before: over another's, unless it still is as
\* it was left.
Written(file, text) == IF file = Empty THEN {text} ELSE {text, Broken}

Step(v, from, to) ==
  /\ proc[v] = "alive" /\ work[v].step = from
  /\ work' = [work EXCEPT ![v] = to]
Ends(v) == Exit(v) /\ work' = [work EXCEPT ![v] = [step |-> "done"]]

Look(v) ==
  LET file == answers[asks[v]] IN
  /\ proc[v] = "alive" /\ work[v].step = "none"
  /\ CASE file = Absent -> Step(v, "none", [step |-> "call"]) /\ UNCHANGED methodVars
       [] file \in Unread -> Ends(v)
       [] OTHER -> Step(v, "none", [step |-> "uniques", request |-> file]) /\ UNCHANGED methodVars
  /\ UNCHANGED <<data, answers, uniques, memory, asks, leave, loads>>

\* The LLM's answer, and its file opened; or no structured answer after five
\* attempts.  While it is waited for, nothing is.
Call(v) ==
  /\ proc[v] = "alive" /\ work[v].step = "call"
  /\ \/ /\ \E r \in Replies[asks[v]] : Step(v, "call", [step |-> "save", request |-> r])
        /\ answers' = [answers EXCEPT ![asks[v]] = Empty]
        /\ UNCHANGED methodVars
     \/ Ends(v) /\ UNCHANGED answers
  /\ UNCHANGED <<data, uniques, memory, asks, leave, loads>>

Save(v) ==
  /\ Step(v, "save", [work[v] EXCEPT !.step = "uniques"])
  /\ \E f \in Written(answers[asks[v]], work[v].request) :
       answers' = [answers EXCEPT ![asks[v]] = f]
  /\ UNCHANGED <<methodVars, data, uniques, memory, asks, leave, loads>>

LoadUniques(v) ==
  /\ proc[v] = "alive" /\ work[v].step = "uniques"
  /\ IF uniques \in Unread THEN Ends(v)
     ELSE LET known == IF uniques = Absent THEN [k \in {} |-> FALSE] ELSE uniques
          IN  /\ Step(v, "uniques", [step |-> "check", request |-> work[v].request, known |-> known])
              /\ UNCHANGED methodVars
  /\ UNCHANGED <<data, answers, uniques, memory, asks, leave, loads>>

\* The columns not in its cache are asked of the warehouse, and the whole
\* cache is written again.
CheckUniques(v) ==
  LET known == work[v].known
      more == [k \in Targets |-> IF k \in DOMAIN known THEN known[k] ELSE IsUnique(data, k)]
      new == Targets \ DOMAIN known # {} IN
  /\ Step(v, "check", [step |-> IF new THEN "record" ELSE "compile", request |-> work[v].request, known |-> more])
  /\ uniques' = IF new THEN Empty ELSE uniques
  /\ UNCHANGED <<methodVars, data, answers, memory, asks, leave, loads>>

Record(v) ==
  /\ Step(v, "record", [work[v] EXCEPT !.step = "compile"])
  /\ uniques' \in Written(uniques, work[v].known)
  /\ UNCHANGED <<methodVars, data, answers, memory, asks, leave, loads>>

\* The router's rule, in order: memory, when it holds the whole answer; the
\* compiled SQL; a query written freely, for a request that doesn't fit.
Routed(blocks) ==
  IF blocks = Nil THEN "free"
  ELSE IF Len(blocks) = 1 /\ Answerable(blocks[1], memory) THEN "memory" ELSE "sql"

\* Run by the route; memory refuses a filter past an OPTIONAL MATCH.
Give(v, blocks, route) ==
  /\ IF route = "memory" /\ OnMemory(memory.rows, blocks[1]) = Nil THEN Ends(v)
     ELSE /\ Step(v, "compile", [step |-> "answered", request |-> work[v].request, known |-> work[v].known,
                                 blocks |-> blocks, route |-> route])
          /\ UNCHANGED methodVars
  /\ UNCHANGED <<data, answers, uniques, memory, asks, leave, loads>>

\* Compiled, routed and run.
Answer(v) ==
  /\ proc[v] = "alive" /\ work[v].step = "compile"
  /\ LET blocks == Plan(work[v].request, True(work[v].known)) IN Give(v, blocks, Routed(blocks))

Finish(v) ==
  /\ work[v].step = "answered" /\ Ends(v)
  /\ UNCHANGED <<data, answers, uniques, memory, asks, leave, loads>>

Process(v) ==
  \/ Look(v) \/ Call(v) \/ Save(v)
  \/ LoadUniques(v) \/ CheckUniques(v) \/ Record(v) \/ Answer(v) \/ Finish(v)

\* The warehouse is loaded: other rows.
Load ==
  /\ loads > 0 /\ loads' = loads - 1
  /\ data' \in Worlds \ {data}
  /\ UNCHANGED <<methodVars, answers, uniques, memory, work, asks, leave>>

Server(v) ==
  /\ \/ Thread(v)
     \/ Timer(v)
     \/ leave /\ Leave(v)
     \/ asks[v] # Nil /\ Arrive(v)
  /\ UNCHANGED askVars

Next == Load \/ \E v \in Visitors : Server(v) \/ Process(v)
Spec == Init /\ [][Next]_vars

\* A thread goes on, and a timer fires; the LLM or the warehouse need not
\* answer, so a process promises nothing.
Fairness ==
  \A v \in Visitors :
    /\ WF_vars(Thread(v) /\ UNCHANGED askVars)
    /\ WF_vars(Timer(v) /\ UNCHANGED askVars)
FairSpec == Spec /\ Fairness

-----------------------------------------------------------------------------
(* What is promised of the answers *)

\* The threads, the files and the processes have their types.
TypeOK ==
  /\ place \in [Visitors -> Places] /\ here \in [Visitors -> BOOLEAN]
  /\ proc \in [Visitors -> {"none", "alive", "ended"}] /\ free \in 0 .. Slots
  /\ {data, memory.rows} \subseteq Warehouses
  /\ \A q \in DOMAIN answers : answers[q] \in Replies[q] \cup {Absent} \cup Unread
  /\ uniques \in [Targets -> BOOLEAN] \cup {Absent} \cup Unread
  /\ \A v \in Visitors : work[v].step \in
       {"none", "call", "save", "uniques", "check", "record", "compile", "answered", "done"}

\* The blocks of the answers being given.
Answering(v) == proc[v] = "alive" /\ work[v].step = "answered"
Compiled(v) == IF Answering(v) /\ work[v].blocks # Nil THEN ToSet(work[v].blocks) ELSE {}
\* What was found unique, when it was, still is, where a block's joins go.
StillUnique(v, b) ==
  \A s \in ToSet(b.joins) :
    work[v].known[<<s.to, s.theirs>>] => IsUnique(data, <<s.to, s.theirs>>)
Once(rows, t) == \A e, f \in rows : e[t] = f[t] /\ e[t] # 0 => e = f

\* No join multiplies the fact's rows (compile.py:14-16): each is in the rows
\* a block aggregates once, or, past an inner join that finds it nothing, not
\* at all; and asked one measure, that repeated rows would change, whatever
\* table was made the fact, so are the measure's own: "a SUM over the customers
\* would be multiplied by their transactions" (test_compile.py:316).  As long
\* as the columns found unique are.
FactOnce(b, rows) ==
  /\ Once(rows, b.fact)
  /\ (\A s \in ToSet(b.joins) : Outer(s)) => Cardinality(rows) = Len(data[b.fact])
LoneOnce(b, rows) ==
  \A m \in ToSet(b.measures) : ~ Safe(m) /\ m.table # Nil => Once(rows, m.table)
OncePerRow ==
  \A v \in Visitors : \A b \in Compiled(v) : StillUnique(v, b) =>
    LET rows == JoinedRows(data, b)
    IN  FactOnce(b, rows) /\ (Len(work[v].request.measures) = 1 => LoneOnce(b, rows))

\* "no block silently drops a filter" (plans/2026-09-28-compiler-2.md:61), of
\* one on one table: one that a block leaves out is about another block's fact,
\* and "that block applies it" (compile.py:772).
NoPlainFilterLost == \A v \in Visitors : Compiled(v) # {} =>
  \A f \in ToSet(work[v].request.filters) :
    Cardinality(TablesOf({f})) = 1 => \E b \in Compiled(v) : f \in b.where

\* The blocks of one measure asked alone; whether a block's i-th has the values
\* it has there.
ByItself(v, m) == Plan([work[v].request EXCEPT !.measures = <<m>>], True(work[v].known))
Agrees(one, all, i) == \A k \in DOMAIN one : k \in DOMAIN all /\ all[k][i] = one[k][1]
AsAlone(b, i, alone) ==
  alone # Nil /\ alone[1].fact = b.fact => Agrees(InSql(data, alone[1]), InSql(data, b), i)

\* Per entity, a count of the rows some filter leaves is 0 of an entity it leaves
\* none of: beside another measure; alone, there is no such entity, and SQL's sum
\* of none is NULL.  Where there are groups, such a group is not there alone.
SumsSomething(b, m) ==
  (m.agg \in {"COUNT", "COUNT_DISTINCT"} /\ b.per # <<>> /\ b.dims = <<>>) => m.filters \subseteq Shared(b.measures)

\* A measure asked with others has the value it has asked alone, on its own
\* table, where no inner join drops rows: neither the other measures of its
\* block, their tables and their filters, nor the other blocks change it.
Together ==
  \A v \in Visitors : \A b \in Compiled(v) : \A i \in DOMAIN b.measures :
    LET m == b.measures[i] IN
    (m.table = b.fact /\ (\A s \in ToSet(b.joins) : Outer(s)) /\ StillUnique(v, b) /\ SumsSomething(b, m)) =>
      AsAlone(b, i, ByItself(v, m))

\* A block the two render alike: what an outer join reaches is there for
\* every key that points at it, only outer joins lead on from one, and no
\* filter is on what one reaches, but for a comparison at the first step;
\* what is summed per entity is a count, in groups: of no entities, or of
\* none with a value, SQL's sum is NULL and memory's 0.
Plain(b) ==
  LET outer == {s \in ToSet(b.joins) : Outer(s)} IN
  /\ \A s \in outer : \A i \in DOMAIN data[s.from] :
       LET k == data[s.from][i][s.mine] IN k = Nil \/ Matches(data, s, k) # {}
  /\ \A s, t \in ToSet(b.joins) : (s.to = t.from /\ s \in outer) => t \in outer
  /\ \A s \in outer, c \in b.where :
       s.to \in {Pointing(b)[r][1] : r \in ReadsOf(c)} =>
         (s.from = b.fact /\ c.op # "IS NULL")
  /\ (b.per # <<>>) => (b.dims # <<>> /\ \A m \in ToSet(b.measures) : m.agg = "COUNT")

\* The template reads each relationship once, at the hop that first reaches it:
\* what a block joins on from is not fetched at that hop or later, and the anchor
\* is joined to as it is named.
ReadOnce(b) ==
  \A c \in {d \in memory.contexts : <<d.table, d.key>> \in Entities(b)} : \A s \in Walked(b) :
    LET reads == Template(c.table)
    IN  \A x \in {y \in reads : y.rel.start = s.from /\ y.rel.col = s.mine /\ y.rel.end = s.to} :
          IF x.inward THEN \E n \in Namings(b) : n.by = x.rel
          ELSE \A y \in reads : Of(y) = s.from => y.hop < x.hop
\* Where a column joined on is a relationship's, the other's is the key of what
\* it points at: answerable does not look at it.
ByKey(b) ==
  \A s \in ToSet(b.joins), r \in Points :
    /\ (r.start = s.from /\ r.col = s.mine /\ r.end = s.to) => s.theirs = Key[s.to]
    /\ (r.start = s.to /\ r.col = s.theirs /\ r.end = s.from) => s.mine = Key[s.from]
FromMemory(v) == Answering(v) /\ work[v].route = "memory"
\* The rows recalled are the warehouse's: it was not loaded since.
StillRecalled == memory = Remembered(data, {<<c.table, c.key>> : c \in memory.contexts})
Same(rows, b) == OnMemory(rows, b) = InSql(data, b)

\* "exact, including an outer join's null group" (README.md:336-337): such a
\* block's Cypher gives on memory what its SQL gives over the same rows; and
\* answered from memory, over the rows recalled, what the warehouse gives,
\* unless it was loaded since or a context holds only some of what the block
\* joins.
SameOnMemory ==
  \A v \in Visitors : \A b \in Compiled(v) : Plain(b) /\ StillUnique(v, b) =>
    /\ Same(data, b)
    /\ FromMemory(v) /\ StillRecalled /\ ReadOnce(b) /\ ByKey(b) => Same(memory.rows, b)
\* "Whether memory holds the whole answer to a compiled question
\* (compile.Block), exactly" (memory.py:1007): also of the rest.
MemoryExact ==
  \A v \in Visitors : \A b \in Compiled(v) : FromMemory(v) /\ Plain(b) => Same(memory.rows, b)

\* Every command asked for is over in the end, its answer sent or not: no
\* thread waits for good on a slot, a process or the LLM.
Served == \A v \in Visitors : place[v] = "asked" ~> place[v] = "over"
=============================================================================
