# A verification development of qlsc

qlsc reads a warehouse's query log into a semantic layer, answers questions over it, and keeps what agents read and
learned in a *Context Memory*. This directory holds TLA+ models of the parts of it that are hard to test: state shared
by commands that run beside each other, beside retention, and beside a warehouse that changes under them; stages killed
and run again; a compiler whose answers must be right over every shape of rows; a driver that carries a reader's identity.
Every definition is translated from the Python and Java under `src/`; `PROJECT.json` maps each to its lines.

## 1. Inventory

| Component | State it keeps | Operations | Talks to | What is hard | What makes it correct |
|---|---|---|---|---|---|
| **Context Memory** (`memory.py`) | nodes (copies of warehouse rows, each with `fetched_at`, `holds_until`), derived relationships, recall Steps with their READs | `remember`, `recall` (batched), `record`, `write`, `sweep`, `dry_run` | warehouse through the virtual graph; gateway for the model; conversations | readers with different models merge into one node; commands overlap; time runs out of several things at once; the sweep deletes under recalls | what is served is within its cadence, whole, what the reader was let see, and relationships are those of the columns |
| **Conversations: knowledge** (`converse.py`) | Messages, Tasks, Facts with validity, Decisions, their chains | `say`, `close`, `learn`, `entity`, `decide`, `rate`, `outcome` | memory's nodes, skills | each call is several transactions; two conversations of one owner learn about one thing | one current fact of a predicate about a thing; nothing edited; a decision's basis is found |
| **Conversations: answers** (`converse.py`) | `ask` Steps with their answer, SAME_AS, verdicts | `ask`, `accept`, `correct` | router, memory's cadences | the same request asked beside itself, corrected beside itself, answered from memory while it is rejected | an answer given from memory holds; a rejected one is not given again |
| **Skills** (`distill.py`) | Skills with status, evidence, uses; FOLLOWED | `distill`, `measure`, `approve`, `offers`, `followed` | conversations' closed tasks | snapshot read, LLM call, then writes; approve beside retire beside distill | only approved skills are offered; an improved path replaces the old; bad ones retire |
| **Entitlement gateway** (`entitle.py`) | files of the work directory: an allowlist per principal, the signing key; whether the virtual graph enforces, once per process | `allowlist`, `enforced`, `key`, `signing`, `model`, `signed` | memory, virtual graph, pass-through | grants change under a cached list; two processes make the key or a list at once, or die over it; the virtual graph is deployed again | a list is no older than it may be; a signature is honoured; no statement runs as another |
| **JDBC pass-through** (`src/vg-passthrough`) | the key once read; of each pooled connection, the connections opened for principals; of each prepared statement, the calls held back until it runs | verify, take out the token, run as its principal | virtual graph, BigQuery | a pooled connection goes from reader to reader; parameters after the token move up; a token waits | a statement runs as the principal who signed it, with its own values |
| **Meter** (`meter.py`) | stack of open meters, shared by threads | `measure`, `aside`, `add` | warehouse, LLM | nested meters on worker threads | every cost is counted once per enclosing meter |
| **LLM and embedding caches** (`llm.py`) | files keyed by prompt | `call` with growing budgets, `embed` | router, skills | check-then-read and writes in place by several processes that may be killed | a cached answer is the one given |
| **Router** (`navigate.py`) | the uniqueness cache, a file | `route`, `answer_memory`, `answer_compiled`, `answer_routed`, `corrected` | compiler, LLM, warehouse, memory | order of routes; what is cached as unique stays so; whether memory holds the answer | a route that answers answers right |
| **Compiler** (`compile.py`) | none | `plan`, `resolve`, `render_sql`, `render_cypher` | router, virtual graph, memory | which fact, which joins, which filter in which block; outer joins on a graph | each row is counted once, no filter is lost, SQL and Cypher agree |
| **Join confidence** (`joins.py`) | none | which joins of the log are trusted | compiler | rules that look at each other's outcome | a trusted join is one of keys |
| **Process graph** (`process/*.py`) | files of the build directory; States, Actions, transitions and PART_OF of the `process` database | `annotate`, `build`, `abstract`, `outcomes`, `absorb`; `outlook` | the LLM, GDS | each statement a transaction; a stage killed and run again; an outlook beside them | counts are conserved at every level; what an outlook pools are odds |
| **Demo server** (`src/examples/fennmoor-bank/server.py`) | slots, running commands, waiting visitors | `Handler.method`, `stream`, the time limit | command line | limits, disconnects, processes that never start or never end | no more commands run than there are slots; every slot comes back |
| Log pipeline, parser, semantic layer, virtual graph model | files and the layer's database | batch stages run one after another | the layer | pure or sequential | their output |
| Page, deployment, settings, command line | none | presentation and plumbing | all | | |

How they interact. A command line process (`qlsc ask`, `remember`, `recall`, `converse`, `distill`, `process`, `memory sweep`)
is a process of its own, and so is each command the demo server runs for a visitor; their caches are files written in place; all share one Neo4j memory database, and each statement (or explicit write
transaction) is atomic there and nothing longer is. The warehouse is read through the virtual graph, whose schema is cut
to the reader by the gateway and whose row policies the warehouse applies itself; memory has to re-create what they
guarantee once a row has left the warehouse. A question is answered by the first route that holds the answer: memory,
the business's own query, the compiled SQL, free Cypher, free SQL.

The hazards the code is exposed to are listed at their lines in `PROJECT.json`.

## 2. The modules

| Module | What it is |
|---|---|
| `Memory` | the Context Memory: commands of several readers, the sweep, a warehouse that changes |
| `MCMemory` | small banks for TLC: customers, card transactions, merchants, and their readers' grants |
| `MemoryProofs` | its theorems |
| `Knowledge` | facts and decisions of conversations beside each other, over memory's nodes |
| `Register` | what `Knowledge` promises: a register per owner, predicate and thing |
| `MCKnowledge`, `KnowledgeProofs` | its instances and theorems |
| `Skills` | skills distilled, approved, followed, measured, superseded, retired |
| `SkillLife` | what `Skills` promises: the life of one skill |
| `MCSkills`, `SkillsProofs` | its instances and theorems |
| `Answers` | an ask's answer, kept, given again and rejected, in conversations beside each other |
| `MCAnswers`, `AnswersProofs` | its instances and theorems |
| `Turns` | conversations as the process graph counts them: turns, pairs, ends |
| `Process` | the process graph's five stages, statement by statement |
| `Outlook` | an outlook's four reads beside them |
| `MCProcess`, `ProcessProofs` | their instance and theorems |
| `Sums`, `SumProofs` | a sum over a set, and what holds of it: by parts, over a bijection, part by part; in `SumProofs` too, folds over sequences, sequences put together and numbers put in order |
| `Catalogue` | tables, trusted joins, routes that multiply nothing; the warehouse's rows |
| `Compile` | a request into blocks; what a block's SQL and its Cypher give |
| `Recall` | what a recalled context holds, and whether it answers a block |
| `Methods` | the demo server: a visitor's command, the slots, the time limit |
| `Ask` | what `qlsc ask` does in that command's process: it composes the four |
| `MCAsk`, `AskProofs` | its instance and theorems |
| `Passthrough` | the JDBC driver in Virtual Graph's process |
| `Gateway` | the gateway's processes before it: the composition of both |
| `MCGateway`, `GatewayProofs` | its instance and theorems |

### Memory

| In the module | In the code |
|---|---|
| `wh`, `admits`, `grant` | the warehouse's rows; its row access policies; the allowlist `entitle.model` cuts a reader's model by |
| `mem`, `rels` | the nodes a context was merged into, with `fetched_at`, and the relationships `OUT_OF` and `INTO` derived |
| `step` | the recall `Step`s with what they READ, by which FRESH finds a context again and the guard finds a reader's own read |
| `job` | a running command: its reader, model and time, taken at its start, and the rows it has read |
| `Begin`, `Look`, `Hop`, `Remember`, `Record` | `remember`/`recall`: the model and the time, `FRESH`, `run_batch` one hop at a time, `write` in one transaction, `record` |
| `SweepMatch`, `SweepDelete`, `SweepFail` | `sweep`: one match, then batches that each delete and commit |
| `Tick`, `WarehouseWrite`, `Admit`, `Revoke`, `Regrant` | what others do to the warehouse meanwhile |

A relationship type of the virtual graph is a column of its start's table, so `Rel` stands for both. What is abstracted:
only those columns are modelled; a row's existence is not (rows change, they do not appear); the concurrent reads of one
hop are one instant; a table's row policy is there or not for a whole behaviour; a grant is what the cached allowlist
says, and may change at any time; the sweep's cut-off is taken when it matches, it leaves no Step of its own in the
model, and one that matches nothing is no step. `asOf`, `derived`, `revoked` and `lost` are history variables: no guard reads
them, only `FactsHold`, `RelationshipsFollow`, `RevocationBounded`, `ContextRest` and `ReadBack` do. `lost` says of each fetch which of
its rows a sweep has deleted, or a command that began before it has stamped back, since.

### Knowledge

| In the module | In the code |
|---|---|
| `node`, `made` | the node of each thing in memory and its element id: a row swept and fetched again is another node |
| `facts`, `supersedes`, `decisions` | `Fact`s with `valid_from`/`valid_until` and ABOUT, SUPERSEDES with its `because`, `Decision`s with BASED_ON |
| `LearnBegin`, `FactWrite`, `Supersede` | `learn`: the node found, `FACT`, `SUPERSEDE`, each a transaction of its own |
| `DecideBegin`, `DecideBasis`, `DecisionWrite` | `decide`: the node found, `CURRENT_FACT`, `DECISION` |
| `Kill` | a process that dies between two of them |
| `Remember`, `Sweep` | what `Memory` does to the things: fetched (or, an Entity, merged) and swept |

Two readings of the clock never agree. Who may see what is `Memory`'s matter. Messages, mentions, ratings and outcomes
are not in the model.

### Skills

| In the module | In the code |
|---|---|
| `tasks` | the agents' tasks: the path of fingerprints each took, whether every step ran, and whether anyone called it a failure |
| `skills`, `supersedes`, `follows`, `approvals`, `retirals` | `Skill`s with status, evidence and figures; SUPERSEDES; FOLLOWED; the Facts that approval and retirement leave |
| `Close`, `Follow`, `FollowWrite`, `Rate` | the conversations: a task closed, `followed`, `FOLLOW` one skill after another, a rating or an outcome |
| `Experience`, `Existing`, `Propose`, `Supersede` | `distill`: `EXPERIENCE`, `SKILLS`, then `SKILL` and `SUPERSEDE` for each cluster |
| `MeasureSkills`, `MeasureTasks`, `Count`, `Stats`, `Retire` | `measure`: the skills, the tasks, then `FOLLOWERS`, `STATS`, `RETIRE` for each skill |
| `ApproveFind`, `Approve` | `approve`: the skill found, `APPROVE` |

A skill is its path. Leiden's clusters stand for kinds of work, and a task is near a skill of its own kind of work. Which
skills a reader may see is any subset. All tasks are of `min_steps` or more. The LLM's naming is what matters of it:
whether a new skill's name leaks what a task named, and the skill is let go. A process that dies takes no further step,
which every behaviour without fairness includes.

### Answers

| In the module | In the code |
|---|---|
| `steps` | the ask `Step`s: the request's identity (`asked`), the answer kept, `holds_until`, SAME_AS |
| `rejected` | the steps a `rejected` Fact is about |
| `job` | a `Conversation`: its task, its exchange (`last_ask`, what `last_answer` says of its precedent, `said`, `rejected`), and the ask it is at |
| `Request`, `Reply`, `Object` | `say` and `close`; what is wrong with the last answer, and VERDICT |
| `Ask`, `Correct` | `_ask` as far as REMEMBERED, for the request alone or with what was said of it |
| `Run`, `Keep`, `SameAs` | `answer_routed`; the step with KEEP; the step with SAME_AS |
| `End` | a conversation that is over, or whose process died |

A request's identity is the question and what was said since: the day, the model and the grants are the same for a
reader throughout. What the router answers is any answer, or none; of it matter when its oldest row was the warehouse's,
the earliest and the latest cadence of its tables, and whether a precedent made it. STEP, ATTACH and KEEP (or SAME_AS)
are one action, for REMEMBERED finds nothing of a step before the last of them: that a death between them leaves nothing
harmful is read from the queries, not shown. `memory.retain.audit_days` is null: the
record is not swept. `precedent` and `run` of a step and `silenced` are history variables: only `RejectedSilenced` and
`PrecedentSilenced` read them (and SAME_AS copies them).

### Turns, Process and Outlook

| In the module | In the code |
|---|---|
| `annotations`, `observations`, `outcomes`, `types` | the files the stages leave each other |
| `nodes`, `rels`, `part` | States and Actions with `count`, `ends` and the absorption's props; SELECTS and LEADS_TO with `num`; PART_OF |
| `Annotate` | `annotate`: which turns were read without a problem |
| `BuildStart`, `BuildDelete`, `BuildNodes`, `BuildRels`, `BuildRecord` | `build`: the names folded (`Fold`), the graph deleted, nodes and relationships by kind, read back, then the observations written |
| `AbstractStart`, `AbstractClear`, `Group`, `Parents`, `Transitions`, `AbstractEnd` | `abstract`: levels deleted, then `climb` level by level (parents with their sums), then `lift` |
| `OutcomesWrite`, `OutcomesTypes` | `outcomes`: two files |
| `AbsorbStart`, `AbsorbRemove`, `AbsorbNodes`, `AbsorbRels`, `AbsorbEnd` | `absorb`: props removed, then written kind by kind and level by level, then checked |
| `Kill` | a stage's process ends between two statements, or over the observations |
| `Locate`, `ReadStates`, `ReadNexts`, `ReadBase` | an outlook: the index, the States, their transitions, the base rate |

What GDS and the LLM make of the turns is chosen: the groups' names, Leiden's communities, the outcomes. `done` and
`look.sound` are history. A batch of one statement is one step. Descriptions, embeddings, contexts and an outlook's
figures beyond the counts it pools are left out.

### Catalogue, Compile, Recall, Methods and Ask

| In the module | In the code |
|---|---|
| `Steps`, `Route`, `Equivalents` | `Catalogue`: the graph of trusted joins, `route`, `equivalents` |
| `Groups`, `Placed` | `plan`: the measures into groups, in order |
| `Resolve`, `ResolveAt`, `Block`, `Applies`, `JoinsOf` | `resolve`, `resolve_at`: a group's fact and the others it may have, columns, filters, joins |
| `InSql`, `OnMemory` | what `render_sql`'s and `render_cypher`'s text gives over rows |
| `Template`, `Context` | `template`, `run_batch`: hop by hop, the window and the cap |
| `Answerable` | `answerable`: one entity, a context of it, no cap, inside the window, every table a read reaches |
| `place`, `here`, `proc`, `free` | a visitor's thread in `stream`, their connection, the command's process, `_busy` |
| `answers`, `uniques` | `<work>/llm_cache`, `<work>/unique_cache.json` |
| `Look`, `Call`, `Save` | `LLM.call`: the file looked for and read, or the LLM, or no answer; the file opened, then written |
| `LoadUniques`, `CheckUniques`, `Record` | `unique_check`: the cache read, the missing columns asked of the warehouse, the cache written |
| `Answer`, `Give`, `Finish` | `answer_routed`: memory when it holds the whole answer, the compiled SQL, else freely |
| `Timer`, `Close`, `GiveUp`, ... | `METHOD_SECONDS`, `stream`'s `finally`, `QUEUE_SECONDS` |

A condition is on one column or compares two; tables and columns are numbers in the order of their names. Left out: several
blocks combined into one result, derived measures, having, order and limit, grain, literals. `then` is SUM. All columns that joins
lead to are asked of the warehouse at once (the code asks as routes need them). The memory route's reading of the two caches
is the compiled route's. A context is one FRESH finds, of a reader whose model is everything: `Memory` says who sees what and
until when. A relationship's type is of one column. A process killed dies at once. Free answers are no answer to check.

### Passthrough and Gateway

| In the module | In the code |
|---|---|
| `jvm`, `pool`, `thread` | the driver's key in Virtual Graph's process; of each of Hikari's connections, the map of those opened for principals (`Conn.as`); a session's query and its statement |
| `Prepare`, `PrepareCheck` | a statement prepared, its calls held (`Stmt.invoke`), the key check's too |
| `Verify`, `Refuse`, `NoKey`, `RefuseUnsigned`, `RunCheck` | `materialize` as far as `Token.verify` |
| `Connect`, `RunAs`, `Fails`, `RunPlain` | `forPrincipal`; prepared there, the parameters after the token moved up, and run; a connection the warehouse refuses, closes or breaks; the plain driver |
| `More`, `PoolClose`, `Drop`, `Deploy` | a query's next statement on another connection; connections retired or lost; Virtual Graph started again, with either driver |
| `lists`, `TakeList`, `TornList`, `ReadTables`, `ReadTags`, `OpenList`, `WriteList` | `allowlist`: the file used while young, else built from tables and tags and written in place |
| `Ask` | a request of the gateway's, or a composite's query of the demo server, which is signed without an allowlist and without asking |
| `enforced`, `Probe`, `Probed`, `Known` | `enforced`: an unsigned query, once in a process's life; `signing`: nobody is signed for where it ran |
| `keyFile`, `LookForKey`, `OpenKey`, `FillKey`, `Send` | `key`, `signing`: made on first use, read at each signature |
| `Kill`, `Regrant`, `Tick` | a process dies; the warehouse's grants change; a second passes |

A key is named by its maker. A table and the tag of one column stand for a reader's grants. A process has one session. A
statement's parameters have the token first, between, or nowhere, and it is run once: binding it again is a limit
`vg-passthrough/TECH-SPEC.md:327` names. `last`, `torn` and what a query says of its
signing (`checked`, `route`) are history. The driver checks a token's expiry when it verifies it, then connects and prepares over
the network: nothing bounds when the statement runs after that, and no property says it does. The demo server's own switch
that leaves a query unsigned (`server.py:346`) is not in the model; the driver refuses such a query as it does the probe.

## 3. What is checked

Commands, conversations and distillations are symmetric, and TLC is told so where no liveness is checked. A run "at the
same time" allows as many as `AtOnce` commands, the sweep among them.

| Run | Module | Question | Properties | Result |
|---|---|---|---|---|
| `sharing` | Memory | two of three commands at a time, of two readers one of whom lacks a table, beside the sweep, while rows, grants and policies change | `TypeOK`, `RelationshipsFollow`, `RevocationBounded`, `FactsHold`, `ContextRest` | hold |
| `context` | Memory | two of three commands at a time beside sweeps under a retention shorter than every hold, in a warehouse that stands still, its merchants under a row policy, the window sliding | `ReadBack`, `ContextRest` | hold |
| `context_defaults` | Memory | the default settings' retention of six hours and hold of a day, one command or sweep at a time | `ContextWhole` | violated |
| `sweep` | Memory | a sweep fired for ever, batches failing, beside a reader whose grants change | `SweptEventually` | holds |
| `learning_beside` | Knowledge | three lessons and a decision of two owners, one whose calls overlap and one whose calls do not, each cut off anywhere, the thing swept | `TypeOK`, `OneSettled`, `PastFixed`, `Forwards`, `ImplementsRegister` | hold |
| `skills_beside` | Skills | two distillations, an approval and two tasks beside each other | `TypeOK`, `OneOfEach`, `Justified`, `Rests`, `ImplementsLife` | hold |
| `answers_given` | Answers | two conversations of one reader ask one question beside each other, three asks in all, with corrections and deaths | `TypeOK`, `GivenWithin`, `RejectedSilenced` | hold |
| `answers_precedent` | Answers | one conversation asks, asks again and corrects | `PrecedentSilenced` | violated |
| `process` | Outlook | every stage run again and killed at any statement, or once with an outlook beside it | `TypeOK`, `Upward`, `Conserved`, `RollsUp`, `Supported`, `Odds`, `FirstLevelStands` | hold |
| `question` | Ask | the requests of a small catalogue over five warehouses, those about one entity with its context remembered; commands beside each other, killed, while rows are loaded | `TypeOK`, `SlotsHeld`, `OncePerRow`, `NoPlainFilterLost`, `Together`, `SameOnMemory`, `Served` | hold |
| `question_memory` | Ask | questions about one entity, answered from memory | `MemoryExact` | violated |
| `gateway` | Gateway | two processes for two readers, through the gateway or a composite, over pooled connections; deployments, kills, regrants | `TypeOK`, `RunsAsItsReader`, `ValuesKept`, `Honoured`, `ListsAge` | hold |

`FactsHold` is of readers who read the same of each table they read; `ContextRest` of the rows a context has not lost, and, like `ReadBack`, of a
frozen policied row while its READ lasts (`ReadLasts`); `ReadBack` of contexts that lost nothing, before the warehouse changes; `Forwards` and `ImplementsRegister` of the owner whose calls are one at a time
(`Serial`); `OncePerRow` of columns as unique as they were found; `SameOnMemory` of the blocks `Plain` describes, past columns
as unique as they were found, and on memory of joins that start at what one hop fetched (`ReadOnce`) and meet a relationship at its key
(`ByKey`: every block of the run), from a warehouse not loaded again since (`StillRecalled`); `Together` of measures on their block's own table, past outer joins, but for sums of nothing
(`SumsSomething`); `RunsAsItsReader` but for a plain driver when the process that asks had found an earlier Virtual Graph to refuse, or the query is a composite's. Section 4 says what
happens beyond each.

**Bounds, and why they are enough.** Every hazard in `Memory` is between two commands, or a command and the sweep, that
share one row or the two ends of one relationship, so two transactions and two merchants (or a customer and a
transaction) with one column between them carry it, and a third command is there to read what the two left. Two ticks
let a hold of one expire and what follows be seen, and let a retention of none, or of one, end before a hold of two or three, so that rows of a served context
are swept (`context`); `context_defaults` counts its ticks in quarters of a day; `MaxChanges` of one lets the world change at the worst moment, which TLC finds. `Cap` of one
with two transactions makes the capped read happen. In `Knowledge` two lessons race and the third meets what they left;
`MaxNodes` of two is a thing that was swept and fetched again. In `Skills` two paths of one kind of work are the better and the
worse, two tasks are enough to support one, follow it and fail it with `MinSupport` of one, and two distillations are the
one that read and the one that wrote meanwhile. `skills_beside` has one approver: two that approve the same skill are left to
the theorem `SkillsDecidedOnce`, which is of any number. In `Answers` a rejection must be carried from the conversation
that was given an answer again to the one that made it: that takes an ask each and one more, three, of one question by one
reader, and a second task to correct in once the reply has closed the first. Two ticks and a cadence of two let an answer of memory's,
one old when it is kept, be given at the last moment it holds; more cadences at once are the theorem `GivenInTime`'s.

In `process` two conversations share elements, fold two names, have two turns of one kind in a row and one problem turn, and
may make two levels of Actions; each stage runs twice, so that it meets what it, killed, left of every kind, and the absorption
once; or everything once, the absorption twice, with an outlook that reads between any two statements. In `question` four
tables (merchants, customers, transactions, calls) have the joins that matter: outer and inner, two in a row, two ways from
one table, and two tables with none between; the five warehouses have NULL references and values, references that lead
nowhere, a key twice, and one row per key. Of eight measures, four groupings and six filters, every request of at most one
measure is compiled over each of the five, and every one of two over three (plain rows, NULLs, a key twice), with a count per customer beside the same of the large transactions; 300 more
requests are about one customer or merchant, with three contexts remembered, `Cap` and `MemoryHops` at 1 and 2 and a window that
leaves calls out. Two commands while the warehouse is loaded once, and three with two
slots and a file a killed command left, are the interleavings. In `gateway` each start has the budget of its story: pooled
connections used again, opened and closed between a verification and a run, a composite's query, a token that waits past `TokenSeconds`, deployments of either driver, a key and a list made by two
processes or half made. All these budgets are bounds of the model; `left`, `asks`, `leave` and `loads` hold them.

**Fairness.** `SweptEventually` and `Served` need some. The sweep is a Cloud Run job fired every hour
(`src/deploy/gcp/terraform/modules/runtime/run.tf:125-200`; on a developer's machine, each time the stack is brought up,
`src/scripts/stack:85-87`), so it is not left out for ever: weak fairness of `SweepMatch` and, once it has matched, of
`SweepDelete`. A command that has begun goes on or dies: weak fairness of its steps taken together. The clock, the
warehouse and the users owe nothing. In `Served` the server's threads go on (`Thread`) and its timers fire (`Timer`); a command's
process owes nothing, for the LLM or the warehouse may never answer it, and a slot is waited for no longer than `QUEUE_SECONDS`.

**Where it stops.** The runs turn deadlock checking off: each command, call, stage and distillation of a behaviour is run a
bounded number of times and the clock has a last tick, so every behaviour does come to an end.

## 4. What the runs found

Three properties quoted from the repository's own words do not hold of the code (`PROJECT.json`, "findings"):

1. *A precedent that is not silenced* (`answers_precedent`). What is kept of an answer does not say which precedent made it.
   Ask, ask the same again, correct, as `demo.py` does: the precedent just rejected is offered again.
2. *Memory takes a question it cannot answer* (`question_memory`). The template reads each relationship once, at the hop that
   first reaches it. A table reached at one hop and again at the next has its own dimensions fetched for the first's rows only,
   yet `answerable` asks only that some read of them exists. A customer's calls by the merchant of the transaction each is about:
   those about a transaction that is another's, older than the window or past the cap come out under no merchant.

3. *A context served in part* (`context_defaults`). The sweep deletes by each row's own stamp, FRESH asks only for the anchor's READ. With
   rows retained for six hours and contexts that hold for a day, a row that no later fetch re-stamped goes while the anchor, re-stamped by
   another context, stays: the first context is served without it until its hold ends, where `memory.py:63-64` has it that "a row a live
   context still uses is as young as that context". Overlapping commands can do the same (`memory.py:676`): one that began earlier and writes
   later stamps a shared row back.

Others shaped the models, and are what their properties' exceptions are:

- *A torn row* (`memory.py:134`): `n += r.props` leaves the columns a reader's model lacks as they were, under a new stamp.
- *A lost lesson* (`converse.py:453`): two lessons of one owner, each written before either supersedes, close each other.
- *A path that is best again* (`distill.py:68`): its skill is merged while retired, stays retired, and supersedes the one in use.
- *A filter lost* (`compile.py:782`): a filter that compares columns of two blocks' facts is left by each to the other, against
  "no block silently drops a filter" (`plans/2026-09-28-compiler-2.md:61`).
- *A measure multiplied* (`compile.py:626`): a count of rows and a sum over customers, in that order, are one block over the
  transactions, though `tests/test_compile.py:316` says of a sum alone that it "would be multiplied".
- *A sum of nothing* (`compile.py:862`): per customer, a count of the transactions over an amount none reaches is NULL when asked
  alone (the inner query has no rows to sum) and 0 beside the count of all of them. No run had asked the two together: the
  proof of `Together` stopped there. The case is now in the run, and in the property as `SumsSomething`.
- *SQL and memory differ* beyond `Plain`: a reference to nothing groups by itself on memory, where SQL's joined column is NULL
  (`compile.py:942`); DISTINCT, MIN and MAX moved to a finer fact lose rows nothing points at; null groups of two blocks do not
  meet in `FULL JOIN ... USING` (893); a sum per entity of nothing is 0 on memory (1000) where SQL's is NULL; a filter past an
  OPTIONAL MATCH is a query Neo4j refuses (980), and which tables are filtered on is told by substring (973).
- *A join only SQL walks* (`compile.py:968`): a dimension read at the pointing end leaves its outer join out of the Cypher and in the
  SQL. Loaded with a key twice after it was found unique, the SQL repeats the fact's rows and the Cypher does not. The proof of
  `MemoryAnswersAsSql` needed `StillUnique`; no request of the run had shown it. Spend by customer while rows are loaded now does, and the
  property has the condition.
- *A join taken for a relationship* (`memory.py:1101-1118`): `answerable` finds a join's relationship by the column that points, and never
  looks whether the other column is the key it points at. `compile.relationship` does (1016-1028), of the joins a Cypher walks; through an outer
  join that nothing is read across, a table could count as covered by rows of no relationship. The proof stopped there: `ByKey` is the
  condition, and no catalogue of the runs has such a join.
- *Enforced once* (`entitle.py:262`): Virtual Graph deployed again with the plain driver is still taken to enforce by the
  processes that asked before, where 23-24 says it "fails closed".

What the sweep and an overlapping command take from a context is all that it lacks: that is `ContextRest`, which holds of every
retention. A sweep also detaches facts and decisions from a node that a recall makes again as a new one, so nothing in `Knowledge` says
what was learned of a swept thing is found again.

Hazards the models contain and no property excludes, because the code does it and no document says otherwise: a decision about a node swept in
between, which writes nothing and is told as made (`converse.py:449`); a cache torn by a killed command, which fails every later one (`navigate.py:456`); a
column that is no longer as unique as it was found (`navigate.py:454`), a condition of the properties about rows.

## 5. What is proved

By `tlapm`, for every value of the constants that the named assumptions allow (`ShapeAssumption`, `TimeAssumption` and
`TablesAssumption` of `Memory`; `KnowledgeAssumption`; `AnswersAssumption`; `SkillsAssumption`, which says among others that there are
finitely many tasks; `TurnsAssumption`, `ProcessAssumption` and `OutlookAssumption`; `CatalogueAssumption`, `RecallAssumption`,
`MethodsAssumption` and `AskAssumption`; `PassthroughAssumption` and `GatewayAssumption`). TLC evaluates each of them. Some say more
than a type. `ProcessAssumption` has finitely many types of outcome, and a Nil that is no number (a count is never taken for an unset one).
`RecallAssumption` has a Nil that is no relationship (an entity named by its key is not named by one).
`PassthroughAssumption` has a token once among a statement's parameters and each parameter bound before the run, as Virtual
Graph's own statements are. `AskAssumption` has the LLM answer with requests whose names `compile` has resolved in the catalogue: of
others it raises `Unfit` before anything modelled happens.

Two theorems of `Memory` have hypotheses of their own: `FactsAreHeld` that who reads a table reads the same of its columns
(`TablesReadAlike`, else a torn row); `ContextsReadBack` that there are finitely many rows and that the window only slides on
(`WindowSlides`). Neither limits the commands beside each other, the sweep, the holds or the retention.

| Theorem | Property | Inductive invariant, and why it needs one |
|---|---|---|
| `MemoryProofs!TypeCorrect` | `TypeOK` | inductive as it stands: `JobOk` keeps what a command's next step needs |
| `RelationshipsFollowed` | `RelationshipsFollow` | `RelationshipsInv`, its parts and `TypeOK` together: what a write derives is right only because what was there already was |
| `FactsAreHeld` | `FactsHold` | `HeldInv`: each value in memory, and in a command's hands, was the warehouse's within its cadence of the node's stamp; a merge that stamps a column its writer did not read is what `TablesReadAlike` excludes |
| `ServedRestIsWhole` | `ContextRest` | `RestInv`: of every fetch, each row it has not lost is in memory, no older than the fetch, with its reader's READ if it is policied; what a sweep has matched may meanwhile be young again, and is lost all the same |
| `ContextsReadBack` | `ReadBack` | `BackInv`: before the world changes, memory has no value but the warehouse's (`MemoryTrue`), a fetch got what its reader's template reads (`FetchesAre`), what it has not lost has its reader's columns (`ContextTrue`), and each running command has read, hop by hop, what the warehouse or its source has (`JobsBack`) |
| `RevocationIsBounded` | `RevocationBounded` | `RevocationInv`: every step, and every running command, has read a policied row only while it was admitted, or before the revocation it now bounds |
| `KnowledgeProofs!TypeCorrect` | `TypeOK` | inductive as it stands |
| `SettledOnce` | `OneSettled` | `SettledInv` adds `Written`: a call that is about to supersede has written its fact |
| `PastIsFixed` | `PastFixed` | `PastInv` adds `Undecided`: no call writes over what another, or itself, has written |
| `TimeGoesForwards` | `Forwards` | `ToldInv` adds `Alone`, `Told`, `Newest`, `Replaced`: an owner's calls one at a time, each lesson told later than all the owner's facts, each fact closed no later than its successor was told |
| `KnowledgeImplementsRegister` | `ImplementsRegister` | the same with `Placed` and `Based`: whom a call's node is of, and that a decision being made rests on the latest fact still; each step is one of the register's or a stutter |
| `SkillsProofs!TypeCorrect` | `TypeOK` | inductive as it stands: `RunOk` keeps what a distillation read in memory, where nothing is deleted |
| `SkillsImplementLife` | `ImplementsLife` | a step moves at most one skill's status, and along its life; a lemma for each action that moves one (`Moves`) or none (`Quiet`) |
| `SkillsDecidedOnce` | `OneOfEach` | `OnceInv`: the same said of every path, of Facts of skills not yet proposed too |
| `RetiredWithCause` | `Justified` | `JustInv` adds `Measuring`: what a measurement has counted so far was followed, and failed, and stays so: followers and failures only grow |
| `SkillsRest` | `Rests` | `RestsInv`: what a distillation plans already rests on tasks whose paths are fixed once they are closed; a best path of a supported cluster is one a success took (`BestIsTaken`) |
| `AnswersProofs!TypeCorrect` | `TypeOK` | inductive as it stands: `JobOk` keeps what an ask's next step needs |
| `RejectionSilences` | `RejectedSilenced` | `SilenceInv`: an answer given again is one step away from the step that made it (`Traced`, `HitsFirst`), so a rejection of either is seen; a conversation's asks are numbered once (`Numbered`) |
| `GivenInTime` | `GivenWithin` | `GivenInv`: what an ask has drawn was true when it was asked (`Drawn`), and what is kept is within its bound whenever it holds (`KeptWithin`) |
| `PartOfLeadsUp`, `FirstLevelKept` | `Upward`, `FirstLevelStands` | `GraphInv`: nothing at a level the running stage has yet to make, a level's parents of the tops below it, relationships only between elements that are there |
| `ProcessTyped` | `TypeOK` of `Process` | by `TurnsKept`: `GraphInv`, `TurnsInv` and `LookInv` together. Of them `FilesInv` (what a stage reads is there while it runs), `NumbersInv` (counts are numbers, levels without a gap) and `MadeInv` |
| `CountsConserved`, `LevelsRollUp` | `Conserved`, `RollsUp` | `BuildInv`, `BuiltInv`: what the build's statements have written so far against the turns they count; `ClimbInv`, `LiftInv`, `CarryInv`: of each level, where every turn stands, whose parents are made and which transitions are carried. A kill leaves `BuiltInv` true or the graph undone |
| `SupportCounts` | `Supported` | `AbsorbInv`, `AbsorbedInv`, `UndoneInv`: which elements have the support of this absorption, and that a stage which starts undoes what those after it did |
| `OutlookIsOdds` | `Odds` | `StatsInv` and `LookInv`: every support read is a count of conversations, each ended in one kind, whatever was written between two reads |
| `AskHoldsSlots` | `SlotsHeld` | by refinement: `AskIsAMethod`, `Ask` implements `Methods`, whose invariant `SlotsInv` says where a thread holds a slot and where its process may be alive |
| `AskTypes` | `TypeOK` of `Ask` | `AskInv`: `FilesInv`, a file is absent, empty, torn or what a command may have written; `Working`, what a command knows at its step: a request of its question, and, once checked, of every join's column whether it was unique |
| `NoPlainFilterIsLost` | `NoPlainFilterLost` | `AskInv`: the blocks answered with are the plan's (`Working`). Of a plan `PlanIs`: every group has a block, at its fact or one its measures survive, with the filters that apply there; a filter kept from one is about another group's fact, and applies in that one's |
| `UniqueJoinMultipliesNothing` | | a lemma about `Extended`, from `IsUnique`: one step of a route |
| `JoinsMultiplyNoRows` | `OncePerRow` | `AskInv` again; `RouteFound`, the search's order picks a route when there is one; `JoinsOfAre`, the routes put one after another join no table twice nor the fact; `FactIsOnce`, step by step each fact's row stays once; a lone measure's table is the fact by `MayBe` |
| `MeasuresAreAsAlone` | `Together` | `AskInv` again. A block is a fact, tables, filters and columns (`Shaped`); its joins are the steps of the routes to its tables and no others (`JoinsAreRoutes`), so the lone block's are among the others' (`ShapedBeside`); a fact's row is then joined to the same row of each table both have (`PairRows`), so the groups (`GroupAlike`) and what each aggregate takes in them (`AggregateAlike`) are the same |
| `MemoryAnswersAsSql` | `SameOnMemory` | `AskInv` and `RoutedInv`: memory is not written while a command runs, so the block of an answer routed to memory is one that `Answerable` accepts there still. The argument is below |
| `StatementsRunAsTheirReader` | `RunsAsItsReader` | `Flow` and `Threads`: a statement's query is its session's, a token names whom it is for, a connection taken from a pooled one's map is of the principal it was looked up for, and what a process found of a Virtual Graph is of one born no later (`Found`) |
| `SignaturesAreHonoured` | `Honoured` | `Key`, `Whole`: the key in the file, the loaded one and those signed with are one, unless it was torn |
| `GatewayTypes` | `TypeOK` of `Gateway` | `Base`: inductive with `Flow`, `Threads` and `Found`, below |
| `StatementsKeepTheirValues` | `ValuesKept` | inductive beside `Base`; what it needs is of sets: the calls held back bind every parameter (`Bound`), the token is at the one mark (`MarkAt`), and taking it out maps the others one to one (`Without`) |
| `AllowlistsAge` | `ListsAge` | `Lists`: what a list shows was there when its building began, and it is used while young |

Each strengthened invariant was first checked by TLC on its run. TLC reads `UNION A \cup B` as `(UNION A) \cup B` and tlapm as
`UNION (A \cup B)`, and so of `SUBSET`: the modules write the parentheses, so that what is proved is what is checked.

**How the proofs reason about data.** Sums over sets are a fold, which is a recursive function over subsets; sequences are folded by
a recursive function over the sets of their first indices; the search for a route is the choice of a first in an order. Nothing is proved by an induction rule:
where one would be used the proofs take the least number of which the claim fails (`LeastNumber`) and show that it is not the
least. `SumProofs` has what is needed of sums, of any fold over a sequence (`FoldIn`), of sequences put together (`PutTogether`) and of
numbers put in order (`CanBeOrdered`, `OrderedOnce`); `AskProofs` has the compiler's own (`JoinsFold`, `RowsFold`, `GroupsFold`,
`HopsFold`, `MatchedFold`, `InOrderIs`).

**How memory is shown to answer as the warehouse.** In three parts, of which a warehouse's own rows need the first only.

*Copies.* Rows are `Copies` of a warehouse's when each is one of them, none twice. The blocks answered with are the plan's, so ordered,
and every inner join is across something read (`BlockReady`). A joined row cut down to the tables walked is a row of the Cypher, and
where it has copies (`RowsHeld`) it is one on the copies too; each of those is of one SQL row, for a fact's row is joined to one row of
each table (`RowFromCopies`, `RowsCopied`); a column is the same where `Pointing` reads it (`ValuePointed`); rows alike group and aggregate
alike (`GroupedSame`). So the Cypher gives on the copies what the SQL gives on the warehouse (`CopiesAnswer`). The
first half of `SameOnMemory` is this of a warehouse as its own copy (`SameHere`).

*Hops.* What a context holds is a sequence of sets of rows, one after each hop (`Fetched`), which only grow (`FetchedMore`), those of a table no
later read is of no more (`FetchedLast`). A row that a condition on the anchor's key, or on a fact's column, leaves to the SQL was
fetched by the first hop (`NamedHeld`): it was not capped, and its period is inside the window, for `Answerable` asked both. A join along
a relationship from rows that are held leads to a row that is held: the hop that reads it comes after those that fetch what it is
keyed on (`ForwardHeld`, where `ReadOnce` is needed, and where `MemoryExact` fails without it), and one back from a named row likewise
(`BackwardHeld`). `Covered` takes the block's joins in their order, and so does the induction (`CoverHolds`, `CoverHoldsOn`): every row
the SQL aggregates is in the context, of every table the Cypher walks to (`RowsRecalled`).

*What is remembered.* Memory's rows are the contexts' rows in order, so copies of the warehouse's while it is what it was
(`RememberedCopies`), and a context that memory lists is one whose anchor is there (`ContextKept`, by `FetchedNone`). With `RowsRecalled`, the
rows the SQL aggregates have their copies, and `CopiesAnswer` applies (`MemoryAnswers`).

**Only model-checked.** `SweptEventually` and `Served`, which are liveness: every other property of the passing runs is a theorem. The
three violations are TLC's counterexamples.

## 6. What is not modelled, and the plan

Not modelled, for good reason: the log pipeline, the SQL parser, the semantic layer's stages, the virtual graph model
(batch stages run one after another, pure or over the graph library's algorithms), the connectors (I/O), settings and
plumbing, the page, deployment, evaluation.

Known and in no model: a timer that fails to start after its process has (`server.py:487`); a minimum of holds in which None is for good while the reader's READ of a frozen table's row is not
(`memory.py:676`); a guard that looks at the hold and never at retention (983); facts of a thing swept and fetched again (1140);
a recalled decision said to rest on a fact that "is now" a successor's value that may itself be superseded (199); the meter's
stack shared by worker threads (`meter.py:57`); retries with growing budgets (`llm.py:102`).

Planned, in this order:

1. The audit record's sweep (`memory.py:1163`) beside a conversation being recorded.
2. Several blocks of a plan combined (`render_sql`, 887-905): the dimensions' FULL JOIN, null groups.
3. The router's precedent route and free Cypher before the compiled and the free SQL, composed with `Answers`.
4. Join confidence, the pages of a batch (`run_batch`) and the meter against reference definitions.
