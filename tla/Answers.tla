------------------------------ MODULE Answers ------------------------------
(***************************************************************************)
(* Answers kept and given again (src/qlsc/converse.py): an ask's Step keeps*)
(* its answer for as long as its data holds, and the same request of the   *)
(* same reader is answered from it, unless its asker rejected it.          *)
(* Conversations run beside each other, each statement a transaction of its*)
(* own, and any may end between two of them.  The record is kept           *)
(* (memory.retain.audit_days: null).                                       *)
(***************************************************************************)
EXTENDS Naturals, Sequences, FiniteSetsExt

CONSTANTS
  Conversation,
  Reader,       \* principals, each under its grants
  Question,
  Feedback,     \* what an asker may say is wrong with an answer
  Precedent,    \* the log's query shapes
  Cadence,      \* write cadences a query's tables may have, Ever if all are frozen
  Ever,
  None,         \* no value: null
  MemoryRoute,  \* navigate.memory_route
  MaxTime,      \* bound: the clock stops here
  MaxTasks,     \* bound: requests of a conversation
  MaxAsks,      \* bound: asks of all the conversations
  MaxSaid       \* bound: corrections of a request

ASSUME AnswersAssumption ==
  /\ Cadence \subseteq (Nat \ {0}) \cup {Ever}
  /\ Ever \notin Nat
  /\ None \notin Reader \cup Precedent \cup (Conversation \X Nat)
  /\ None \notin Question \X Seq(Feedback)
  /\ MemoryRoute \in BOOLEAN
  /\ MaxTime \in Nat /\ MaxTasks \in Nat /\ MaxAsks \in Nat /\ MaxSaid \in Nat

VARIABLES
  now,
  steps,     \* the ask Steps, <<conversation, number>>
  rejected,  \* the Steps a 'rejected' Fact is about
  job        \* each conversation's process: its exchange, and what it is at

vars == <<now, steps, rejected, job>>

\* Where an answer was read, as of when (its oldest row), and the earliest and the
\* latest cadence of its tables
Answer ==
  {a \in [route : {"memory", "warehouse"}, asOf : 0 .. MaxTime, cadence : Cadence, slow : Cadence] :
     a.slow = Ever \/ (a.cadence # Ever /\ a.cadence =< a.slow)}

NoJob == [pc |-> "new", by |-> None, task |-> 0, tasks |-> 0, asks |-> 0,
          at |-> 0, key |-> None, hit |-> None, answer |-> None, precedent |-> None,
          lastAsk |-> None, lastPrecedent |-> None, said |-> <<>>, hushed |-> {},
          silenced |-> {}]

Init ==
  /\ now = 0
  /\ steps = [s \in {} |-> None]
  /\ rejected = {}
  /\ job = [c \in Conversation |-> NoJob]

Running(c) == job[c].pc \notin {"new", "over"}
Goes(c, j) == job' = [job EXCEPT ![c] = j]

-----------------------------------------------------------------------------
(* What is said *)

Open(c) ==
  /\ job[c].pc = "new"
  /\ \E r \in Reader : Goes(c, [NoJob EXCEPT !.pc = "ready", !.by = r])
  /\ UNCHANGED <<now, steps, rejected>>

\* A user's message starts a task, and its exchange: nothing said, nothing rejected
NewTask(j) == [j EXCEPT !.task = j.tasks + 1, !.tasks = @ + 1,
                        !.lastPrecedent = None, !.said = <<>>, !.hushed = {}]

\* The next request
Request(c) ==
  /\ job[c].pc = "ready" /\ job[c].tasks < MaxTasks
  /\ Goes(c, [NewTask(job[c]) EXCEPT !.silenced = {}])
  /\ UNCHANGED <<now, steps, rejected>>

\* The agent's reply closes the task
Reply(c) ==
  /\ job[c].pc = "ready" /\ job[c].task # 0
  /\ Goes(c, [job[c] EXCEPT !.task = 0])
  /\ UNCHANGED <<now, steps, rejected>>

\* The precedents the router won't be offered in this exchange
Hushed(j) == j.hushed \cup ({j.lastPrecedent} \ {None})

\* What is wrong with the last answer, said in the task it was asked in, or, that
\* closed, in one of its own; VERDICT: rejected, and its request is to be asked again
\* with all that was said.  silenced is history: what truly made the answers rejected
Reject(c, j, f) ==
  /\ rejected' = rejected \cup {j.lastAsk}
  /\ Goes(c, [j EXCEPT !.pc = "correct", !.said = Append(@, f), !.hushed = Hushed(j),
                !.silenced = @ \cup ({steps[j.lastAsk].precedent} \ {None})])

Object(c) ==
  LET j == job[c] IN
  /\ j.pc = "ready" /\ j.lastAsk # None /\ Len(j.said) < MaxSaid
  /\ \E f \in Feedback :
       IF j.task # 0 THEN Reject(c, j, f)
       ELSE j.tasks < MaxTasks /\ Reject(c, NewTask(j), f)
  /\ UNCHANGED <<now, steps>>

-----------------------------------------------------------------------------
(* ask *)

HoldsAt(s, time) == steps[s].until = Ever \/ time < steps[s].until

RememberedDirect(r, key) ==   \* mutant of Remembered: rejected itself only
  {s \in DOMAIN steps :
     /\ steps[s].by = r /\ steps[s].key = key
     /\ steps[s].answer # None /\ HoldsAt(s, now)
     /\ steps[s].same = None /\ s \notin rejected}
RememberedAny(r, key) ==   \* mutant of Remembered: answered or not
  {s \in DOMAIN steps :
     /\ steps[s].by = r /\ steps[s].key = key /\ HoldsAt(s, now)
     /\ steps[s].same = None /\ ~\E x \in rejected : x = s \/ steps[x].same = s}
\* REMEMBERED: kept for this reader and request, holding still, an answer of its own,
\* and rejected neither itself nor where it was given again
Remembered(r, key) ==
  {s \in DOMAIN steps :
     /\ steps[s].by = r /\ steps[s].key = key
     /\ steps[s].answer # None /\ HoldsAt(s, now)
     /\ steps[s].same = None
     /\ ~\E x \in rejected : x = s \/ steps[x].same = s}

\* The request's identity (asked) and time, and the latest answer remembered for it
Look(c, key) ==
  LET j == [job[c] EXCEPT !.at = now, !.key = key, !.asks = @ + 1]
      hits == Remembered(j.by, key) IN
  /\ MapThenSumSet(LAMBDA x : job[x].asks, Conversation) < MaxAsks
  /\ IF hits = {} THEN Goes(c, [j EXCEPT !.pc = "run"])
     ELSE \E s \in hits :
       /\ \A x \in hits : steps[x].at =< steps[s].at
       /\ Goes(c, [j EXCEPT !.pc = "same", !.hit = s, !.answer = steps[s].answer])
  /\ UNCHANGED <<now, steps, rejected>>

\* In a task, as every conversation in the repository asks (ATTACH gives a Step of no
\* task no status, and it answers nothing again)
Ask(c) == job[c].pc = "ready" /\ job[c].task # 0 /\ \E q \in Question : Look(c, <<q, <<>>>>)
Correct(c) == job[c].pc = "correct" /\ \E q \in Question : Look(c, <<q, job[c].said>>)

\* What memory holds of a table the warehouse held within its cadence (FactsHold of Memory)
Fresh(cadence) == {t \in 0 .. now : cadence = Ever \/ now < t + cadence}

\* answer_routed: by memory, by a precedent not rejected in this exchange, or by a
\* query over either graph; an answer, one with more rows than are kept, or none
Run(c) ==
  LET j == [job[c] EXCEPT !.pc = "keep"] IN
  /\ job[c].pc = "run"
  /\ \E p \in (Precedent \ j.hushed) \cup {None} :
       \/ \E a \in Answer :
            /\ a.route = "warehouse" => a.asOf = now
            /\ a.route = "memory" => MemoryRoute /\ p = None /\ a.asOf \in Fresh(a.slow)
            /\ Goes(c, [j EXCEPT !.answer = a, !.precedent = p])
       \/ Goes(c, [j EXCEPT !.precedent = p])
  /\ UNCHANGED <<now, steps, rejected>>

\* STEP, and ATTACH with its status to the task.  precedent and run are history: what
\* made its answer, and the step that did
NewStep(c, j) ==
  [by |-> j.by, at |-> now, key |-> None, answer |-> None,
   until |-> Ever, same |-> None, precedent |-> j.precedent, run |-> <<c, j.asks>>]

Recorded(c, j, step) ==
  steps' = [s \in DOMAIN steps \cup {<<c, j.asks>>} |->
              IF s = <<c, j.asks>> THEN step ELSE steps[s]]

\* The ask returns, with the precedent its answer says it is
Returned(j, c) ==
  [j EXCEPT !.pc = "ready", !.lastAsk = <<c, j.asks>>, !.lastPrecedent = j.precedent,
            !.hit = None, !.answer = None, !.precedent = None, !.key = None, !.at = 0]

HoldsUntilKept(j) ==   \* mutant of HoldsUntil: from when it is kept
  IF j.answer = None \/ j.answer.cadence = Ever THEN Ever ELSE now + j.answer.cadence
\* answer_holds_until: its first table's cadence, from when it was asked
HoldsUntil(j) ==
  IF j.answer = None \/ j.answer.cadence = Ever THEN Ever ELSE j.at + j.answer.cadence

\* The step, and KEEP: the answer, if there is a whole one.  STEP, ATTACH and KEEP are
\* three transactions, but no other reads the step before the last: a process that died
\* between them left one that answers nothing, as one that dies before them leaves none
Keep(c) ==
  LET j == job[c] IN
  /\ j.pc = "keep"
  /\ Recorded(c, j, [NewStep(c, j) EXCEPT !.key = j.key, !.until = HoldsUntil(j),
                                          !.answer = j.answer])
  /\ Goes(c, Returned(j, c))
  /\ UNCHANGED <<now, rejected>>

\* The step, and SAME_AS: the answer, its request and how long it holds are the earlier
\* step's.  What is kept of an answer (and given here) does not say its precedent
SameAs(c) ==
  LET j == job[c]
      was == steps[j.hit] IN
  /\ j.pc = "same"
  /\ Recorded(c, j, [NewStep(c, j) EXCEPT !.key = was.key, !.until = was.until,
                       !.answer = was.answer, !.same = j.hit,
                       !.precedent = was.precedent, !.run = was.run])
  /\ Goes(c, Returned(j, c))
  /\ UNCHANGED <<now, rejected>>

\* The conversation is over, or its process died
End(c) ==
  /\ Running(c)
  /\ Goes(c, [NoJob EXCEPT !.pc = "over", !.asks = job[c].asks])
  /\ UNCHANGED <<now, steps, rejected>>

Tick == now < MaxTime /\ now' = now + 1 /\ UNCHANGED <<steps, rejected, job>>

-----------------------------------------------------------------------------
Converse(c) ==
  \/ Open(c) \/ Request(c) \/ Reply(c) \/ Object(c) \/ Ask(c) \/ Correct(c)
  \/ Run(c) \/ Keep(c) \/ SameAs(c) \/ End(c)

Next == Tick \/ \E c \in Conversation : Converse(c)

Spec == Init /\ [][Next]_vars
-----------------------------------------------------------------------------
(* What answers promise *)

Ids == Conversation \X Nat
Keys == Question \X Seq(Feedback)
StepType == [by : Reader, at : Nat, key : Keys \cup {None},
             answer : Answer \cup {None}, until : Nat \cup {Ever}, same : Ids \cup {None},
             precedent : Precedent \cup {None}, run : Ids]
JobType ==
  [pc : {"new", "ready", "correct", "run", "keep", "same", "over"},
   by : Reader \cup {None}, task : Nat, tasks : Nat, asks : Nat, at : Nat,
   key : Keys \cup {None}, hit : Ids \cup {None}, answer : Answer \cup {None},
   precedent : Precedent \cup {None}, lastAsk : Ids \cup {None},
   lastPrecedent : Precedent \cup {None}, said : Seq(Feedback),
   hushed : SUBSET Precedent, silenced : SUBSET Precedent]

\* A process that asks has a reader and a request; one that gives an answer again has
\* that too, and the step it is
JobOk(j) ==
  /\ j.pc \notin {"new", "over"} => j.by \in Reader
  /\ j.pc \in {"run", "keep", "same"} => j.key # None
  /\ j.pc = "same" <=> j.hit # None
  /\ j.hit # None => j.hit \in DOMAIN steps /\ j.answer # None
  /\ j.lastAsk # None => j.lastAsk \in DOMAIN steps

\* Every variable has its type, and no call goes on without what it needs
TypeOK ==
  /\ now \in 0 .. MaxTime
  /\ DOMAIN steps \subseteq Ids /\ \A s \in DOMAIN steps : steps[s] \in StepType
  /\ rejected \subseteq DOMAIN steps
  /\ job \in [Conversation -> JobType] /\ \A c \in Conversation : JobOk(job[c])

\* "A rejected answer is never given again, directly or through a step that repeated
\* it": whoever of the reader's conversations it was that rejected an answer, first
\* given or given again, none that asks after is given it
GivenAgain(c) == job[c].hit = None /\ job'[c].hit # None
RejectedSilenced ==
  [][\A c \in Conversation : GivenAgain(c) =>
       \A x \in rejected : steps[x].run # steps[job'[c].hit].run]_vars

\* An answer given again was the warehouse's within its first table's cadence; one made
\* of memory's copies, within that and the cadence of the copies themselves
Within(a, time) ==
  /\ a.route = "warehouse" => a.cadence = Ever \/ time < a.asOf + a.cadence
  /\ a.route = "memory" => a.slow = Ever \/ time < a.asOf + a.slow + a.cadence

GivenWithin ==
  \A c \in Conversation : job[c].hit # None => Within(job[c].answer, job[c].at)

\* "A rejected precedent is never offered again": in the exchange that rejected it
PrecedentSilenced ==
  \A c \in Conversation :
    job[c].pc = "keep" => job[c].precedent \notin job[c].silenced
=============================================================================
