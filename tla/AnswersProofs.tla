--------------------------- MODULE AnswersProofs ---------------------------
(***************************************************************************)
(* What answers keep for every number of conversations, readers, questions *)
(* and cadences, and however often each is asked.                          *)
(***************************************************************************)
EXTENDS Answers, TLAPS

-----------------------------------------------------------------------------
(* What keeps the types *)

\* A conversation's own step, that records nothing
LEMMA Moved ==
  ASSUME TypeOK, NEW c \in Conversation, NEW j \in JobType, JobOk(j),
         job' = [job EXCEPT ![c] = j], UNCHANGED <<now, steps>>,
         rejected' \subseteq DOMAIN steps
  PROVE  TypeOK'
PROOF
  BY DEF TypeOK, JobOk

\* A conversation's step that records its ask
LEMMA RecordedMove ==
  ASSUME TypeOK, NEW c \in Conversation, NEW j \in JobType, NEW s \in StepType,
         Recorded(c, job[c], s), job' = [job EXCEPT ![c] = Returned(j, c)],
         j.asks = job[c].asks, j.by \in Reader, UNCHANGED <<now, rejected>>
  PROVE  TypeOK'
PROOF
  <1>1. <<c, j.asks>> \in Ids
    BY DEF Ids, JobType
  <1>2. DOMAIN steps' = DOMAIN steps \cup {<<c, j.asks>>}
    BY DEF Recorded
  <1>3. DOMAIN steps' \subseteq Ids /\ \A x \in DOMAIN steps' : steps'[x] \in StepType
    BY <1>1, <1>2 DEF TypeOK, Recorded
  <1>4. Returned(j, c) \in JobType
    BY <1>1 DEF Returned, JobType
  <1>5. /\ Returned(j, c).pc = "ready" /\ Returned(j, c).by = j.by
        /\ Returned(j, c).hit = None /\ Returned(j, c).lastAsk = <<c, j.asks>>
    BY DEF Returned, JobType
  <1>6. \A d \in Conversation : job'[d] = IF d = c THEN Returned(j, c) ELSE job[d]
    BY DEF TypeOK
  <1>7. \A d \in Conversation : JobOk(job[d])'
    <2> SUFFICES ASSUME NEW d \in Conversation PROVE JobOk(job[d])'
      OBVIOUS
    <2>1. CASE d = c
      BY <1>2, <1>5, <1>6, <2>1 DEF JobOk
    <2>2. CASE d # c
      BY <1>2, <1>6, <2>2 DEF TypeOK, JobOk
    <2> QED
      BY <2>1, <2>2
  <1>8. job' \in [Conversation -> JobType]
    BY <1>4 DEF TypeOK
  <1> QED
    BY <1>2, <1>3, <1>7, <1>8 DEF TypeOK

LEMMA TypeInit == Init => TypeOK
PROOF
  <1> SUFFICES ASSUME Init PROVE TypeOK
    OBVIOUS
  <1>1. NoJob \in JobType
    BY DEF NoJob, JobType
  <1>2. JobOk(NoJob)
    BY DEF NoJob, JobOk
  <1>3. now \in 0 .. MaxTime
    BY AnswersAssumption DEF Init
  <1> QED
    BY <1>1, <1>2, <1>3 DEF Init, TypeOK

LEMMA NewTaskType ==
  ASSUME NEW j \in JobType
  PROVE  NewTask(j) \in JobType
PROOF
  <1> DEFINE n == j.tasks + 1
             e == <<>>
             h == {}
  <1>1. n \in Nat
    BY DEF JobType
  <1>2. e \in Seq(Feedback) /\ h \in SUBSET Precedent
    OBVIOUS
  <1>3. NewTask(j) = [j EXCEPT !.task = n, !.tasks = n, !.lastPrecedent = None, !.said = e, !.hushed = h]
    BY DEF NewTask
  <1> HIDE DEF n, e, h
  <1> QED
    BY <1>1, <1>2, <1>3 DEF JobType

LEMMA RejectType ==
  ASSUME TypeOK, NEW c \in Conversation, NEW j \in JobType, JobOk(j), j.pc = "ready",
         j.lastAsk # None, NEW f \in Feedback, Reject(c, j, f), UNCHANGED <<now, steps>>
  PROVE  TypeOK'
PROOF
  <1> DEFINE k == [j EXCEPT !.pc = "correct", !.said = Append(@, f), !.hushed = Hushed(j),
                     !.silenced = @ \cup ({steps[j.lastAsk].precedent} \ {None})]
  <1>1. j.lastAsk \in DOMAIN steps
    BY DEF JobOk
  <1>2. steps[j.lastAsk].precedent \in Precedent \cup {None}
    BY <1>1 DEF TypeOK, StepType
  <1>3. Append(j.said, f) \in Seq(Feedback) /\ Hushed(j) \subseteq Precedent
    BY DEF JobType, Hushed
  <1>4. k \in JobType
    BY <1>2, <1>3 DEF JobType
  <1>5. k.pc = "correct" /\ k.by = j.by /\ k.hit = j.hit /\ k.lastAsk = j.lastAsk
    BY DEF JobType
  <1>6. JobOk(k)
    BY <1>5 DEF JobOk
  <1>7. rejected' \subseteq DOMAIN steps /\ job' = [job EXCEPT ![c] = k]
    BY <1>1 DEF Reject, Goes, TypeOK
  <1> HIDE DEF k
  <1> QED
    BY <1>4, <1>6, <1>7, Moved

LEMMA LookType ==
  ASSUME TypeOK, NEW c \in Conversation, job[c].pc \in {"ready", "correct"},
         NEW key \in Keys, Look(c, key)
  PROVE  TypeOK'
PROOF
  <1> DEFINE j == [job[c] EXCEPT !.at = now, !.key = key, !.asks = @ + 1]
             run == [j EXCEPT !.pc = "run"]
             same(s) == [j EXCEPT !.pc = "same", !.hit = s, !.answer = steps[s].answer]
  <1>1. job[c] \in JobType /\ JobOk(job[c]) /\ now \in Nat
    BY AnswersAssumption DEF TypeOK
  <1>2. key # None
    BY AnswersAssumption DEF Keys
  <1>3. j \in JobType
    <2> DEFINE n == job[c].asks + 1
    <2>1. n \in Nat /\ j = [job[c] EXCEPT !.at = now, !.key = key, !.asks = n]
      BY <1>1 DEF JobType
    <2> HIDE DEF n, j
    <2> QED
      BY <1>1, <2>1 DEF JobType
  <1>4. CASE job' = [job EXCEPT ![c] = run]
    <2>1. run \in JobType
      BY <1>3 DEF JobType
    <2>2. run.pc = "run" /\ run.by = job[c].by /\ run.key = key /\ run.hit = job[c].hit /\ run.lastAsk = job[c].lastAsk
      BY <1>1 DEF JobType
    <2>3. JobOk(run)
      BY <1>1, <1>2, <2>2 DEF JobOk
    <2> HIDE DEF run
    <2> QED
      BY <1>4, <2>1, <2>3, Moved DEF Look, TypeOK
  <1>5. ASSUME NEW s \in Remembered(job[c].by, key), job' = [job EXCEPT ![c] = same(s)]
        PROVE  TypeOK'
    <2>1. s \in DOMAIN steps /\ s \in Ids /\ steps[s].answer \in Answer
      BY <1>5 DEF Remembered, TypeOK, StepType
    <2>2. s # None /\ steps[s].answer # None
      BY <1>5, <2>1, AnswersAssumption DEF Remembered, Ids
    <2>3. same(s) \in JobType
      BY <1>3, <2>1 DEF JobType
    <2>4. /\ same(s).pc = "same" /\ same(s).by = job[c].by /\ same(s).key = key
          /\ same(s).hit = s /\ same(s).answer = steps[s].answer
          /\ same(s).lastAsk = job[c].lastAsk
      BY <1>1 DEF JobType
    <2>5. JobOk(same(s))
      BY <1>1, <1>2, <2>1, <2>2, <2>4 DEF JobOk
    <2> HIDE DEF same
    <2> QED
      BY <1>5, <2>3, <2>5, Moved DEF Look, TypeOK
  <1>6. j.by = job[c].by
    BY <1>1 DEF JobType
  <1> QED
    BY <1>4, <1>5, <1>6 DEF Look, Goes

LEMMA HoldsUntilType ==
  ASSUME NEW j \in JobType
  PROVE  HoldsUntil(j) \in Nat \cup {Ever}
PROOF
  <1>1. CASE j.answer = None \/ j.answer.cadence = Ever
    BY <1>1 DEF HoldsUntil
  <1>2. CASE ~(j.answer = None \/ j.answer.cadence = Ever)
    <2>1. j.answer.cadence \in Nat /\ j.at \in Nat
      BY <1>2, AnswersAssumption DEF JobType, Answer
    <2> QED
      BY <1>2, <2>1 DEF HoldsUntil
  <1> QED
    BY <1>1, <1>2

LEMMA NewStepType ==
  ASSUME TypeOK, NEW c \in Conversation, job[c].pc \in {"keep", "same"}
  PROVE  NewStep(c, job[c]) \in StepType
PROOF
  <1>1. job[c] \in JobType /\ job[c].by \in Reader /\ now \in Nat
    BY AnswersAssumption DEF TypeOK, JobOk
  <1>2. <<c, job[c].asks>> \in Ids
    BY <1>1 DEF JobType, Ids
  <1> QED
    BY <1>1, <1>2 DEF NewStep, StepType, JobType

LEMMA ConverseType ==
  ASSUME TypeOK, NEW c \in Conversation, Converse(c)
  PROVE  TypeOK'
PROOF
  <1>1. job[c] \in JobType /\ JobOk(job[c]) /\ rejected \subseteq DOMAIN steps
    BY DEF TypeOK
  <1>2. NoJob \in JobType
    BY DEF NoJob, JobType
  <1>3. CASE Open(c)
    <2> PICK r \in Reader : Goes(c, [NoJob EXCEPT !.pc = "ready", !.by = r])
      BY <1>3 DEF Open
    <2>1. [NoJob EXCEPT !.pc = "ready", !.by = r] \in JobType
      BY <1>2 DEF JobType
    <2>2. JobOk([NoJob EXCEPT !.pc = "ready", !.by = r])
      BY DEF JobOk, NoJob
    <2> QED
      BY <1>1, <1>3, <2>1, <2>2, Moved DEF Open, Goes
  <1>4. CASE Request(c)
    <2> DEFINE j == NewTask(job[c])
               k == [j EXCEPT !.silenced = {}]
    <2>1. j \in JobType
      BY <1>1, NewTaskType
    <2>2. /\ j.pc = "ready" /\ j.by = job[c].by /\ j.hit = job[c].hit
          /\ j.lastAsk = job[c].lastAsk
      BY <1>1, <1>4 DEF Request, NewTask, JobType
    <2>3. k \in JobType /\ k.pc = j.pc /\ k.by = j.by /\ k.hit = j.hit /\ k.lastAsk = j.lastAsk
      <3> HIDE DEF j
      <3> QED
        BY <2>1 DEF JobType
    <2>4. JobOk(k)
      BY <1>1, <1>4, <2>2, <2>3 DEF JobOk, Request
    <2>5. job' = [job EXCEPT ![c] = k] /\ UNCHANGED <<now, steps, rejected>>
      BY <1>4 DEF Request, Goes
    <2> HIDE DEF k
    <2> QED
      BY <1>1, <2>3, <2>4, <2>5, Moved
  <1>5. CASE Reply(c)
    <2> DEFINE k == [job[c] EXCEPT !.task = 0]
    <2>1. k \in JobType /\ JobOk(k)
      BY <1>1 DEF JobType, JobOk
    <2> HIDE DEF k
    <2> QED
      BY <1>1, <1>5, <2>1, Moved DEF Reply, Goes, k
  <1>6. CASE Object(c)
    <2> PICK f \in Feedback : \/ Reject(c, job[c], f)
                              \/ Reject(c, NewTask(job[c]), f)
      BY <1>6 DEF Object
    <2>1. job[c].pc = "ready" /\ job[c].lastAsk # None /\ UNCHANGED <<now, steps>>
      BY <1>6 DEF Object
    <2>2. CASE Reject(c, job[c], f)
      BY <1>1, <2>1, <2>2, RejectType
    <2>3. CASE Reject(c, NewTask(job[c]), f)
      <3> DEFINE j == NewTask(job[c])
      <3>1. j \in JobType
        BY <1>1, NewTaskType
      <3>2. /\ j.pc = "ready" /\ j.by = job[c].by /\ j.hit = job[c].hit
            /\ j.lastAsk = job[c].lastAsk
        BY <1>1, <2>1 DEF NewTask, JobType
      <3>3. JobOk(j)
        BY <1>1, <2>1, <3>2 DEF JobOk
      <3> HIDE DEF j
      <3> QED
        BY <2>1, <2>3, <3>1, <3>2, <3>3, RejectType DEF j
    <2> QED
      BY <2>2, <2>3
  <1>7. CASE Ask(c)
    <2> PICK q \in Question : Look(c, <<q, <<>>>>)
      BY <1>7 DEF Ask
    <2>1. <<>> \in Seq(Feedback)
      OBVIOUS
    <2>2. \A e \in Seq(Feedback) : <<q, e>> \in Keys
      BY DEF Keys
    <2> QED
      BY <1>7, <2>1, <2>2, LookType DEF Ask
  <1>8. CASE Correct(c)
    <2> PICK q \in Question : Look(c, <<q, job[c].said>>)
      BY <1>8 DEF Correct
    <2>1. <<q, job[c].said>> \in Keys
      BY <1>1 DEF Keys, JobType
    <2> QED
      BY <1>8, <2>1, LookType DEF Correct
  <1>9. CASE Run(c)
    <2> DEFINE j == [job[c] EXCEPT !.pc = "keep"]
               k(a, p) == [j EXCEPT !.answer = a, !.precedent = p]
    <2>1. PICK a \in Answer \cup {None}, p \in Precedent \cup {None} : Goes(c, k(a, p))
      <3> PICK p \in (Precedent \ j.hushed) \cup {None} :
                 \/ \E a \in Answer : Goes(c, k(a, p))
                 \/ Goes(c, [j EXCEPT !.precedent = p])
        BY <1>9 DEF Run
      <3>1. CASE \E a \in Answer : Goes(c, k(a, p))
        BY <3>1
      <3>2. CASE Goes(c, [j EXCEPT !.precedent = p])
        <4>1. [j EXCEPT !.precedent = p] = k(job[c].answer, p)
          BY <1>1 DEF JobType
        <4>2. job[c].answer \in Answer \cup {None}
          BY <1>1 DEF JobType
        <4> QED
          BY <3>2, <4>1, <4>2
      <3> QED
        BY <3>1, <3>2
    <2>2. k(a, p) \in JobType
      BY <1>1 DEF JobType
    <2>3. /\ k(a, p).pc = "keep" /\ k(a, p).by = job[c].by /\ k(a, p).hit = job[c].hit
          /\ k(a, p).lastAsk = job[c].lastAsk /\ k(a, p).key = job[c].key
      BY <1>1 DEF JobType
    <2>4. JobOk(k(a, p))
      BY <1>1, <1>9, <2>3 DEF JobOk, Run
    <2> HIDE DEF k
    <2> QED
      BY <1>1, <1>9, <2>1, <2>2, <2>4, Moved DEF Run, Goes
  <1>10. CASE Keep(c)
    <2> DEFINE s == [NewStep(c, job[c]) EXCEPT !.key = job[c].key,
                       !.until = HoldsUntil(job[c]), !.answer = job[c].answer]
    <2>1. NewStep(c, job[c]) \in StepType
      BY <1>10, NewStepType DEF Keep
    <2>2. HoldsUntil(job[c]) \in Nat \cup {Ever}
      BY <1>1, HoldsUntilType
    <2>3. s \in StepType
      BY <1>1, <2>1, <2>2 DEF StepType, JobType
    <2>4. job[c].by \in Reader
      BY <1>1, <1>10 DEF JobOk, Keep
    <2> HIDE DEF s
    <2> QED
      BY <1>1, <1>10, <2>3, <2>4, RecordedMove DEF Keep, Goes, s
  <1>11. CASE SameAs(c)
    <2> DEFINE was == steps[job[c].hit]
               s == [NewStep(c, job[c]) EXCEPT !.key = was.key, !.until = was.until,
                       !.answer = was.answer, !.same = job[c].hit,
                       !.precedent = was.precedent, !.run = was.run]
    <2>1. NewStep(c, job[c]) \in StepType
      BY <1>11, NewStepType DEF SameAs
    <2>2. was \in StepType /\ job[c].hit \in Ids
      BY <1>1, <1>11 DEF SameAs, JobOk, TypeOK
    <2>3. s \in StepType
      <3> HIDE DEF was
      <3> QED
        BY <2>1, <2>2 DEF StepType
    <2>4. job[c].by \in Reader
      BY <1>1, <1>11 DEF JobOk, SameAs
    <2>5. Recorded(c, job[c], s) /\ UNCHANGED <<now, rejected>>
      BY <1>11 DEF SameAs
    <2>6. job' = [job EXCEPT ![c] = Returned(job[c], c)]
      BY <1>11 DEF SameAs, Goes
    <2> HIDE DEF s
    <2> QED
      BY <1>1, <2>3, <2>4, <2>5, <2>6, RecordedMove
  <1>12. CASE End(c)
    <2> DEFINE n == job[c].asks
               k == [NoJob EXCEPT !.pc = "over", !.asks = n]
    <2>1. n \in Nat
      BY <1>1 DEF JobType
    <2>2. k \in JobType
      <3> HIDE DEF n
      <3> QED
        BY <1>2, <2>1 DEF JobType
    <2>3. JobOk(k)
      BY DEF JobOk, NoJob
    <2>4. job' = [job EXCEPT ![c] = k] /\ UNCHANGED <<now, steps, rejected>>
      BY <1>12 DEF End, Goes
    <2> HIDE DEF k
    <2> QED
      BY <1>1, <2>2, <2>3, <2>4, Moved
  <1> QED
    BY <1>3, <1>4, <1>5, <1>6, <1>7, <1>8, <1>9, <1>10, <1>11, <1>12 DEF Converse

LEMMA TypeStep == TypeOK /\ [Next]_vars => TypeOK'
PROOF
  <1> SUFFICES ASSUME TypeOK, [Next]_vars PROVE TypeOK'
    OBVIOUS
  <1>1. CASE Tick
    BY <1>1, AnswersAssumption DEF Tick, TypeOK, JobOk
  <1>2. CASE UNCHANGED vars
    BY <1>2 DEF vars, TypeOK, JobOk
  <1> QED
    BY <1>1, <1>2, ConverseType DEF Next

\* Every variable keeps its type, and a process that is at an ask keeps what it needs
THEOREM TypeCorrect == Spec => []TypeOK
PROOF
  BY TypeInit, TypeStep, PTL DEF Spec

-----------------------------------------------------------------------------
(* What a rejection silences *)

\* A conversation's asks have the numbers up to its count, one it is at none yet
Numbered ==
  /\ \A c \in Conversation : job[c].pc = "new" => job[c].asks = 0
  /\ \A s \in DOMAIN steps :
       /\ s[2] =< job[s[1]].asks
       /\ job[s[1]].pc \in {"run", "keep", "same"} => s[2] < job[s[1]].asks

\* A step that gives an answer again is the same as one that made its own
Traced ==
  \A s \in DOMAIN steps :
    IF steps[s].same = None THEN steps[s].run = s
    ELSE /\ steps[s].same \in DOMAIN steps /\ steps[steps[s].same].same = None
         /\ steps[s].run = steps[s].same

HitsFirst == \A c \in Conversation : job[c].hit # None => steps[job[c].hit].same = None

SilenceInv == TypeOK /\ Numbered /\ Traced /\ HitsFirst

\* What a conversation's step does to its asks: it counts one and is at it, goes on with
\* it, or is at none
Counting(c) ==
  /\ job'[c].asks = job[c].asks + 1 /\ job[c].pc \in {"ready", "correct"}
  /\ job'[c].pc \in {"run", "same"}
GoingOn(c) == job'[c].asks = job[c].asks /\ job[c].pc = "run" /\ job'[c].pc = "keep"
AtNone(c) == job'[c].asks = job[c].asks /\ job'[c].pc \in {"ready", "correct", "over"}

LEMMA Counts ==
  ASSUME TypeOK, Numbered, NEW c \in Conversation, Converse(c)
  PROVE  /\ \A d \in Conversation \ {c} : job'[d] = job[d]
         /\ Counting(c) \/ GoingOn(c) \/ AtNone(c)
         /\ job'[c].hit = None \/ job'[c].hit = job[c].hit \/ Ask(c) \/ Correct(c)
PROOF
  <1>1. job \in [Conversation -> JobType] /\ job[c] \in JobType
    BY DEF TypeOK
  <1>2. CASE Open(c)
    BY <1>1, <1>2 DEF Open, Goes, NoJob, AtNone, Numbered
  <1>3. CASE Request(c)
    BY <1>1, <1>3 DEF Request, NewTask, Goes, JobType, AtNone
  <1>4. CASE Reply(c)
    BY <1>1, <1>4 DEF Reply, Goes, JobType, AtNone
  <1>5. ASSUME NEW j \in JobType, NEW f \in Feedback, Reject(c, j, f), j.asks = job[c].asks,
               j.hit = job[c].hit
        PROVE  (\A d \in Conversation \ {c} : job'[d] = job[d]) /\ AtNone(c) /\ job'[c].hit = job[c].hit
    BY <1>1, <1>5 DEF Reject, Goes, JobType, AtNone
  <1>6. CASE Object(c)
    <2>1. NewTask(job[c]) \in JobType
      BY <1>1, NewTaskType
    <2>2. NewTask(job[c]).asks = job[c].asks /\ NewTask(job[c]).hit = job[c].hit
      BY <1>1 DEF NewTask, JobType
    <2>3. \E f \in Feedback : Reject(c, job[c], f) \/ Reject(c, NewTask(job[c]), f)
      BY <1>6 DEF Object
    <2> QED
      BY <1>1, <1>5, <2>1, <2>2, <2>3
  <1>7. CASE Ask(c) \/ Correct(c)
    <2> PICK key : Look(c, key) /\ job[c].pc \in {"ready", "correct"}
      BY <1>7 DEF Ask, Correct
    <2> DEFINE j == [job[c] EXCEPT !.at = now, !.key = key, !.asks = @ + 1]
               run == [j EXCEPT !.pc = "run"]
               same(s) == [j EXCEPT !.pc = "same", !.hit = s, !.answer = steps[s].answer]
    <2>1. run.asks = job[c].asks + 1 /\ run.pc = "run"
      BY <1>1 DEF JobType
    <2>2. \A s : same(s).asks = job[c].asks + 1 /\ same(s).pc = "same"
      BY <1>1 DEF JobType
    <2>3. job' = [job EXCEPT ![c] = run] \/ \E s : job' = [job EXCEPT ![c] = same(s)]
      BY DEF Look, Goes
    <2> HIDE DEF run, same
    <2> QED
      BY <1>1, <1>7, <2>1, <2>2, <2>3 DEF Counting
  <1>8. CASE Run(c)
    <2> DEFINE j == [job[c] EXCEPT !.pc = "keep"]
               k(a, p) == [j EXCEPT !.answer = a, !.precedent = p]
               m(p) == [j EXCEPT !.precedent = p]
    <2>1. \A a, p : k(a, p).asks = job[c].asks /\ k(a, p).pc = "keep" /\ k(a, p).hit = job[c].hit
      BY <1>1 DEF JobType
    <2>2. \A p : m(p).asks = job[c].asks /\ m(p).pc = "keep" /\ m(p).hit = job[c].hit
      BY <1>1 DEF JobType
    <2>3. (\E a, p : job' = [job EXCEPT ![c] = k(a, p)]) \/ \E p : job' = [job EXCEPT ![c] = m(p)]
      <3>1. PICK p \in (Precedent \ j.hushed) \cup {None} :
                  (\E a \in Answer : Goes(c, k(a, p))) \/ Goes(c, m(p))
        BY <1>8 DEF Run
      <3> HIDE DEF k, m
      <3> QED
        BY <3>1 DEF Goes
    <2>4. job[c].pc = "run"
      BY <1>8 DEF Run
    <2> HIDE DEF k, m
    <2> QED
      BY <1>1, <2>1, <2>2, <2>3, <2>4 DEF GoingOn
  <1>9. CASE Keep(c) \/ SameAs(c)
    <2>1. job' = [job EXCEPT ![c] = Returned(job[c], c)]
      BY <1>9 DEF Keep, SameAs, Goes
    <2>2. /\ Returned(job[c], c).asks = job[c].asks /\ Returned(job[c], c).hit = None
          /\ Returned(job[c], c).pc = "ready"
      BY <1>1 DEF Returned, JobType
    <2> QED
      BY <1>1, <2>1, <2>2 DEF AtNone
  <1>10. CASE End(c)
    BY <1>1, <1>10 DEF End, Goes, NoJob, AtNone
  <1> QED
    BY <1>2, <1>3, <1>4, <1>6, <1>7, <1>8, <1>9, <1>10 DEF Converse

\* An ask answered again: the step it is given, that Remembered found
LEMMA Given ==
  ASSUME TypeOK, NEW c \in Conversation, GivenAgain(c), Converse(c), Numbered
  PROVE  /\ \E key : job'[c].hit \in Remembered(job[c].by, key)
         /\ job'[c].answer = steps[job'[c].hit].answer /\ job'[c].at = now
         /\ steps' = steps
PROOF
  <1>1. job \in [Conversation -> JobType] /\ job[c] \in JobType
    BY DEF TypeOK
  <1>2. Ask(c) \/ Correct(c)
    BY Counts DEF GivenAgain
  <1> PICK key : Look(c, key)
    BY <1>2 DEF Ask, Correct
  <1> DEFINE j == [job[c] EXCEPT !.at = now, !.key = key, !.asks = @ + 1]
             run == [j EXCEPT !.pc = "run"]
             same(s) == [j EXCEPT !.pc = "same", !.hit = s, !.answer = steps[s].answer]
  <1>3. run.hit = job[c].hit /\ j.by = job[c].by
    BY <1>1 DEF JobType
  <1>4. \A s : same(s).hit = s /\ same(s).answer = steps[s].answer /\ same(s).at = now
    BY <1>1 DEF JobType
  <1>5. \/ job' = [job EXCEPT ![c] = run]
        \/ \E s \in Remembered(job[c].by, key) : job' = [job EXCEPT ![c] = same(s)]
    BY <1>3 DEF Look, Goes
  <1>6. steps' = steps
    BY DEF Look
  <1> HIDE DEF run, same
  <1> QED
    BY <1>1, <1>3, <1>4, <1>5, <1>6 DEF GivenAgain

LEMMA NumberedStep ==
  ASSUME TypeOK, Numbered, NEW c \in Conversation, Converse(c)
  PROVE  Numbered'
PROOF
  <1>1. job[c] \in JobType /\ job' \in [Conversation -> JobType]
    BY ConverseType DEF TypeOK
  <1>2. \A d \in Conversation : job'[d].asks \in Nat /\ job[d].asks \in Nat
    BY <1>1 DEF TypeOK, JobType
  <1>3. \A s \in DOMAIN steps : s \in Ids
    BY DEF TypeOK
  <1>4. CASE steps' = steps
    BY <1>2, <1>3, <1>4, Counts DEF Numbered, Ids, Counting, GoingOn, AtNone
  <1>5. CASE Keep(c) \/ SameAs(c)
    <2>1. DOMAIN steps' = DOMAIN steps \cup {<<c, job[c].asks>>}
      BY <1>5 DEF Keep, SameAs, Recorded
    <2>2. AtNone(c)
      BY <1>5, Counts DEF Keep, SameAs, Counting, GoingOn
    <2> QED
      BY <1>2, <1>3, <2>1, <2>2, Counts DEF Numbered, Ids, AtNone
  <1> QED
    BY <1>4, <1>5 DEF Converse, Open, Request, Reply, Object, Ask, Correct, Look, Run, End

LEMMA TracedStep ==
  ASSUME SilenceInv, NEW c \in Conversation, Converse(c)
  PROVE  Traced'
PROOF
  <1> DEFINE id == <<c, job[c].asks>>
  <1>1. job[c] \in JobType /\ JobOk(job[c]) /\ id \in Ids
    BY DEF SilenceInv, TypeOK, JobType, Ids
  <1>2. CASE steps' = steps
    BY <1>2 DEF SilenceInv, Traced
  <1>3. ASSUME NEW s, Recorded(c, job[c], s), job[c].pc \in {"keep", "same"},
               IF s.same = None THEN s.run = id
               ELSE s.same \in DOMAIN steps /\ steps[s.same].same = None /\ s.run = s.same
        PROVE  Traced'
    <2>1. id \notin DOMAIN steps
      BY <1>1, <1>3 DEF SilenceInv, Numbered, Ids, JobType
    <2>2. DOMAIN steps' = DOMAIN steps \cup {id} /\ steps'[id] = s
      BY <1>3 DEF Recorded
    <2>3. \A x \in DOMAIN steps : steps'[x] = steps[x]
      BY <1>3, <2>1 DEF Recorded
    <2> QED
      BY <1>3, <2>1, <2>2, <2>3 DEF SilenceInv, Traced
  <1>4. CASE Keep(c)
    <2> DEFINE s == [NewStep(c, job[c]) EXCEPT !.key = job[c].key,
                       !.until = HoldsUntil(job[c]), !.answer = job[c].answer]
    <2>1. s.same = None /\ s.run = id
      BY DEF NewStep
    <2>2. Recorded(c, job[c], s) /\ job[c].pc = "keep"
      BY <1>4 DEF Keep
    <2> HIDE DEF s
    <2> QED
      BY <1>3, <2>1, <2>2
  <1>5. CASE SameAs(c)
    <2> DEFINE was == steps[job[c].hit]
               s == [NewStep(c, job[c]) EXCEPT !.key = was.key, !.until = was.until,
                       !.answer = was.answer, !.same = job[c].hit,
                       !.precedent = was.precedent, !.run = was.run]
    <2>1. s.same = job[c].hit /\ s.run = was.run
      BY DEF NewStep
    <2>2. Recorded(c, job[c], s) /\ job[c].pc = "same"
      BY <1>5 DEF SameAs
    <2>3. job[c].hit # None /\ job[c].hit \in DOMAIN steps
      BY <1>1, <2>2 DEF JobOk
    <2>4. was.same = None /\ was.run = job[c].hit
      BY <2>3 DEF SilenceInv, HitsFirst, Traced
    <2> HIDE DEF s
    <2> QED
      BY <1>3, <2>1, <2>2, <2>3, <2>4
  <1> QED
    BY <1>2, <1>4, <1>5 DEF Converse, Open, Request, Reply, Object, Ask, Correct, Look, Run, End

LEMMA HitsStep ==
  ASSUME SilenceInv, NEW c \in Conversation, Converse(c)
  PROVE  HitsFirst'
PROOF
  <1>1. TypeOK /\ Numbered
    BY DEF SilenceInv
  <1>2. \A s \in DOMAIN steps : s \in DOMAIN steps' /\ steps'[s] = steps[s]
    <2>1. job[c].pc \in {"keep", "same"} => <<c, job[c].asks>> \notin DOMAIN steps
      BY <1>1 DEF Numbered, TypeOK, JobType, Ids
    <2>2. CASE Keep(c) \/ SameAs(c)
      BY <2>1, <2>2 DEF Keep, SameAs, Recorded
    <2> QED
      BY <2>2 DEF Converse, Open, Request, Reply, Object, Ask, Correct, Look, Run, End
  <1>3. \A d \in Conversation \ {c} : job'[d] = job[d]
    BY <1>1, Counts
  <1>4. \A d \in Conversation : job[d].hit # None => job[d].hit \in DOMAIN steps
    BY <1>1 DEF TypeOK, JobOk
  <1>5. job'[c].hit = None \/ job'[c].hit = job[c].hit \/ GivenAgain(c)
    <2>1. job[c].hit # None => job[c].pc = "same"
      BY <1>1 DEF TypeOK, JobOk
    <2> QED
      BY <1>1, <2>1, Counts DEF GivenAgain, Ask, Correct
  <1>6. ASSUME GivenAgain(c) PROVE steps[job'[c].hit].same = None /\ steps' = steps
    BY <1>1, <1>6, Given DEF Remembered
  <1> QED
    BY <1>2, <1>3, <1>4, <1>5, <1>6 DEF SilenceInv, HitsFirst

LEMMA SilenceInit == Init => SilenceInv
PROOF
  BY TypeInit DEF Init, SilenceInv, Numbered, Traced, HitsFirst, NoJob

LEMMA SilenceStep == SilenceInv /\ [Next]_vars => SilenceInv'
PROOF
  <1> SUFFICES ASSUME SilenceInv, [Next]_vars PROVE SilenceInv'
    OBVIOUS
  <1>1. TypeOK'
    BY TypeStep DEF SilenceInv
  <1>2. CASE Tick \/ UNCHANGED vars
    BY <1>1, <1>2 DEF Tick, vars, SilenceInv, Numbered, Traced, HitsFirst
  <1>3. ASSUME NEW c \in Conversation, Converse(c) PROVE SilenceInv'
    BY <1>1, <1>3, NumberedStep, TracedStep, HitsStep DEF SilenceInv
  <1> QED
    BY <1>2, <1>3 DEF Next

\* Nobody is given an answer its reader has rejected, nor one rejected where it was given
\* again, whoever of the reader's conversations rejected it
THEOREM RejectionSilences == Spec => RejectedSilenced
PROOF
  <1>1. SilenceInv /\ [Next]_vars
          => [\A c \in Conversation : GivenAgain(c) =>
                \A x \in rejected : steps[x].run # steps[job'[c].hit].run]_vars
    <2> SUFFICES ASSUME SilenceInv, Next, NEW c \in Conversation, GivenAgain(c),
                        NEW x \in rejected
                 PROVE  steps[x].run # steps[job'[c].hit].run
      OBVIOUS
    <2>1. Converse(c)
      BY Counts DEF SilenceInv, GivenAgain, Next, Tick
    <2>2. PICK key : job'[c].hit \in Remembered(job[c].by, key)
      BY <2>1, Given DEF SilenceInv
    <2> DEFINE s == job'[c].hit
    <2>3. s \in DOMAIN steps /\ steps[s].same = None /\ x # s /\ steps[x].same # s
      BY <2>2 DEF Remembered
    <2>4. steps[s].run = s
      BY <2>3 DEF SilenceInv, Traced
    <2>5. x \in DOMAIN steps
      BY DEF SilenceInv, TypeOK
    <2>6. steps[x].run = x \/ steps[x].run = steps[x].same
      BY <2>5 DEF SilenceInv, Traced
    <2> QED
      BY <2>3, <2>4, <2>6
  <1> QED
    BY <1>1, SilenceInit, SilenceStep, PTL DEF Spec, RejectedSilenced

-----------------------------------------------------------------------------
(* How old an answer given again is *)

\* What was read for a question asked at a time: by a query after it, or of memory, that
\* was fresh at it
TrueAt(a, at) ==
  /\ a.route = "warehouse" => at =< a.asOf
  /\ a.route = "memory" => a.slow = Ever \/ at < a.asOf + a.slow

\* What is asked was asked by now, and what an ask has drawn was true then
Drawn ==
  \A c \in Conversation :
    /\ job[c].pc = "run" => job[c].at =< now
    /\ job[c].pc \notin {"keep", "same"} => job[c].answer = None
    /\ job[c].pc = "keep" /\ job[c].answer # None => TrueAt(job[c].answer, job[c].at)

\* What is kept is within its bound for as long as it holds
KeptWithin ==
  \A s \in DOMAIN steps : \A time \in Nat :
    steps[s].answer # None /\ HoldsAt(s, time) => Within(steps[s].answer, time)

GivenInv == SilenceInv /\ Drawn /\ KeptWithin /\ GivenWithin

LEMMA HoldsWithin ==
  ASSUME NEW a \in Answer, NEW at \in Nat, NEW time \in Nat,
         TrueAt(a, at),
         a.cadence = Ever \/ time < at + a.cadence
  PROVE  Within(a, time)
PROOF
  <1>1. /\ a.asOf \in Nat
        /\ a.cadence = Ever \/ a.cadence \in Nat
        /\ a.slow = Ever \/ (a.slow \in Nat /\ a.cadence # Ever)
    <2>1. a.asOf \in 0 .. MaxTime /\ a.cadence \in Cadence /\ a.slow \in Cadence
      BY DEF Answer
    <2>2. a.slow = Ever \/ a.cadence # Ever
      BY DEF Answer
    <2>3. \A d \in Cadence : d = Ever \/ d \in Nat
      BY AnswersAssumption
    <2>4. a.asOf \in Nat
      BY <2>1, AnswersAssumption
    <2> QED
      BY <2>1, <2>2, <2>3, <2>4
  <1>2. CASE a.cadence = Ever
    BY <1>1, <1>2 DEF Within, TrueAt
  <1>3. CASE a.cadence # Ever /\ a.slow = Ever
    BY <1>1, <1>3 DEF Within, TrueAt
  <1>4. CASE a.cadence # Ever /\ a.slow # Ever
    <2>1. a.cadence \in Nat /\ a.slow \in Nat /\ time < at + a.cadence
      BY <1>1, <1>4
    <2>2. a.route = "warehouse" => time < a.asOf + a.cadence
      BY <1>1, <2>1 DEF TrueAt
    <2>3. a.route = "memory" => time < a.asOf + a.slow + a.cadence
      BY <1>1, <1>4, <2>1 DEF TrueAt
    <2> QED
      BY <2>2, <2>3 DEF Within
  <1> QED
    BY <1>2, <1>3, <1>4

\* What a conversation's step leaves it with: nothing drawn, a question asked now, an
\* answer given again, or what it has just read
LEMMA Draws ==
  ASSUME TypeOK, Drawn, NEW c \in Conversation, Converse(c)
  PROVE  \/ job'[c].pc \in {"ready", "correct", "over"} /\ job'[c].answer = None
         \/ job'[c].pc = "run" /\ job'[c].answer = None /\ job'[c].at = now
         \/ job'[c].pc = "same"
         \/ /\ job'[c].pc = "keep"
            /\ job'[c].answer # None => TrueAt(job'[c].answer, job'[c].at)
PROOF
  <1>1. job \in [Conversation -> JobType] /\ job[c] \in JobType
    BY DEF TypeOK
  <1>2. job[c].pc \notin {"keep", "same"} => job[c].answer = None
    BY DEF Drawn
  <1>3. CASE Open(c)
    BY <1>1, <1>3 DEF Open, Goes, NoJob
  <1>4. CASE Request(c)
    BY <1>1, <1>2, <1>4 DEF Request, NewTask, Goes, JobType
  <1>5. CASE Reply(c)
    BY <1>1, <1>2, <1>5 DEF Reply, Goes, JobType
  <1>6. CASE Object(c)
    <2>1. ASSUME NEW j \in JobType, NEW f \in Feedback, Reject(c, j, f), j.answer = None
          PROVE  job'[c].pc = "correct" /\ job'[c].answer = None
      BY <1>1, <2>1 DEF Reject, Goes, JobType
    <2>2. NewTask(job[c]) \in JobType
      BY <1>1, NewTaskType
    <2>3. job[c].answer = None /\ NewTask(job[c]).answer = None
      BY <1>1, <1>2, <1>6 DEF Object, NewTask, JobType
    <2>4. \E f \in Feedback : Reject(c, job[c], f) \/ Reject(c, NewTask(job[c]), f)
      BY <1>6 DEF Object
    <2> QED
      BY <1>1, <2>1, <2>2, <2>3, <2>4
  <1>7. CASE Ask(c) \/ Correct(c)
    <2> PICK key : Look(c, key) /\ job[c].pc \in {"ready", "correct"}
      BY <1>7 DEF Ask, Correct
    <2> DEFINE j == [job[c] EXCEPT !.at = now, !.key = key, !.asks = @ + 1]
               run == [j EXCEPT !.pc = "run"]
               same(s) == [j EXCEPT !.pc = "same", !.hit = s, !.answer = steps[s].answer]
    <2>1. run.at = now /\ run.pc = "run" /\ run.answer = job[c].answer
      BY <1>1 DEF JobType
    <2>2. \A s : same(s).pc = "same"
      BY <1>1 DEF JobType
    <2>3. job' = [job EXCEPT ![c] = run] \/ \E s : job' = [job EXCEPT ![c] = same(s)]
      BY DEF Look, Goes
    <2> HIDE DEF run, same
    <2> QED
      BY <1>1, <1>2, <2>1, <2>2, <2>3
  <1>8. CASE Run(c)
    <2> DEFINE j == [job[c] EXCEPT !.pc = "keep"]
               k(a, p) == [j EXCEPT !.answer = a, !.precedent = p]
               m(p) == [j EXCEPT !.precedent = p]
    <2>1. \A a, p : k(a, p).at = job[c].at /\ k(a, p).pc = "keep" /\ k(a, p).answer = a
      BY <1>1 DEF JobType
    <2>2. \A p : m(p).pc = "keep" /\ m(p).answer = job[c].answer
      BY <1>1 DEF JobType
    <2>3. job[c].pc = "run" /\ job[c].at =< now /\ job[c].answer = None
      BY <1>8 DEF Run, Drawn
    <2>4. \/ \E a \in Answer : \E p :
              /\ a.route = "warehouse" => a.asOf = now
              /\ a.route = "memory" => a.asOf \in Fresh(a.slow)
              /\ job' = [job EXCEPT ![c] = k(a, p)]
          \/ \E p : job' = [job EXCEPT ![c] = m(p)]
      <3>1. PICK p \in (Precedent \ j.hushed) \cup {None} :
                  \/ \E a \in Answer :
                       /\ a.route = "warehouse" => a.asOf = now
                       /\ a.route = "memory" => a.asOf \in Fresh(a.slow)
                       /\ Goes(c, k(a, p))
                  \/ Goes(c, m(p))
        BY <1>8 DEF Run
      <3> HIDE DEF k, m
      <3> QED
        BY <3>1 DEF Goes
    <2>5. ASSUME NEW a \in Answer, a.route = "warehouse" => a.asOf = now,
                 a.route = "memory" => a.asOf \in Fresh(a.slow)
          PROVE  TrueAt(a, job[c].at)
      <3>1. job[c].at \in Nat /\ now \in Nat
        BY <1>1, AnswersAssumption DEF JobType, TypeOK
      <3>2. a.route = "warehouse" => job[c].at =< a.asOf
        BY <2>3, <2>5
      <3>3. a.slow = Ever \/ a.slow \in Nat
        BY AnswersAssumption DEF Answer
      <3>4. a.route = "memory" => a.asOf \in Nat /\ (a.slow = Ever \/ now < a.asOf + a.slow)
        BY <2>5, <3>1 DEF Fresh
      <3>5. a.route = "memory" => a.slow = Ever \/ job[c].at < a.asOf + a.slow
        BY <2>3, <3>1, <3>3, <3>4
      <3> QED
        BY <3>2, <3>5 DEF TrueAt
    <2> HIDE DEF k, m
    <2> QED
      BY <1>1, <2>1, <2>2, <2>3, <2>4, <2>5
  <1>9. CASE Keep(c) \/ SameAs(c)
    <2>1. job' = [job EXCEPT ![c] = Returned(job[c], c)]
      BY <1>9 DEF Keep, SameAs, Goes
    <2>2. Returned(job[c], c).answer = None /\ Returned(job[c], c).pc = "ready"
      BY <1>1 DEF Returned, JobType
    <2> QED
      BY <1>1, <2>1, <2>2
  <1>10. CASE End(c)
    BY <1>1, <1>10 DEF End, Goes, NoJob
  <1> QED
    BY <1>3, <1>4, <1>5, <1>6, <1>7, <1>8, <1>9, <1>10 DEF Converse

LEMMA KeptStep ==
  ASSUME GivenInv, NEW c \in Conversation, Converse(c)
  PROVE  KeptWithin'
PROOF
  <1>1. job[c] \in JobType /\ JobOk(job[c]) /\ DOMAIN steps \subseteq Ids
    BY DEF GivenInv, SilenceInv, TypeOK
  <1>2. CASE steps' = steps
    BY <1>2 DEF GivenInv, KeptWithin, HoldsAt
  <1>3. ASSUME NEW s, Recorded(c, job[c], s),
               \A time \in Nat : s.answer # None /\ (s.until = Ever \/ time < s.until)
                                   => Within(s.answer, time)
        PROVE  KeptWithin'
    BY <1>3 DEF Recorded, GivenInv, KeptWithin, HoldsAt
  <1>4. CASE Keep(c)
    <2> DEFINE s == [NewStep(c, job[c]) EXCEPT !.key = job[c].key,
                       !.until = HoldsUntil(job[c]), !.answer = job[c].answer]
    <2>1. s.until = HoldsUntil(job[c]) /\ s.answer = job[c].answer
      BY DEF NewStep
    <2>2. Recorded(c, job[c], s) /\ job[c].pc = "keep"
      BY <1>4 DEF Keep
    <2>3. ASSUME NEW time \in Nat, s.answer # None, s.until = Ever \/ time < s.until
          PROVE  Within(s.answer, time)
      <3> DEFINE a == job[c].answer
      <3>1. a \in Answer /\ a # None /\ job[c].at \in Nat
        BY <1>1, <2>1, <2>3 DEF JobType
      <3>2. a.cadence = Ever \/ (a.cadence # Ever /\ a.cadence \in Nat)
        BY <3>1, AnswersAssumption DEF Answer
      <3>3. a.cadence = Ever \/ time < job[c].at + a.cadence
        BY <2>1, <2>3, <3>1, <3>2, AnswersAssumption DEF HoldsUntil
      <3>4. TrueAt(a, job[c].at)
        BY <2>2, <3>1 DEF GivenInv, Drawn
      <3> QED
        BY <2>1, <3>1, <3>3, <3>4, HoldsWithin
    <2> HIDE DEF s
    <2> QED
      BY <1>3, <2>2, <2>3
  <1>5. CASE SameAs(c)
    <2> DEFINE was == steps[job[c].hit]
               s == [NewStep(c, job[c]) EXCEPT !.key = was.key, !.until = was.until,
                       !.answer = was.answer, !.same = job[c].hit,
                       !.precedent = was.precedent, !.run = was.run]
    <2>1. s.until = was.until /\ s.answer = was.answer
      BY DEF NewStep
    <2>2. Recorded(c, job[c], s) /\ job[c].hit \in DOMAIN steps
      BY <1>1, <1>5 DEF SameAs, JobOk
    <2>3. \A time \in Nat : was.answer # None /\ (was.until = Ever \/ time < was.until)
                              => Within(was.answer, time)
      BY <2>2 DEF GivenInv, KeptWithin, HoldsAt
    <2> HIDE DEF s
    <2> QED
      BY <1>3, <2>1, <2>2, <2>3
  <1> QED
    BY <1>2, <1>4, <1>5 DEF Converse, Open, Request, Reply, Object, Ask, Correct, Look, Run, End

LEMMA GivenConverse ==
  ASSUME GivenInv, NEW c \in Conversation, Converse(c)
  PROVE  GivenWithin' /\ Drawn'
PROOF
  <1>1. TypeOK /\ Numbered /\ now \in Nat /\ JobOk(job[c])
    BY AnswersAssumption DEF GivenInv, SilenceInv, TypeOK
  <1>2. now' = now
    BY DEF Converse, Open, Request, Reply, Object, Ask, Correct, Look, Run, Keep, SameAs, End
  <1>3. \A d \in Conversation \ {c} : job'[d] = job[d]
    BY <1>1, Counts
  <1>4. Drawn'
    <2>1. now \in Nat /\ \A d \in Conversation : job[d].at \in Nat
      BY <1>1 DEF TypeOK, JobType
    <2> QED
      BY <1>1, <1>2, <1>3, <2>1, Draws DEF GivenInv, Drawn
  <1>5. job'[c].hit # None => Within(job'[c].answer, job'[c].at)
    <2>1. job[c].hit # None => job'[c].hit = None
      <3>1. job[c].hit # None => job[c].pc = "same" /\ job'[c].pc \in {"ready", "correct", "over"}
        BY <1>1, Counts DEF JobOk, Counting, GoingOn, AtNone
      <3>2. JobOk(job[c])'
        BY <1>1, ConverseType DEF TypeOK
      <3> QED
        BY <3>1, <3>2 DEF JobOk
    <2>2. ASSUME GivenAgain(c) PROVE Within(job'[c].answer, job'[c].at)
      <3> DEFINE s == job'[c].hit
      <3>1. s \in DOMAIN steps /\ steps[s].answer # None /\ HoldsAt(s, now)
        BY <1>1, <2>2, Given DEF Remembered
      <3>2. job'[c].answer = steps[s].answer /\ job'[c].at = now
        BY <1>1, <2>2, Given
      <3> QED
        BY <1>1, <3>1, <3>2 DEF GivenInv, KeptWithin
    <2> QED
      BY <2>1, <2>2 DEF GivenAgain
  <1> QED
    BY <1>3, <1>4, <1>5 DEF GivenInv, GivenWithin

LEMMA GivenStep == GivenInv /\ [Next]_vars => GivenInv'
PROOF
  <1> SUFFICES ASSUME GivenInv, [Next]_vars PROVE GivenInv'
    OBVIOUS
  <1>1. SilenceInv'
    BY SilenceStep DEF GivenInv
  <1>2. CASE Tick \/ UNCHANGED vars
    <2>1. now \in Nat /\ now' \in Nat /\ now =< now'
      BY <1>2, AnswersAssumption DEF GivenInv, SilenceInv, TypeOK, Tick, vars
    <2>2. UNCHANGED <<steps, job>>
      BY <1>2 DEF Tick, vars
    <2>3. \A c \in Conversation : job[c].at \in Nat
      BY DEF GivenInv, SilenceInv, TypeOK, JobType
    <2>4. Drawn'
      BY <2>1, <2>2, <2>3 DEF GivenInv, Drawn
    <2> QED
      BY <1>1, <2>2, <2>4 DEF GivenInv, KeptWithin, GivenWithin, HoldsAt
  <1>3. ASSUME NEW c \in Conversation, Converse(c) PROVE GivenInv'
    BY <1>1, <1>3, KeptStep, GivenConverse DEF GivenInv
  <1> QED
    BY <1>2, <1>3 DEF Next

\* An answer given again is no older than its bound, however many times it is asked for
THEOREM GivenInTime == Spec => []GivenWithin
PROOF
  <1>1. Init => GivenInv
    BY SilenceInit DEF Init, GivenInv, Drawn, KeptWithin, GivenWithin, NoJob
  <1>2. GivenInv => GivenWithin
    BY DEF GivenInv
  <1> QED
    BY <1>1, <1>2, GivenStep, PTL DEF Spec
=============================================================================
