--------------------------- MODULE GatewayProofs ----------------------------
(***************************************************************************)
(* What the gateway and the pass-through keep for every number of          *)
(* processes, readers, pooled connections and deployments.                 *)
(***************************************************************************)
EXTENDS Gateway, FiniteSetTheorems, TLAPS

\* What a request knows where it is: a reader's has their list, and one the gateway is
\* to sign for a reader has found that the virtual graph enforces.
Flow ==
  \A g \in Process :
    /\ proc[g].pc \in {"list", "tags", "keep", "write"} => proc[g].whom \in Reader
    /\ proc[g].pc \in {"tags", "keep", "write"} => proc[g].list \in ListType
    /\ /\ proc[g].pc \in {"sign", "open", "fill", "read"}
       /\ proc[g].whom # Own /\ proc[g].route # "composite"
       => enforced[g] \in Nat \ {0}

\* A query for a reader is signed for that reader; but for a composite's, by a process that
\* found this Virtual Graph, or one before it, enforcing.
QueryOk(q) ==
  /\ q.token # Nil => q.token.for = q.for
  /\ q.for # Own => q.token # Nil
  /\ q.for # Own /\ q.route # "composite" =>
       q.checked \in Nat \ {0} /\ q.checked <= jvm.born /\ (q.checked = jvm.born => jvm.passes)
RanRight(r) ==
  \/ r.whom = r.query.for
  \/ ~jvm.passes /\ (Deceived(r.query) \/ r.query.route = "composite")
\* What a statement goes on with: the principal its token names, and a connection as them.
Sound(r) ==
  /\ r.pc # "idle" => QueryOk(r.query)
  /\ r.pc = "ready" => (Signed(r.stmt) <=> r.query.token # Nil)
  /\ r.pc \in {"verified", "connected"} => jvm.passes /\ Signed(r.stmt)
  /\ r.pc = "verified" => r.as = r.query.for
  /\ r.pc = "connected" => r.target.as = r.query.for
  /\ r.pc = "ran" => RanRight(r)
  /\ r.pc = "refused" => jvm.passes
\* In a pooled connection's map, under each principal a connection as that principal.
Pooled == \A c \in Connection, p \in Reader : pool[c][p] # Nil => pool[c][p].as = p
Threads == Pooled /\ \A t \in Process : Sound(thread[t])
Found ==
  \A g \in Process : enforced[g] \in Nat \ {0} =>
    enforced[g] <= jvm.born /\ (enforced[g] = jvm.born => jvm.passes)

Base == TypeOK /\ Flow /\ Threads /\ Found

LEMMA BaseInit == Init => Base
PROOF
  <1> SUFFICES ASSUME Init PROVE Base
    OBVIOUS
  <1> USE GatewayAssumption, PassthroughAssumption
  <1>1. PICK s \in Start :
          /\ jvm = Fresh(1, s.passes)
          /\ pool = [c \in Connection |-> Unopened] /\ thread = [t \in Process |-> Resting]
          /\ keyFile = s.key /\ now = 0
          /\ may = s.may /\ last = [p \in Reader |-> [x \in Grants |-> 0]]
          /\ lists = [p \in Reader |->
               IF s.cached THEN [shows |-> s.may[p], built |-> 0, began |-> 0] ELSE Absent]
          /\ enforced = [g \in Process |-> Nil] /\ proc = [g \in Process |-> NoOne]
          /\ torn = FALSE
    BY DEF Init
  <1>2. DriverType
    BY <1>1 DEF DriverType, Fresh, Keys, ThreadType, Unopened
  <1>3. GateType
    BY <1>1 DEF GateType, ListType
  <1>4. Flow
    BY <1>1 DEF Flow, NoOne
  <1>5. Threads /\ Found
    BY <1>1 DEF Threads, Pooled, Unopened, Sound, Resting, Found
  <1> QED
    BY <1>2, <1>3, <1>4, <1>5 DEF Base, TypeOK

\* A step of one session's thread, with the same Virtual Graph.
LEMMA LinkSteps ==
  ASSUME DriverType, Threads, NEW t \in Process, NEW r, ThreadType(r), Sound(r),
         thread' = [thread EXCEPT ![t] = r],
         jvm' = jvm \/ (\E k \in Keys : jvm' = [jvm EXCEPT !.key = k]),
         pool' \in [Connection -> [Reader -> Link \cup {Nil}]], Pooled',
         keyFile' = keyFile, now' = now
  PROVE  DriverType' /\ Threads'
PROOF
  <1>1. /\ jvm' \in [born : Nat \ {0}, passes : BOOLEAN, key : Keys \cup {Nil}]
        /\ jvm'.born = jvm.born /\ jvm'.passes = jvm.passes
    BY DEF DriverType
  <1>2. DOMAIN thread' = Process /\ thread'[t] = r /\ \A u \in Process \ {t} : thread'[u] = thread[u]
    BY DEF DriverType
  <1>3. \A u \in Process : ThreadType(thread'[u])
    BY <1>2 DEF DriverType
  <1>4. \A u \in Process : Sound(thread'[u])
    BY <1>2 DEF Threads
  <1>5. \A u \in Process : ThreadType(thread[u])' <=> ThreadType(thread'[u])
    BY DEF ThreadType, Ran
  <1>6. \A u \in Process : Sound(thread[u])' <=> Sound(thread'[u])
    BY <1>1 DEF Sound, QueryOk, RanRight, Deceived
  <1>7. DriverType'
    BY <1>1, <1>2, <1>3, <1>5 DEF DriverType
  <1> QED
    BY <1>4, <1>6, <1>7 DEF Threads

LEMMA ThreadSteps ==
  ASSUME DriverType, Threads, NEW t \in Process, NEW r, ThreadType(r), Sound(r),
         thread' = [thread EXCEPT ![t] = r],
         jvm' = jvm \/ (\E k \in Keys : jvm' = [jvm EXCEPT !.key = k]),
         pool' = pool, keyFile' = keyFile, now' = now
  PROVE  DriverType' /\ Threads'
PROOF
  <1>1. pool' \in [Connection -> [Reader -> Link \cup {Nil}]] /\ Pooled'
    BY DEF DriverType, Threads, Pooled
  <1> QED
    BY <1>1, LinkSteps

\* Nothing of the gateway's changes, nor the Virtual Graph it found.
LEMMA GateStays ==
  ASSUME GateType, Flow, Found, UNCHANGED <<may, last, lists, enforced, proc, torn>>,
         jvm'.born = jvm.born, jvm'.passes = jvm.passes
  PROVE  GateType' /\ Flow' /\ Found'
PROOF
  BY DEF GateType, Flow, Found

\* What a thread's record holds where it is.
LEMMA ThreadHolds ==
  ASSUME DriverType, Threads, NEW t \in Process, thread[t].pc # "idle"
  PROVE  /\ thread[t].query \in QueryType /\ QueryOk(thread[t].query)
         /\ thread[t].pc # "asked" => thread[t].conn \in Connection /\ thread[t].stmt \in Statement
         /\ thread[t].pc = "ready" => (Signed(thread[t].stmt) <=> thread[t].query.token # Nil)
         /\ thread[t].pc = "verified" => thread[t] \in Verified
         /\ thread[t].pc = "connected" => thread[t] \in Connected
PROOF
  <1>1. ThreadType(thread[t]) /\ Sound(thread[t])
    BY DEF DriverType, Threads
  <1>2. CASE thread[t] = Resting
    BY <1>2 DEF Resting
  <1>3. CASE thread[t] \in [pc : {"asked"}, query : QueryType]
    BY <1>3, <1>1 DEF Sound
  <1>4. CASE thread[t] \in Prepared \cup Verified \cup Connected \cup Ended
    BY <1>4, <1>1 DEF Sound, Prepared, Verified, Connected, Ended
  <1>5. CASE Ran(thread[t])
    BY <1>5, <1>1 DEF Sound, Ran
  <1> QED
    BY <1>1, <1>2, <1>3, <1>4, <1>5 DEF ThreadType

\* A statement verified, connected, run as whom the query is for, refused or failed.
LEMMA ExecuteKeeps ==
  ASSUME DriverType, Threads, NEW t \in Process, Execute(t)
  PROVE  DriverType' /\ Threads' /\ jvm'.born = jvm.born /\ jvm'.passes = jvm.passes
PROOF
  <1> DEFINE th == thread[t]
  <1> USE GatewayAssumption, PassthroughAssumption
  <1>0. th.pc \in {"ready", "verified", "connected"} /\ Sound(th) /\ ThreadType(th)
    BY DEF Execute, RunCheck, RefuseUnsigned, NoKey, Refuse, Verify, Connect, RunAs, Fails, Judged, RunPlain,
           Threads, DriverType
  <1>1. /\ th.query \in QueryType /\ th.conn \in Connection /\ th.stmt \in Statement
        /\ QueryOk(th.query) /\ (th.pc = "ready" => (Signed(th.stmt) <=> th.query.token # Nil))
    BY <1>0, ThreadHolds
  <1>2. ASSUME NEW why \in {"unsigned", "no key", "broken", "forged", "expired", "warehouse"},
               NEW pc \in {"refused", "failed"}, jvm.passes
        PROVE  LET r == [pc |-> pc, query |-> th.query, conn |-> th.conn, stmt |-> th.stmt, why |-> why]
               IN  ThreadType(r) /\ Sound(r)
    BY <1>1, <1>2 DEF ThreadType, Ended, Sound
  <1>3. ASSUME NEW whom \in Whom, NEW sent,
               RanRight([pc |-> "ran", query |-> th.query, conn |-> th.conn, stmt |-> th.stmt,
                         whom |-> whom, sent |-> sent])
        PROVE  LET r == [pc |-> "ran", query |-> th.query, conn |-> th.conn, stmt |-> th.stmt,
                         whom |-> whom, sent |-> sent]
               IN  ThreadType(r) /\ Sound(r)
    BY <1>1, <1>3 DEF ThreadType, Ran, Sound, DriverType
  <1>4. Own \in Whom
    BY DEF Whom
  <1>5. ASSUME Loaded # Absent PROVE Loaded \in Keys
    BY <1>5 DEF DriverType, Loaded
  <1>6. CASE RunCheck(t)
    <2>1. th.query.token = Nil /\ th.query.for = Own
      BY <1>6, <1>1, PassthroughAssumption DEF RunCheck, QueryOk
    <2>2. RanRight([pc |-> "ran", query |-> th.query, conn |-> th.conn, stmt |-> th.stmt,
                    whom |-> Own, sent |-> Bound(th.stmt, Nil)])
      BY <2>1 DEF RanRight
    <2> QED
      BY <2>2, <1>6, <1>3, <1>4, ThreadSteps DEF RunCheck, Runs, DriverType
  <1>7. CASE RefuseUnsigned(t)
    BY <1>7, <1>2, ThreadSteps DEF RefuseUnsigned, Ends, DriverType
  <1>8. CASE NoKey(t)
    BY <1>8, <1>2, ThreadSteps DEF NoKey, Ends, DriverType
  <1>9. CASE Refuse(t)
    <2>1. /\ Verdict(Loaded, th.query.token) \in {"broken", "forged", "expired"}
          /\ Loaded \in Keys /\ jvm.passes /\ jvm' = [jvm EXCEPT !.key = Loaded]
      BY <1>9, <1>5 DEF Refuse, Judged
    <2>2. jvm'.born = jvm.born /\ jvm'.passes = jvm.passes
      BY <2>1 DEF DriverType
    <2> QED
      BY <2>1, <2>2, <1>9, <1>2, ThreadSteps DEF Refuse, Ends, DriverType
  <1>10. CASE Verify(t)
    <2> DEFINE token == th.query.token
               r == [pc |-> "verified", query |-> th.query, conn |-> th.conn, stmt |-> th.stmt, as |-> token.for]
    <2>1. /\ Signed(th.stmt) /\ th.pc = "ready"
          /\ Loaded \in Keys /\ jvm.passes /\ jvm' = [jvm EXCEPT !.key = Loaded]
      BY <1>10, <1>5 DEF Verify, Judged
    <2>2. token # Nil /\ token \in TokenType
      BY <2>1, <1>1 DEF QueryType
    <2>3. token.for = th.query.for /\ token.for \in Whom
      BY <2>2, <1>1 DEF QueryOk, TokenType
    <2>4. ThreadType(r) /\ Sound(r)
      BY <1>1, <2>1, <2>3 DEF ThreadType, Verified, Sound
    <2>5. thread' = [thread EXCEPT ![t] = r] /\ UNCHANGED <<pool, keyFile, now>>
      BY <1>10 DEF Verify
    <2>6. jvm'.born = jvm.born /\ jvm'.passes = jvm.passes
      BY <2>1 DEF DriverType
    <2> HIDE DEF r
    <2> QED
      BY <2>1, <2>4, <2>5, <2>6, ThreadSteps
  <1>12. CASE Connect(t)
    <2> DEFINE c == th.conn
               p == th.as
               l == ForPrincipal(c, p)
               r == [pc |-> "connected", query |-> th.query, conn |-> c, stmt |-> th.stmt, target |-> l]
    <2>1. th.pc = "verified" /\ th \in Verified
      BY <1>12, ThreadHolds DEF Connect
    <2>2. p \in Whom /\ p = th.query.for /\ jvm.passes /\ Signed(th.stmt) /\ c \in Connection
      BY <1>0, <2>1 DEF Verified, Sound
    <2>3. l \in Link /\ l.as = p
      BY <2>2 DEF ForPrincipal, BaseLink, Impersonating, Alive, Link, Whom, Threads, Pooled, DriverType
    <2>4. thread' = [thread EXCEPT ![t] = r] /\ UNCHANGED <<jvm, keyFile, now>>
          /\ pool' = IF p = Own THEN pool ELSE [pool EXCEPT ![c][p] = l]
      BY <1>12 DEF Connect
    <2> HIDE DEF l, p
    <2>5. ThreadType(r) /\ Sound(r)
      BY <1>1, <2>2, <2>3 DEF ThreadType, Connected, Sound
    <2>6. pool' \in [Connection -> [Reader -> Link \cup {Nil}]] /\ Pooled'
      BY <2>2, <2>3, <2>4 DEF Whom, DriverType, Threads, Pooled
    <2> HIDE DEF r
    <2> QED
      BY <2>4, <2>5, <2>6, LinkSteps
  <1>13. CASE RunAs(t)
    <2> DEFINE sent == Without(th.stmt, Bound(th.stmt, th.query.token))
    <2>1. th.pc = "connected" /\ th \in Connected
      BY <1>13, ThreadHolds DEF RunAs
    <2>2. th.target.as = th.query.for /\ th.target.as \in Whom
      BY <1>0, <2>1 DEF Connected, Link, Sound
    <2>3. thread' = [thread EXCEPT ![t] =
            [pc |-> "ran", query |-> th.query, conn |-> th.conn, stmt |-> th.stmt,
             whom |-> th.target.as, sent |-> sent]]
          /\ UNCHANGED <<jvm, pool, keyFile, now>>
      BY <1>13 DEF RunAs, Runs
    <2> HIDE DEF sent
    <2>4. RanRight([pc |-> "ran", query |-> th.query, conn |-> th.conn, stmt |-> th.stmt,
                    whom |-> th.target.as, sent |-> sent])
      BY <2>2 DEF RanRight
    <2> QED
      BY <2>2, <2>3, <2>4, <1>3, ThreadSteps
  <1>14. CASE Fails(t)
    <2>1. jvm.passes
      BY <1>0, <1>14 DEF Fails, Sound
    <2> QED
      BY <2>1, <1>14, <1>2, ThreadSteps DEF Fails, Ends
  <1>11. CASE RunPlain(t)
    <2>1. RanRight([pc |-> "ran", query |-> th.query, conn |-> th.conn, stmt |-> th.stmt,
                    whom |-> Own, sent |-> Bound(th.stmt, th.query.token)])
      BY <1>11, <1>1 DEF RunPlain, RanRight, QueryOk, QueryType, DriverType, Deceived
    <2> QED
      BY <2>1, <1>11, <1>3, <1>4, ThreadSteps DEF RunPlain, Runs, DriverType
  <1> QED
    BY <1>6, <1>7, <1>8, <1>9, <1>10, <1>11, <1>12, <1>13, <1>14 DEF Execute

\* The other steps of the driver's.
LEMMA DriverKeeps ==
  ASSUME Base, Driver, UNCHANGED gate
  PROVE  Base'
PROOF
  <1> USE PassthroughAssumption DEF Base, TypeOK
  <1> SUFFICES DriverType' /\ Threads' /\ jvm'.born = jvm.born /\ jvm'.passes = jvm.passes
    BY GateStays DEF gate
  <1>1. ASSUME NEW t \in Process, Execute(t)
        PROVE  DriverType' /\ Threads' /\ jvm'.born = jvm.born /\ jvm'.passes = jvm.passes
    BY <1>1, ExecuteKeeps
  <1>2. ASSUME NEW t \in Process, More(t) PROVE DriverType' /\ Threads' /\ jvm' = jvm
    <2>1. thread[t].query \in QueryType /\ QueryOk(thread[t].query)
      BY <1>2, ThreadHolds DEF More
    <2>2. ThreadType([pc |-> "asked", query |-> thread[t].query])
          /\ Sound([pc |-> "asked", query |-> thread[t].query])
      BY <2>1 DEF ThreadType, Sound
    <2> QED
      BY <1>2, <2>2, ThreadSteps DEF More, DriverType
  <1>3. ASSUME NEW t \in Process, NEW c \in Connection, NEW st \in Statement, Prepare(t, c, st)
        PROVE  DriverType' /\ Threads' /\ jvm' = jvm
    <2> DEFINE r == [pc |-> "ready", query |-> thread[t].query, conn |-> c, stmt |-> st]
    <2>1. thread[t].query \in QueryType /\ QueryOk(thread[t].query)
      BY <1>3, ThreadHolds DEF Prepare
    <2>2. ThreadType(r) /\ Sound(r)
      BY <1>3, <2>1 DEF ThreadType, Prepared, Sound, Prepare
    <2> QED
      BY <1>3, <2>2, ThreadSteps DEF Prepare, DriverType
  <1>4. ASSUME NEW c \in Connection, PoolClose(c)
        PROVE  DriverType' /\ Threads' /\ jvm' = jvm
    <2>1. pool' \in [Connection -> [Reader -> Link \cup {Nil}]] /\ Pooled'
      BY <1>4 DEF PoolClose, DriverType, Threads, Pooled, Unopened
    <2> QED
      BY <1>4, <2>1 DEF PoolClose, DriverType, Threads, ThreadType, Ran, Sound, QueryOk, RanRight, Deceived
  <1>5. ASSUME NEW c \in Connection, NEW p \in Reader, Drop(c, p)
        PROVE  DriverType' /\ Threads' /\ jvm' = jvm
    <2>1. /\ pool[c][p] \in Link /\ pool' = [pool EXCEPT ![c][p] = [pool[c][p] EXCEPT !.open = FALSE]]
          /\ UNCHANGED <<jvm, thread, keyFile, now>>
      BY <1>5 DEF Drop, Alive, DriverType
    <2>2. [pool[c][p] EXCEPT !.open = FALSE] \in Link /\ [pool[c][p] EXCEPT !.open = FALSE].as = pool[c][p].as
      BY <2>1 DEF Link
    <2>3. pool' \in [Connection -> [Reader -> Link \cup {Nil}]] /\ Pooled'
      BY <1>5, <2>1, <2>2 DEF Drop, Alive, DriverType, Threads, Pooled
    <2> QED
      BY <2>1, <2>3 DEF DriverType, Threads, ThreadType, Ran, Sound, QueryOk, RanRight, Deceived
  <1> QED
    BY <1>1, <1>2, <1>3, <1>4, <1>5 DEF Driver

LEMMA KeyCheckedKeeps ==
  ASSUME Base, NEW t \in Process, NEW c \in Connection, NEW st \in Statement, KeyChecked(t, c, st)
  PROVE  Base'
PROOF
  <1> USE PassthroughAssumption DEF Base, TypeOK
  <1> DEFINE r == [pc |-> "ready", query |-> Startup, conn |-> c, stmt |-> st]
  <1>1. PrepareCheck(t, c, st) /\ UNCHANGED <<may, last, lists, enforced, proc, torn>>
    BY DEF KeyChecked
  <1>2. Startup \in QueryType /\ QueryOk(Startup) /\ Startup.token = Nil
    BY DEF Startup, QueryType, QueryOk, Whom
  <1>3. ThreadType(r) /\ Sound(r)
    BY <1>1, <1>2 DEF ThreadType, Prepared, Sound, PrepareCheck
  <1>4. DriverType' /\ Threads' /\ jvm' = jvm
    BY <1>1, <1>3, ThreadSteps DEF PrepareCheck, DriverType
  <1> QED
    BY <1>1, <1>4, GateStays

\* Every query goes with the Virtual Graph that had it: none is left to judge.
LEMMA DeployedKeeps ==
  ASSUME Base, NEW passes \in BOOLEAN, Deployed(passes)
  PROVE  Base'
PROOF
  <1> USE DEF Base, TypeOK, Deployed, Deploy
  <1>1. jvm' = [born |-> jvm.born + 1, passes |-> passes, key |-> Nil] /\ jvm.born \in Nat \ {0}
    BY DEF Fresh, DriverType
  <1>2. DriverType' /\ Threads'
    BY <1>1 DEF DriverType, ThreadType, Threads, Pooled, Unopened, Sound, Resting
  <1>3. GateType' /\ Flow'
    BY DEF GateType, Flow
  <1>4. Found'
    BY <1>1 DEF Found
  <1> QED
    BY <1>2, <1>3, <1>4

\* A step of a process that leaves the driver as it is, but for the key file and the time.
LEMMA DriverStays ==
  ASSUME DriverType, Threads, UNCHANGED <<jvm, pool, thread>>,
         keyFile' \in Keys \cup {Absent}, now' \in Nat
  PROVE  DriverType' /\ Threads'
PROOF
  BY DEF DriverType, Threads, Pooled, ThreadType, Ran, Sound, QueryOk, RanRight, Deceived

\* A request that goes on keeps what it knows.
LEMMA Moves ==
  ASSUME GateType, NEW g \in Process, proc[g].pc # "idle",
         NEW pc \in {"list", "tags", "keep", "write", "check", "probing", "sign", "open", "fill", "read", "waiting"},
         Goes(g, pc)
  PROVE  /\ proc' \in [Process -> Requests \cup {NoOne}]
         /\ proc'[g] = [proc[g] EXCEPT !.pc = pc] /\ proc'[g].pc = pc
         /\ proc'[g].whom = proc[g].whom /\ proc'[g].list = proc[g].list /\ proc'[g].used = proc[g].used
         /\ proc'[g].route = proc[g].route
         /\ \A h \in Process \ {g} : proc'[h] = proc[h]
PROOF
  <1>1. proc[g] \in Requests
    BY DEF GateType, NoOne
  <1>2. [proc[g] EXCEPT !.pc = pc] \in Requests
    BY <1>1 DEF Requests
  <1>3. proc' = [proc EXCEPT ![g] = [proc[g] EXCEPT !.pc = pc]]
    BY DEF Goes
  <1> QED
    BY <1>1, <1>2, <1>3 DEF GateType, Requests

LEMMA AllowKeeps ==
  ASSUME Base, NEW g \in Process, Allow(g)
  PROVE  Base'
PROOF
  <1> USE GatewayAssumption DEF Base, TypeOK, At, Stops
  <1>1. UNCHANGED driver /\ UNCHANGED <<may, last, enforced, torn>>
    BY DEF Allow, TakeList, TornList, ReadTables, ReadTags, OpenList, WriteList
  <1>2. DriverType' /\ Threads'
    BY <1>1, DriverStays DEF driver, DriverType
  <1>3. Found'
    BY <1>1 DEF Found, driver
  <1> SUFFICES GateType' /\ Flow'
    BY <1>2, <1>3
  <1>4. CASE TakeList(g)
    <2>1. Listed(g) \in ListType
      BY <1>4 DEF TakeList, Written, Listed, GateType, Flow
    <2> DEFINE r == [proc[g] EXCEPT !.pc = "check", !.list = Listed(g), !.used = now]
    <2>2. proc' = [proc EXCEPT ![g] = r] /\ lists' = lists
      BY <1>4 DEF TakeList
    <2>3. proc[g] \in Requests
      BY <1>4 DEF TakeList, GateType, NoOne
    <2>4. r \in Requests /\ r.pc = "check"
      BY <2>1, <2>3 DEF Requests, DriverType
    <2> HIDE DEF r
    <2>5. GateType'
      BY <1>1, <2>2, <2>4 DEF GateType
    <2> QED
      BY <1>1, <2>2, <2>4, <2>5 DEF Flow, GateType
  <1>5. CASE TornList(g)
    BY <1>1, <1>5 DEF TornList, GateType, Flow, NoOne
  <1>6. CASE ReadTables(g)
    <2>1. proc[g] \in Requests /\ proc[g].whom \in Reader
      BY <1>6 DEF ReadTables, GateType, NoOne, Flow
    <2>2. [shows |-> may[proc[g].whom] \cap {"table"}, built |-> 0, began |-> now] \in ListType
      BY DEF ListType, Grants, DriverType
    <2> QED
      BY <1>1, <1>6, <2>1, <2>2 DEF ReadTables, GateType, Flow, Requests
  <1>7. CASE ReadTags(g)
    <2> DEFINE tables == proc[g].list.shows
               tags == IF tables = {} THEN {} ELSE may[proc[g].whom] \cap {"tag"}
    <2>1. proc[g] \in Requests /\ proc[g].whom \in Reader /\ proc[g].list \in ListType
      BY <1>7 DEF ReadTags, GateType, NoOne, Flow
    <2>2. [shows |-> tables \cup tags, built |-> now, began |-> proc[g].list.began] \in ListType
      BY <2>1 DEF ListType, Grants, DriverType
    <2> QED
      BY <1>1, <1>7, <2>1, <2>2 DEF ReadTags, GateType, Flow, Requests, DriverType
  <1>8. CASE OpenList(g)
    BY <1>1, <1>8, Moves DEF OpenList, GateType, Flow
  <1>9. CASE WriteList(g)
    BY <1>1, <1>9, Moves DEF WriteList, GateType, Flow
  <1> QED
    BY <1>4, <1>5, <1>6, <1>7, <1>8, <1>9 DEF Allow

\* A query arrives in a session that had none.
LEMMA TakeKeeps ==
  ASSUME DriverType, Threads, NEW t \in Process, NEW q \in QueryType, QueryOk(q), Take(t, q), now' = now
  PROVE  DriverType' /\ Threads' /\ jvm' = jvm
PROOF
  <1>1. ThreadType([pc |-> "asked", query |-> q]) /\ Sound([pc |-> "asked", query |-> q])
    BY DEF ThreadType, Sound
  <1> QED
    BY <1>1, ThreadSteps DEF Take, DriverType

LEMMA AnsweredKeeps ==
  ASSUME DriverType, Threads, NEW t \in Process, Answered(t), now' = now
  PROVE  DriverType' /\ Threads' /\ jvm' = jvm
PROOF
  <1>1. ThreadType(Resting) /\ Sound(Resting)
    BY DEF ThreadType, Sound, Resting
  <1> QED
    BY <1>1, ThreadSteps DEF Answered, DriverType

LEMMA EnforceKeeps ==
  ASSUME Base, NEW g \in Process, Enforce(g)
  PROVE  Base'
PROOF
  <1> USE GatewayAssumption, PassthroughAssumption DEF Base, TypeOK, At, Stops
  <1>1. CASE Probe(g)
    <2>1. Unsigned \in QueryType /\ QueryOk(Unsigned)
      BY DEF Unsigned, QueryType, QueryOk, Whom, Routes
    <2>2. DriverType' /\ Threads' /\ jvm' = jvm
      BY <1>1, <2>1, TakeKeeps DEF Probe
    <2> QED
      BY <1>1, <2>2, Moves DEF Probe, GateType, Flow, Found
  <1>2. CASE Known(g)
    <2>1. DriverType' /\ Threads' /\ jvm' = jvm
      BY <1>2, DriverStays DEF Known, driver, DriverType
    <2>2. CASE enforced[g] = 0
      <3>1. proc' = [proc EXCEPT ![g] = NoOne] /\ UNCHANGED <<may, last, lists, enforced, torn>>
        BY <1>2, <2>2 DEF Known, Unenforced
      <3>2. GateType' /\ Found'
        BY <2>1, <3>1 DEF GateType, Found
      <3>3. Flow'
        BY <3>1 DEF GateType, Flow, NoOne
      <3> QED
        BY <2>1, <3>2, <3>3
    <2>3. CASE enforced[g] # 0
      <3>1. proc[g].pc = "check" /\ Goes(g, "sign") /\ UNCHANGED <<may, last, lists, enforced, torn>>
            /\ enforced[g] # Nil
        BY <1>2, <2>3 DEF Known, Unenforced
      <3>2. /\ proc' \in [Process -> Requests \cup {NoOne}] /\ proc'[g].pc = "sign"
            /\ \A h \in Process \ {g} : proc'[h] = proc[h]
        BY <3>1, Moves
      <3>3. GateType' /\ Found'
        BY <2>1, <3>1, <3>2 DEF GateType, Found
      <3>4. Flow'
        BY <2>3, <3>1, <3>2 DEF GateType, Flow
      <3> QED
        BY <2>1, <3>3, <3>4
    <2> QED
      BY <2>2, <2>3
  <1>3. CASE Probed(g)
    <2>1. DriverType' /\ Threads' /\ jvm' = jvm /\ jvm.born \in Nat \ {0}
      BY <1>3, AnsweredKeeps DEF Probed, DriverType
    <2>2. CASE thread[g].pc = "refused"
      <3>1. jvm.passes
        BY <2>2 DEF Threads, Sound
      <3>2. enforced' = [enforced EXCEPT ![g] = jvm.born] /\ Goes(g, "check")
            /\ UNCHANGED <<may, last, lists, torn>>
        BY <1>3, <2>2 DEF Probed
      <3>3. Found'
        BY <2>1, <3>1, <3>2 DEF Found, GateType
      <3>4. proc[g].pc = "probing"
        BY <1>3 DEF Probed
      <3>5. /\ proc' \in [Process -> Requests \cup {NoOne}] /\ proc'[g].pc = "check"
            /\ \A h \in Process \ {g} : proc'[h] = proc[h]
        BY <3>2, <3>4, Moves
      <3>6. GateType'
        BY <2>1, <3>2, <3>5 DEF GateType
      <3>7. \A h \in Process \ {g} : enforced'[h] = enforced[h]
        BY <3>2 DEF GateType
      <3>8. Flow'
        BY <3>5, <3>7 DEF Flow
      <3> QED
        BY <2>1, <3>3, <3>6, <3>8
    <2>3. CASE thread[g].pc = "ran"
      <3>1. enforced' = [enforced EXCEPT ![g] = 0] /\ Goes(g, "check") /\ UNCHANGED <<may, last, lists, torn>>
        BY <1>3, <2>3 DEF Probed
      <3>2. proc[g].pc = "probing"
        BY <1>3 DEF Probed
      <3>3. Found'
        BY <2>1, <3>1 DEF Found, GateType
      <3>4. /\ proc' \in [Process -> Requests \cup {NoOne}] /\ proc'[g].pc = "check"
            /\ \A h \in Process \ {g} : proc'[h] = proc[h]
        BY <3>1, <3>2, Moves
      <3>5. GateType'
        BY <2>1, <3>1, <3>4 DEF GateType
      <3>6. \A h \in Process \ {g} : enforced'[h] = enforced[h]
        BY <3>1 DEF GateType
      <3>7. Flow'
        BY <3>4, <3>6 DEF Flow
      <3> QED
        BY <2>1, <3>3, <3>5, <3>7
    <2>4. CASE thread[g].pc \notin {"refused", "ran"}
      <3>1. UNCHANGED enforced /\ Stops(g) /\ UNCHANGED <<may, last, lists, torn>>
        BY <1>3, <2>4 DEF Probed
      <3>2. GateType' /\ Found'
        BY <2>1, <3>1 DEF GateType, Found
      <3>3. Flow'
        BY <3>1 DEF GateType, Flow, NoOne
      <3> QED
        BY <2>1, <3>2, <3>3
    <2> QED
      BY <2>2, <2>3, <2>4
  <1> QED
    BY <1>1, <1>2, <1>3 DEF Enforce

LEMMA SignKeeps ==
  ASSUME Base, NEW g \in Process, Sign(g)
  PROVE  Base'
PROOF
  <1> USE GatewayAssumption, PassthroughAssumption DEF Base, TypeOK, At, Stops
  <1>1. CASE LookForKey(g)
    <2>1. DriverType' /\ Threads' /\ jvm' = jvm
      BY <1>1, DriverStays DEF LookForKey, driver, DriverType
    <2>2. PICK pc \in {"open", "read"} : Goes(g, pc)
      BY <1>1 DEF LookForKey
    <2>3. proc[g].pc = "sign" /\ UNCHANGED <<may, last, lists, enforced, torn>>
      BY <1>1 DEF LookForKey
    <2> QED
      <3>1. /\ proc' \in [Process -> Requests \cup {NoOne}]
            /\ proc'[g].pc \in {"open", "read"} /\ proc'[g].whom = proc[g].whom
            /\ proc'[g].route = proc[g].route
            /\ \A h \in Process \ {g} : proc'[h] = proc[h]
        BY <2>2, <2>3, Moves
      <3>2. GateType' /\ Found'
        BY <2>1, <2>2, <2>3, <3>1 DEF GateType, Found
      <3>3. Flow'
        BY <2>2, <2>3, <3>1 DEF Flow
      <3> QED
        BY <2>1, <3>2, <3>3
  <1>2. CASE OpenKey(g)
    <2>1. DriverType' /\ Threads' /\ jvm' = jvm
      BY <1>2, DriverStays DEF OpenKey, Keys, DriverType
    <2>2. proc[g].pc = "open" /\ Goes(g, "fill") /\ UNCHANGED <<may, last, lists, enforced>>
          /\ torn' = (torn \/ keyFile # Absent)
      BY <1>2 DEF OpenKey
    <2>3. /\ proc' \in [Process -> Requests \cup {NoOne}]
          /\ proc'[g].pc = "fill" /\ proc'[g].whom = proc[g].whom /\ proc'[g].route = proc[g].route
          /\ \A h \in Process \ {g} : proc'[h] = proc[h]
      BY <2>2, Moves
    <2>4. GateType' /\ Found'
      BY <2>1, <2>2, <2>3 DEF GateType, Found
    <2>5. Flow'
      BY <2>2, <2>3 DEF Flow
    <2> QED
      BY <2>1, <2>4, <2>5
  <1>3. CASE FillKey(g)
    <2>1. DriverType' /\ Threads' /\ jvm' = jvm
      BY <1>3, DriverStays DEF FillKey, Keys, DriverType
    <2>2. proc[g].pc = "fill" /\ Goes(g, "read") /\ UNCHANGED <<may, last, lists, enforced, torn>>
      BY <1>3 DEF FillKey
    <2> QED
      <3>1. /\ proc' \in [Process -> Requests \cup {NoOne}]
            /\ proc'[g].pc \in {"open", "read"} /\ proc'[g].whom = proc[g].whom
            /\ proc'[g].route = proc[g].route
            /\ \A h \in Process \ {g} : proc'[h] = proc[h]
        BY <2>2, Moves
      <3>2. GateType' /\ Found'
        BY <2>1, <2>2, <3>1 DEF GateType, Found
      <3>3. Flow'
        BY <2>2, <3>1 DEF Flow
      <3> QED
        BY <2>1, <3>2, <3>3
  <1>4. CASE Send(g)
    <2> DEFINE q == [for |-> proc[g].whom, token |-> Token(g), route |-> proc[g].route,
                     checked |-> IF proc[g].whom = Own \/ proc[g].route = "composite" THEN 0 ELSE enforced[g]]
    <2>1. proc[g] \in Requests
      BY <1>4 DEF Send, GateType, NoOne
    <2>2. Token(g) \in TokenType /\ Token(g) # Nil
      BY <2>1 DEF Token, TokenType, Requests, DriverType
    <2>3. q \in QueryType /\ QueryOk(q)
      BY <1>4, <2>1, <2>2 DEF Send, QueryType, QueryOk, Requests, DriverType, Flow, Found, Token
    <2>4. DriverType' /\ Threads' /\ jvm' = jvm
      BY <1>4, <2>3, TakeKeeps DEF Send
    <2> QED
      BY <1>4, <2>4, Moves DEF Send, GateType, Flow, Found
  <1>5. CASE Reply(g)
    <2>1. DriverType' /\ Threads' /\ jvm' = jvm
      BY <1>5, AnsweredKeeps DEF Reply
    <2> QED
      BY <1>5, <2>1 DEF Reply, GateType, Flow, Found, NoOne
  <1>6. CASE Unavailable(g)
    <2>1. DriverType' /\ Threads' /\ jvm' = jvm
      BY <1>6, DriverStays DEF Unavailable, driver, DriverType
    <2> QED
      BY <1>6, <2>1 DEF Unavailable, GateType, Flow, Found, NoOne
  <1> QED
    BY <1>1, <1>2, <1>3, <1>4, <1>5, <1>6 DEF Sign

LEMMA BaseNext == Base /\ [Next]_vars => Base'
PROOF
  <1> SUFFICES ASSUME Base, [Next]_vars PROVE Base'
    OBVIOUS
  <1> USE GatewayAssumption DEF Base, TypeOK
  <1>1. ASSUME NEW g \in Process, Allow(g) PROVE Base'
    BY <1>1, AllowKeeps
  <1>2. ASSUME NEW g \in Process, Enforce(g) PROVE Base'
    BY <1>2, EnforceKeeps
  <1>3. ASSUME NEW g \in Process, Sign(g) PROVE Base'
    BY <1>3, SignKeeps
  <1>4. ASSUME NEW g \in Process, Unheard(g) PROVE Base'
    <2>1. DriverType' /\ Threads' /\ jvm' = jvm
      BY <1>4, AnsweredKeeps DEF Unheard
    <2> QED
      BY <1>4, <2>1, GateStays DEF Unheard, gate
  <1>5. ASSUME NEW g \in Process, Kill(g) PROVE Base'
    <2>1. DriverType' /\ Threads' /\ jvm' = jvm
      BY <1>5, DriverStays DEF Kill, driver, DriverType
    <2> QED
      BY <1>5, <2>1 DEF Kill, GateType, Flow, Found, NoOne
  <1>6. ASSUME NEW g \in Process, NEW w \in Whom, NEW route \in Routes, Ask(g, w, route) PROVE Base'
    <2> DEFINE r == [pc |-> IF w = Own \/ route = "composite" THEN "sign" ELSE "list",
                     whom |-> w, route |-> route, list |-> Nil, used |-> 0]
    <2>1. DriverType' /\ Threads' /\ jvm' = jvm
      BY <1>6, DriverStays DEF Ask, driver, DriverType
    <2>2. r \in Requests /\ r.whom = w /\ r.route = route /\ (w # Own => w \in Reader)
          /\ r.pc = IF w = Own \/ route = "composite" THEN "sign" ELSE "list"
      BY DEF Requests, Whom
    <2>3. proc' = [proc EXCEPT ![g] = r] /\ UNCHANGED <<may, last, lists, enforced, torn>>
      BY <1>6 DEF Ask
    <2> HIDE DEF r
    <2> QED
      BY <2>1, <2>2, <2>3 DEF GateType, Flow, Found
  <1>7. ASSUME Driver, UNCHANGED gate PROVE Base'
    BY <1>7, DriverKeeps
  <1>8. ASSUME NEW passes \in BOOLEAN, Deployed(passes) PROVE Base'
    BY <1>8, DeployedKeeps
  <1>9. ASSUME NEW t \in Process, NEW c \in Connection, NEW st \in Statement, KeyChecked(t, c, st)
        PROVE  Base'
    BY <1>9, KeyCheckedKeeps
  <1>10. ASSUME NEW p \in Reader, NEW grants \in SUBSET Grants, Regrant(p, grants) PROVE Base'
    <2>1. DriverType' /\ Threads' /\ jvm' = jvm
      BY <1>10, DriverStays DEF Regrant, driver, DriverType
    <2> QED
      BY <1>10, <2>1 DEF Regrant, GateType, Flow, Found, DriverType
  <1>11. CASE Tick
    <2>1. DriverType' /\ Threads' /\ jvm' = jvm
      BY <1>11, DriverStays DEF Tick, DriverType
    <2> QED
      BY <1>11, <2>1 DEF Tick, GateType, Flow, Found, DriverType
  <1>12. CASE UNCHANGED vars
    <2>1. DriverType' /\ Threads' /\ jvm' = jvm
      BY <1>12, DriverStays DEF vars, DriverType
    <2> QED
      BY <1>12, <2>1, GateStays DEF vars
  <1> QED
    BY <1>1, <1>2, <1>3, <1>4, <1>5, <1>6, <1>7, <1>8, <1>9, <1>10, <1>11, <1>12 DEF Next

LEMMA BaseHolds == Spec => []Base
PROOF
  BY BaseInit, BaseNext, PTL DEF Spec

\* Every variable keeps its type (entitle.py, Passthrough.java).
THEOREM GatewayTypes == Spec => []TypeOK
PROOF
  BY BaseHolds, PTL DEF Base

\* Whatever is lent, opened, closed, deployed or killed between, a statement runs as the
\* principal its query is for.  Under the plain driver it may run as the data source: for a
\* process that had found a Virtual Graph deployed earlier enforcing, or for a composite's
\* query, which the server signs without asking (Passthrough.java:103-111, 198;
\* entitle.py:252-277; server.py:351-352).
THEOREM StatementsRunAsTheirReader == Spec => []RunsAsItsReader
PROOF
  <1>1. Base => RunsAsItsReader
    BY DEF Base, Threads, Sound, RanRight, RunsAsItsReader
  <1> QED
    BY <1>1, BaseHolds, PTL

----------------------------------------------------------------------------
\* While no key has been made or read beside its making: there is at most one maker, the
\* file holds what the pass-through has loaded and every token was signed with.
TokenHolds(r) ==
  /\ r.pc # "idle" /\ r.query.token # Nil => r.query.token.key = keyFile /\ keyFile \in Process
  /\ r.pc = "refused" => r.why \notin {"broken", "forged"}
Whole ==
  /\ \A g, h \in Process : proc[g].pc = "fill" /\ proc[h].pc = "fill" => g = h
  /\ \A g \in Process : proc[g].pc = "fill" => keyFile = Empty
  /\ jvm.key # Nil => jvm.key = keyFile /\ keyFile \in Process
  /\ \A t \in Process : TokenHolds(thread[t])
Key ==
  /\ \A g \in Process : proc[g].pc \in {"fill", "read"} => keyFile # Absent
  /\ ~torn => Whole

\* A step that makes no key: what it does to one session's thread and one process.
LEMMA KeyKept ==
  ASSUME Base, Base', Key, keyFile' = keyFile, torn' = torn,
         jvm'.key = jvm.key \/ jvm'.key = Nil \/ (~torn => jvm'.key = keyFile /\ keyFile \in Process),
         \A g \in Process : proc'[g].pc = "fill" => proc[g].pc = "fill",
         \A g \in Process : proc'[g].pc = "read" => proc[g].pc = "read" \/ keyFile # Absent,
         ~torn => \A t \in Process : TokenHolds(thread'[t])
  PROVE  Key'
PROOF
  <1>1. \A g \in Process : proc'[g].pc \in {"fill", "read"} => keyFile' # Absent
    BY DEF Key
  <1>2. ASSUME ~torn PROVE Whole'
    <2>1. Whole
      BY <1>2 DEF Key
    <2>2. \A t \in Process : TokenHolds(thread[t])' <=> TokenHolds(thread'[t])
      BY DEF TokenHolds
    <2>3. \A t \in Process : TokenHolds(thread'[t])
      BY <1>2
    <2>4. jvm'.key # Nil => jvm'.key = keyFile' /\ keyFile' \in Process
      BY <1>2, <2>1 DEF Whole
    <2> QED
      BY <2>1, <2>2, <2>3, <2>4 DEF Whole
  <1> QED
    BY <1>1, <1>2 DEF Key

LEMMA KeyExecute ==
  ASSUME Base, Base', Key, NEW t \in Process, Execute(t), UNCHANGED gate
  PROVE  Key'
PROOF
  <1> USE GatewayAssumption
  <1> DEFINE th == thread[t]
  <1>0. /\ th.pc \in {"ready", "verified", "connected"} /\ keyFile' = keyFile /\ torn' = torn
        /\ proc' = proc /\ DOMAIN thread = Process
    BY DEF Execute, RunCheck, RefuseUnsigned, NoKey, Refuse, Verify, Connect, RunAs, Fails, Judged, RunPlain,
           gate, Base, TypeOK, DriverType
  <1>1. th.pc = "ready" => (Signed(th.stmt) <=> th.query.token # Nil)
    BY <1>0, ThreadHolds DEF Base, TypeOK
  <1>2. ASSUME ~torn PROVE Whole /\ TokenHolds(th)
    BY <1>2 DEF Key, Whole
  <1>3. ASSUME thread'[t].pc \in {"verified", "connected", "ran", "refused", "failed"}, thread'[t].query = th.query,
               thread'[t].pc = "refused" /\ ~torn => thread'[t].why \notin {"broken", "forged"},
               \A u \in Process \ {t} : thread'[u] = thread[u],
               jvm'.key = jvm.key \/ (~torn => jvm'.key = keyFile /\ keyFile \in Process)
        PROVE  Key'
    <2>1. ASSUME ~torn PROVE \A u \in Process : TokenHolds(thread'[u])
      BY <1>0, <1>2, <1>3, <2>1 DEF TokenHolds, Whole
    <2> QED
      BY <1>0, <1>3, <2>1, KeyKept DEF Key
  <1>4. ASSUME NEW verdicts, Judged(t, verdicts)
        PROVE  /\ ~torn => jvm'.key = keyFile /\ keyFile \in Process
               /\ ~torn => Verdict(Loaded, th.query.token) \notin {"broken", "forged"}
    <2>1. th.query.token # Nil /\ jvm' = [jvm EXCEPT !.key = Loaded] /\ jvm'.key = Loaded
      BY <1>1, <1>4 DEF Judged, Base, TypeOK, DriverType
    <2>2. ~torn => Loaded = keyFile /\ keyFile \in Process /\ th.query.token.key = keyFile
      BY <1>0, <1>2, <2>1 DEF Loaded, TokenHolds, Whole
    <2> QED
      BY <2>1, <2>2 DEF Verdict
  <1>5. CASE RunCheck(t)
    <2>1. thread'[t].pc = "ran" /\ thread'[t].query = th.query /\ jvm' = jvm
          /\ \A u \in Process \ {t} : thread'[u] = thread[u]
      BY <1>0, <1>5 DEF RunCheck, Runs
    <2> QED
      BY <2>1, <1>3
  <1>6. CASE RefuseUnsigned(t)
    <2>1. thread'[t].pc = "refused" /\ thread'[t].query = th.query /\ thread'[t].why = "unsigned"
          /\ jvm' = jvm /\ \A u \in Process \ {t} : thread'[u] = thread[u]
      BY <1>0, <1>6 DEF RefuseUnsigned, Ends
    <2> QED
      BY <2>1, <1>3
  <1>7. CASE NoKey(t)
    <2>1. thread'[t].pc = "failed" /\ thread'[t].query = th.query
          /\ jvm' = jvm /\ \A u \in Process \ {t} : thread'[u] = thread[u]
      BY <1>0, <1>7 DEF NoKey, Ends
    <2> QED
      BY <2>1, <1>3
  <1>8. CASE Refuse(t)
    <2>1. thread'[t].pc = "refused" /\ thread'[t].query = th.query
          /\ thread'[t].why = Verdict(Loaded, th.query.token)
          /\ \A u \in Process \ {t} : thread'[u] = thread[u]
      BY <1>0, <1>8 DEF Refuse, Ends
    <2>2. Judged(t, {"broken", "forged", "expired"})
      BY <1>8 DEF Refuse
    <2> QED
      BY <2>1, <2>2, <1>3, <1>4
  <1>9. CASE Verify(t)
    <2>1. Judged(t, {"good"}) /\ thread'[t].pc = "verified" /\ thread'[t].query = th.query
          /\ \A u \in Process \ {t} : thread'[u] = thread[u]
      BY <1>0, <1>9 DEF Verify
    <2> QED
      BY <2>1, <1>3, <1>4
  <1>11. CASE Connect(t) \/ RunAs(t) \/ Fails(t)
    <2>1. /\ thread'[t].pc \in {"connected", "ran", "failed"} /\ thread'[t].query = th.query /\ jvm' = jvm
          /\ \A u \in Process \ {t} : thread'[u] = thread[u]
      BY <1>0, <1>11 DEF Connect, RunAs, Fails, Runs, Ends
    <2> QED
      BY <2>1, <1>3
  <1>10. CASE RunPlain(t)
    <2>1. thread'[t].pc = "ran" /\ thread'[t].query = th.query /\ jvm' = jvm
          /\ \A u \in Process \ {t} : thread'[u] = thread[u]
      BY <1>0, <1>10 DEF RunPlain, Runs
    <2> QED
      BY <2>1, <1>3
  <1> QED
    BY <1>5, <1>6, <1>7, <1>8, <1>9, <1>10, <1>11 DEF Execute

\* A session's thread that gets a query, or its rest, or the next of its statements.
LEMMA KeyThread ==
  ASSUME Base, Base', Key, NEW t \in Process, keyFile' = keyFile, torn' = torn, jvm' = jvm,
         \A u \in Process \ {t} : thread'[u] = thread[u],
         thread'[t].pc # "refused",
         thread'[t].pc # "idle" =>
           \/ thread'[t].query.token = Nil
           \/ thread[t].pc # "idle" /\ thread'[t].query = thread[t].query
           \/ ~torn => thread'[t].query.token.key = keyFile /\ keyFile \in Process,
         \A g \in Process : proc'[g].pc = "fill" => proc[g].pc = "fill",
         \A g \in Process : proc'[g].pc = "read" => proc[g].pc = "read" \/ keyFile # Absent
  PROVE  Key'
PROOF
  <1>1. ASSUME ~torn PROVE \A u \in Process : TokenHolds(thread'[u])
    BY <1>1 DEF Key, Whole, TokenHolds, Base, TypeOK, DriverType
  <1> QED
    BY <1>1, KeyKept

\* A step that leaves the driver as it is and makes no key.
LEMMA KeyStays ==
  ASSUME Base, Base', Key, UNCHANGED <<jvm, thread, keyFile, torn>>,
         \A g \in Process : proc'[g].pc = "fill" => proc[g].pc = "fill",
         \A g \in Process : proc'[g].pc = "read" => proc[g].pc = "read" \/ keyFile # Absent
  PROVE  Key'
PROOF
  BY KeyKept DEF Key, Whole

LEMMA KeySign ==
  ASSUME Base, Base', Key, NEW g \in Process, Sign(g)
  PROVE  Key'
PROOF
  <1> USE GatewayAssumption DEF At, Stops
  <1>0. proc \in [Process -> Requests \cup {NoOne}] /\ DOMAIN thread = Process
        /\ keyFile \in Keys \cup {Absent} /\ jvm.key \in Keys \cup {Nil} /\ torn \in BOOLEAN /\ GateType
    BY DEF Base, TypeOK, GateType, DriverType
  <1>1. CASE LookForKey(g)
    <2>1. PICK pc \in {"open", "read"} : Goes(g, pc) /\ (pc = "read" => keyFile # Absent)
      BY <1>1 DEF LookForKey
    <2>2. proc[g].pc # "idle" /\ UNCHANGED <<jvm, thread, keyFile, torn>>
      BY <1>1 DEF LookForKey, driver
    <2>3. proc'[g].pc = pc /\ \A h \in Process \ {g} : proc'[h] = proc[h]
      BY <1>0, <2>1, <2>2, Moves
    <2> QED
      BY <2>1, <2>2, <2>3, KeyStays
  <1>2. CASE OpenKey(g)
    <2>1. /\ proc[g].pc = "open" /\ Goes(g, "fill") /\ keyFile' = Empty
          /\ torn' = (torn \/ keyFile # Absent) /\ UNCHANGED <<jvm, thread>>
      BY <1>2 DEF OpenKey
    <2>2. proc'[g].pc = "fill" /\ \A h \in Process \ {g} : proc'[h] = proc[h]
      BY <1>0, <2>1, Moves
    <2>3. ASSUME ~torn' PROVE Whole'
      <3>1. ~torn /\ keyFile = Absent /\ Whole
        BY <2>1, <2>3, <1>0 DEF Key
      <3>2. \A h \in Process : proc[h].pc # "fill"
        BY <3>1 DEF Key
      <3>3. jvm'.key = Nil
        BY <2>1, <3>1 DEF Whole
      <3>4. \A t \in Process : TokenHolds(thread[t])'
        BY <2>1, <3>1 DEF Whole, TokenHolds
      <3> QED
        BY <2>1, <2>2, <3>2, <3>3, <3>4 DEF Whole
    <2> QED
      BY <2>1, <2>3 DEF Key
  <1>3. CASE FillKey(g)
    <2>1. /\ proc[g].pc = "fill" /\ Goes(g, "read") /\ keyFile' = g
          /\ torn' = torn /\ UNCHANGED <<jvm, thread>>
      BY <1>3 DEF FillKey
    <2>2. proc'[g].pc = "read" /\ \A h \in Process \ {g} : proc'[h] = proc[h]
      BY <1>0, <2>1, Moves
    <2>3. ASSUME ~torn' PROVE Whole'
      <3>1. Whole /\ keyFile = Empty
        BY <2>1, <2>3 DEF Key, Whole
      <3>2. \A h \in Process : proc'[h].pc # "fill"
        BY <2>1, <2>2, <3>1 DEF Whole
      <3>3. jvm'.key = Nil
        BY <2>1, <3>1 DEF Whole
      <3>4. \A t \in Process : TokenHolds(thread[t])'
        BY <2>1, <3>1 DEF Whole, TokenHolds
      <3> QED
        BY <3>2, <3>3, <3>4 DEF Whole
    <2> QED
      BY <2>1, <2>3 DEF Key
  <1>4. CASE Send(g)
    <2> DEFINE q == [for |-> proc[g].whom, token |-> Token(g), route |-> proc[g].route,
                     checked |-> IF proc[g].whom = Own \/ proc[g].route = "composite" THEN 0 ELSE enforced[g]]
    <2>1. /\ proc[g].pc = "read" /\ Goes(g, "waiting") /\ torn' = (torn \/ keyFile = Empty)
          /\ thread' = [thread EXCEPT ![g] = [pc |-> "asked", query |-> q]]
          /\ UNCHANGED <<jvm, pool, keyFile>>
      BY <1>4 DEF Send, Take
    <2>2. q.token.key = keyFile
      BY DEF Token
    <2>3. proc'[g].pc = "waiting" /\ \A h \in Process \ {g} : proc'[h] = proc[h]
      BY <1>0, <2>1, Moves
    <2>4. keyFile # Absent
      BY <2>1 DEF Key
    <2> HIDE DEF q
    <2>5. CASE keyFile = Empty
      BY <2>1, <2>3, <2>4, <2>5 DEF Key
    <2>6. CASE keyFile # Empty
      <3>1. keyFile \in Process /\ torn' = torn
        BY <1>0, <2>1, <2>4, <2>6 DEF Keys
      <3>2. thread'[g].pc = "asked" /\ thread'[g].query = q
            /\ \A u \in Process \ {g} : thread'[u] = thread[u]
        BY <1>0, <2>1
      <3> QED
        BY <2>1, <2>2, <2>3, <3>1, <3>2, KeyThread
    <2> QED
      BY <2>5, <2>6
  <1>5. CASE Reply(g)
    BY <1>0, <1>5, KeyThread DEF Reply, Answered, Resting, NoOne
  <1>6. CASE Unavailable(g)
    BY <1>0, <1>6, KeyStays DEF Unavailable, driver, NoOne
  <1> QED
    BY <1>1, <1>2, <1>3, <1>4, <1>5, <1>6 DEF Sign

\* A step of one process that does not sign keeps what it knows of the key.
LEMMA KeyNext == Base /\ Base' /\ Key /\ [Next]_vars => Key'
PROOF
  <1> SUFFICES ASSUME Base, Base', Key, [Next]_vars PROVE Key'
    OBVIOUS
  <1> USE GatewayAssumption DEF At, Stops
  <1>0. proc \in [Process -> Requests \cup {NoOne}] /\ DOMAIN thread = Process /\ GateType
    BY DEF Base, TypeOK, GateType, DriverType
  <1>1. ASSUME NEW g \in Process, Allow(g) PROVE Key'
    <2>1. UNCHANGED <<jvm, thread, keyFile, torn>> /\ proc[g].pc # "idle"
          /\ \A h \in Process \ {g} : proc'[h] = proc[h]
      BY <1>0, <1>1 DEF Allow, TakeList, TornList, ReadTables, ReadTags, OpenList, WriteList, Goes, driver
    <2>2. proc'[g].pc \notin {"fill", "read"}
      <3>1. CASE TakeList(g) \/ TornList(g) \/ ReadTables(g) \/ ReadTags(g)
        <4>1. proc[g] \in Requests
          BY <1>0, <2>1 DEF NoOne
        <4>2. CASE TakeList(g)
          BY <1>0, <4>1, <4>2 DEF TakeList, Requests
        <4>3. CASE TornList(g)
          BY <1>0, <4>3 DEF TornList, NoOne
        <4>4. CASE ReadTables(g)
          BY <1>0, <4>1, <4>4 DEF ReadTables, Requests
        <4>5. CASE ReadTags(g)
          BY <1>0, <4>1, <4>5 DEF ReadTags, Requests
        <4> QED
          BY <3>1, <4>2, <4>3, <4>4, <4>5
      <3>2. CASE OpenList(g)
        BY <1>0, <2>1, <3>2, Moves DEF OpenList
      <3>3. CASE WriteList(g)
        BY <1>0, <2>1, <3>3, Moves DEF WriteList
      <3> QED
        BY <1>1, <3>1, <3>2, <3>3 DEF Allow
    <2> QED
      BY <2>1, <2>2, KeyStays
  <1>2. ASSUME NEW g \in Process, Enforce(g) PROVE Key'
    <2>1. CASE Probe(g)
      <3>1. proc'[g].pc = "probing" /\ \A h \in Process \ {g} : proc'[h] = proc[h]
        BY <1>0, <2>1, Moves DEF Probe
      <3>2. thread'[g].query.token = Nil /\ thread'[g].pc = "asked"
            /\ \A u \in Process \ {g} : thread'[u] = thread[u]
        BY <1>0, <2>1 DEF Probe, Take, Unsigned
      <3> QED
        BY <2>1, <3>1, <3>2, KeyThread DEF Probe, Take
    <2>2. CASE Known(g)
      <3>1. proc'[g].pc \in {"idle", "sign"} /\ \A h \in Process \ {g} : proc'[h] = proc[h]
        <4>1. CASE enforced[g] = 0
          BY <1>0, <2>2, <4>1 DEF Known, Unenforced, NoOne
        <4>2. CASE enforced[g] # 0
          BY <1>0, <2>2, <4>2, Moves DEF Known, Unenforced
        <4> QED
          BY <4>1, <4>2
      <3> QED
        BY <2>2, <3>1, KeyStays DEF Known, driver
    <2>3. CASE Probed(g)
      <3>1. proc'[g].pc \in {"idle", "check"} /\ \A h \in Process \ {g} : proc'[h] = proc[h]
        <4>1. CASE thread[g].pc \in {"refused", "ran"}
          BY <1>0, <2>3, <4>1, Moves DEF Probed
        <4>2. CASE thread[g].pc \notin {"refused", "ran"}
          BY <1>0, <2>3, <4>2 DEF Probed, NoOne
        <4> QED
          BY <4>1, <4>2
      <3>2. thread'[g].pc = "idle" /\ \A u \in Process \ {g} : thread'[u] = thread[u]
        BY <1>0, <2>3 DEF Probed, Answered, Resting
      <3> QED
        BY <2>3, <3>1, <3>2, KeyThread DEF Probed, Answered
    <2> QED
      BY <1>2, <2>1, <2>2, <2>3 DEF Enforce
  <1>3. ASSUME NEW g \in Process, Sign(g) PROVE Key'
    BY <1>3, KeySign
  <1>4. ASSUME NEW g \in Process, Unheard(g) PROVE Key'
    <2>1. thread'[g].pc = "idle" /\ \A u \in Process \ {g} : thread'[u] = thread[u]
      BY <1>0, <1>4 DEF Unheard, Answered, Resting
    <2> QED
      BY <1>4, <2>1, KeyThread DEF Unheard, Answered, gate
  <1>5. ASSUME NEW g \in Process, Kill(g) PROVE Key'
    BY <1>0, <1>5, KeyStays DEF Kill, driver, NoOne
  <1>6. ASSUME NEW g \in Process, NEW w \in Whom, NEW route \in Routes, Ask(g, w, route) PROVE Key'
    BY <1>0, <1>6, KeyStays DEF Ask, driver
  <1>7. ASSUME Driver, UNCHANGED gate PROVE Key'
    <2>1. ASSUME NEW t \in Process, Execute(t) PROVE Key'
      BY <1>7, <2>1, KeyExecute
    <2>2. ASSUME NEW t \in Process, More(t) PROVE Key'
      <3>1. thread'[t].pc = "asked" /\ thread'[t].query = thread[t].query /\ thread[t].pc # "idle"
            /\ \A u \in Process \ {t} : thread'[u] = thread[u]
        BY <1>0, <2>2 DEF More
      <3> QED
        BY <1>7, <2>2, <3>1, KeyThread DEF More, gate
    <2>3. ASSUME NEW t \in Process, NEW c \in Connection, NEW st \in Statement, Prepare(t, c, st)
          PROVE  Key'
      <3>1. thread'[t].pc = "ready" /\ thread'[t].query = thread[t].query /\ thread[t].pc # "idle"
            /\ \A u \in Process \ {t} : thread'[u] = thread[u]
        BY <1>0, <2>3 DEF Prepare
      <3> QED
        BY <1>7, <2>3, <3>1, KeyThread DEF Prepare, gate
    <2>4. ASSUME NEW c \in Connection, PoolClose(c) \/ \E p \in Reader : Drop(c, p) PROVE Key'
      BY <1>7, <2>4, KeyStays DEF PoolClose, Drop, gate
    <2> QED
      BY <1>7, <2>1, <2>2, <2>3, <2>4 DEF Driver
  <1>8. ASSUME NEW passes \in BOOLEAN, Deployed(passes) PROVE Key'
    <2>1. jvm'.key = Nil /\ \A t \in Process : TokenHolds(thread'[t])
      BY <1>8 DEF Deployed, Deploy, Fresh, TokenHolds, Resting
    <2> QED
      BY <1>8, <2>1, KeyKept DEF Deployed, Deploy
  <1>9. ASSUME NEW t \in Process, NEW c \in Connection, NEW st \in Statement, KeyChecked(t, c, st)
        PROVE  Key'
    <2>1. thread'[t].pc = "ready" /\ thread'[t].query.token = Nil
          /\ \A u \in Process \ {t} : thread'[u] = thread[u]
      BY <1>0, <1>9 DEF KeyChecked, PrepareCheck, Startup
    <2> QED
      BY <1>9, <2>1, KeyThread DEF KeyChecked, PrepareCheck
  <1>10. ASSUME NEW p \in Reader, NEW grants \in SUBSET Grants, Regrant(p, grants) PROVE Key'
    BY <1>10, KeyStays DEF Regrant, driver
  <1>11. CASE Tick
    BY <1>11, KeyStays DEF Tick
  <1>12. CASE UNCHANGED vars
    BY <1>12, KeyStays DEF vars
  <1> QED
    BY <1>1, <1>2, <1>3, <1>4, <1>5, <1>6, <1>7, <1>8, <1>9, <1>10, <1>11, <1>12 DEF Next

LEMMA KeyInit == Init => Key
PROOF
  <1> SUFFICES ASSUME Init PROVE Key
    OBVIOUS
  <1>1. /\ jvm.key = Nil /\ \A t \in Process : thread[t] = Resting
        /\ \A g \in Process : proc[g] = NoOne
    BY DEF Init, Fresh
  <1> QED
    BY <1>1 DEF Key, Whole, TokenHolds, Resting, NoOne

\* A query the gateway signed is refused for its signature only when the key was made by
\* two processes at once, or read half made (entitle.py:203-211, Passthrough.java:71-80).
THEOREM SignaturesAreHonoured == Spec => []Honoured
PROOF
  <1>1. Base /\ Key => Honoured
    BY DEF Base, TypeOK, GateType, Key, Whole, TokenHolds, Honoured
  <1> QED
    BY <1>1, BaseHolds, KeyInit, KeyNext, PTL DEF Spec

----------------------------------------------------------------------------
\* What a list shows its reader had when its making began, or later.
Aged(list, p) == \A x \in list.shows : list.began <= last[p][x]
Held(r) ==
  /\ r.pc = "tags" => r.list.began <= now /\ Aged(r.list, r.whom)
  /\ r.pc \notin {"idle", "list", "tags"} /\ r.list # Nil =>
       /\ r.whom \in Reader /\ r.list \in ListType /\ Aged(r.list, r.whom)
       /\ r.list.began <= r.list.built /\ r.used <= r.list.built + AllowSeconds
Lasting == \A p \in Reader, x \in Grants : last[p][x] <= now /\ (x \in may[p] => last[p][x] = now)
Kept == \A p \in Reader : lists[p] \notin {Absent, Empty} =>
  lists[p] \in ListType /\ Aged(lists[p], p) /\ lists[p].began <= lists[p].built
Lists == Lasting /\ Kept /\ \A g \in Process : Held(proc[g])

\* A request stays, ends, begins, has no list, or goes on with the one it has.
Onward(g) ==
  \/ proc'[g] = proc[g]
  \/ proc'[g].pc \in {"idle", "list"}
  \/ proc'[g].list = Nil /\ proc'[g].pc # "tags"
  \/ /\ proc[g].pc \notin {"idle", "list", "tags"} /\ proc'[g].pc # "tags"
     /\ proc'[g].list = proc[g].list /\ proc'[g].whom = proc[g].whom
     /\ proc'[g].used = proc[g].used

\* A step that takes no grant back in time, and leaves the files and requests right.
LEMMA ListsKept ==
  ASSUME Base, Base', Lists, Lasting', now <= now',
         \A p \in Reader, x \in Grants : last[p][x] <= last'[p][x],
         lists' = lists,
         \A g \in Process : Onward(g)
  PROVE  Lists'
PROOF
  <1>0. last \in [Reader -> [Grants -> Nat]] /\ last' \in [Reader -> [Grants -> Nat]]
        /\ now \in Nat /\ now' \in Nat /\ proc \in [Process -> Requests \cup {NoOne}]
    BY DEF Base, TypeOK, GateType, DriverType
  <1>1. ASSUME NEW list \in ListType, NEW p \in Reader, Aged(list, p)
        PROVE  \A x \in list.shows : list.began <= last'[p][x]
    <2>1. ASSUME NEW x \in list.shows PROVE list.began <= last'[p][x]
      <3>1. x \in Grants /\ list.began \in Nat /\ list.began <= last[p][x] /\ last[p][x] <= last'[p][x]
        BY <1>1, <2>1 DEF ListType, Aged
      <3>2. last[p][x] \in Nat /\ last'[p][x] \in Nat
        BY <1>0, <3>1
      <3> QED
        BY <3>1, <3>2
    <2> QED
      BY <2>1
  <1>2. Kept'
    BY <1>1 DEF Lists, Kept, Aged
  <1>3. ASSUME NEW g \in Process PROVE Held(proc[g])'
    <2>1. Held(proc[g]) /\ (proc[g].pc = "tags" => proc[g].whom \in Reader /\ proc[g].list \in ListType)
      BY DEF Lists, Base, Flow
    <2>2. CASE proc'[g] = proc[g]
      <3>1. proc[g].pc = "tags" => proc[g].list.began <= now' /\ Aged(proc[g].list, proc[g].whom)'
        BY <1>0, <1>1, <2>1, <2>2 DEF Held, Aged, ListType
      <3>2. proc[g].pc \notin {"idle", "list", "tags"} /\ proc[g].list # Nil =>
              Aged(proc[g].list, proc[g].whom)'
        BY <1>1, <2>1, <2>2 DEF Held, Aged
      <3> QED
        BY <2>1, <2>2, <3>1, <3>2 DEF Held
    <2>3. CASE /\ proc[g].pc \notin {"idle", "list", "tags"} /\ proc'[g].pc # "tags"
               /\ proc'[g].list = proc[g].list /\ proc'[g].whom = proc[g].whom
               /\ proc'[g].used = proc[g].used
      <3>1. proc[g].list # Nil => Aged(proc[g].list, proc[g].whom)'
        BY <1>1, <2>1, <2>3 DEF Held, Aged
      <3> QED
        BY <2>1, <2>3, <3>1 DEF Held, Aged
    <2>4. CASE proc'[g].pc \in {"idle", "list"} \/ (proc'[g].list = Nil /\ proc'[g].pc # "tags")
      BY <2>4 DEF Held
    <2> QED
      BY <2>2, <2>3, <2>4 DEF Onward
  <1> QED
    BY <1>2, <1>3 DEF Lists

\* A step that leaves time and grants alone.
LEMMA ListsStay ==
  ASSUME Base, Base', Lists, UNCHANGED <<now, may, last, lists>>,
         \A g \in Process : Onward(g)
  PROVE  Lists'
PROOF
  <1>1. Lasting' /\ now <= now' /\ \A p \in Reader, x \in Grants : last[p][x] <= last'[p][x]
    BY DEF Lists, Lasting, Base, TypeOK, GateType, DriverType
  <1> QED
    BY <1>1, ListsKept

LEMMA ListsAllow ==
  ASSUME Base, Base', Lists, NEW g \in Process, Allow(g)
  PROVE  Lists'
PROOF
  <1> USE GatewayAssumption DEF At, Stops
  <1>0. /\ proc \in [Process -> Requests \cup {NoOne}] /\ GateType /\ now \in Nat
        /\ last \in [Reader -> [Grants -> Nat]]
    BY DEF Base, TypeOK, GateType, DriverType
  <1>1. /\ UNCHANGED <<now, may, last>> /\ proc[g].pc # "idle"
        /\ \A h \in Process \ {g} : proc'[h] = proc[h]
    BY <1>0 DEF Allow, TakeList, TornList, ReadTables, ReadTags, OpenList, WriteList, Goes, driver
  <1>2. proc[g] \in Requests
    BY <1>0, <1>1 DEF NoOne
  <1>3. Lasting'
    BY <1>1 DEF Lists, Lasting
  <1>4. \A h \in Process \ {g} : Held(proc[h])'
    BY <1>1 DEF Lists, Held, Aged
  <1>5. lists' = lists => Kept'
    BY <1>1 DEF Lists, Kept, Aged
  <1>6. CASE TakeList(g)
    <2>1. proc[g].whom \in Reader /\ Listed(g) \notin {Absent, Empty} /\ now - Listed(g).built < AllowSeconds
      BY <1>6 DEF TakeList, Base, Flow, Written, Young
    <2>2. Listed(g) \in ListType /\ Aged(Listed(g), proc[g].whom) /\ Listed(g).began <= Listed(g).built
      BY <2>1 DEF Lists, Kept, Listed
    <2>3. now <= Listed(g).built + AllowSeconds
      BY <1>0, <2>1, <2>2 DEF ListType
    <2>4. /\ proc'[g].list = Listed(g) /\ proc'[g].used = now /\ proc'[g].whom = proc[g].whom
          /\ proc'[g].pc = "check" /\ lists' = lists
      BY <1>0, <1>2, <1>6 DEF TakeList, Requests
    <2>5. Held(proc[g])'
      BY <1>1, <2>1, <2>2, <2>3, <2>4 DEF Held, Aged
    <2> QED
      BY <1>3, <1>4, <1>5, <2>4, <2>5 DEF Lists
  <1>7. CASE TornList(g)
    BY <1>0, <1>1, <1>7, ListsStay DEF TornList, NoOne, Onward
  <1>8. CASE ReadTables(g)
    <2> DEFINE l == [shows |-> may[proc[g].whom] \cap {"table"}, built |-> 0, began |-> now]
    <2>1. proc[g].whom \in Reader
      BY <1>8 DEF ReadTables, Base, Flow
    <2>2. Aged(l, proc[g].whom)
      BY <1>0, <2>1 DEF Aged, Lists, Lasting, GateType
    <2>3. proc'[g].list = l /\ proc'[g].whom = proc[g].whom /\ proc'[g].pc = "tags" /\ lists' = lists
      BY <1>0, <1>2, <1>8 DEF ReadTables, Requests
    <2>4. l.began = now
      OBVIOUS
    <2> HIDE DEF l
    <2>5. Held(proc[g])'
      BY <1>0, <1>1, <2>2, <2>3, <2>4 DEF Held, Aged
    <2> QED
      BY <1>3, <1>4, <1>5, <2>3, <2>5 DEF Lists
  <1>9. CASE ReadTags(g)
    <2> DEFINE tables == proc[g].list.shows
               tags == IF tables = {} THEN {} ELSE may[proc[g].whom] \cap {"tag"}
               l == [shows |-> tables \cup tags, built |-> now, began |-> proc[g].list.began]
    <2>1. /\ proc[g].whom \in Reader /\ proc[g].list \in ListType
          /\ proc[g].list.began <= now /\ Aged(proc[g].list, proc[g].whom)
      BY <1>9 DEF ReadTags, Base, Flow, Lists, Held
    <2>2. \A x \in tags : x \in Grants /\ last[proc[g].whom][x] = now
      BY <1>0, <2>1 DEF Lists, Lasting, GateType
    <2>3. Aged(l, proc[g].whom)
      BY <2>1, <2>2 DEF Aged
    <2>4. l \in ListType /\ l.began <= l.built /\ now <= l.built + AllowSeconds
      BY <1>0, <2>1, <2>2 DEF ListType
    <2>5. proc'[g].list = l /\ proc'[g].whom = proc[g].whom /\ proc'[g].pc = "keep"
          /\ proc'[g].used = now /\ lists' = lists
      BY <1>0, <1>2, <1>9 DEF ReadTags, Requests
    <2> HIDE DEF l
    <2>6. Held(proc[g])'
      BY <1>1, <2>1, <2>3, <2>4, <2>5 DEF Held, Aged
    <2> QED
      BY <1>3, <1>4, <1>5, <2>5, <2>6 DEF Lists
  <1>10. CASE OpenList(g) \/ WriteList(g)
    <2>1. PICK pc \in {"write", "check"} : Goes(g, pc)
      BY <1>10 DEF OpenList, WriteList
    <2>2. /\ proc[g].pc \in {"keep", "write"} /\ proc[g].whom \in Reader /\ proc[g].list \in ListType
          /\ (lists' = [lists EXCEPT ![proc[g].whom] = Empty]
              \/ lists' = [lists EXCEPT ![proc[g].whom] = proc[g].list])
      BY <1>10 DEF OpenList, WriteList, Base, Flow
    <2>3. proc'[g].pc = pc /\ proc'[g].list = proc[g].list /\ proc'[g].whom = proc[g].whom
          /\ proc'[g].used = proc[g].used
      BY <1>0, <1>1, <2>1, Moves
    <2>4. proc[g].list # Nil => Aged(proc[g].list, proc[g].whom) /\ proc[g].list.began <= proc[g].list.built
      BY <2>2 DEF Lists, Held
    <2>5. Held(proc[g])'
      BY <1>1, <2>2, <2>3 DEF Lists, Held, Aged
    <2>6. proc[g].list # Nil
      BY <2>2
    <2>7. Kept'
      BY <1>0, <1>1, <2>2, <2>4, <2>6 DEF Lists, Kept, Aged, GateType
    <2> QED
      BY <1>3, <1>4, <2>5, <2>7 DEF Lists
  <1> QED
    BY <1>6, <1>7, <1>8, <1>9, <1>10 DEF Allow

LEMMA ListsNext == Base /\ Base' /\ Lists /\ [Next]_vars => Lists'
PROOF
  <1> SUFFICES ASSUME Base, Base', Lists, [Next]_vars PROVE Lists'
    OBVIOUS
  <1> USE GatewayAssumption DEF At, Stops
  <1>0. /\ proc \in [Process -> Requests \cup {NoOne}] /\ GateType /\ now \in Nat
        /\ last \in [Reader -> [Grants -> Nat]]
    BY DEF Base, TypeOK, GateType, DriverType
  <1>1. ASSUME NEW g \in Process, Allow(g) PROVE Lists'
    BY <1>1, ListsAllow
  <1>2. ASSUME NEW g \in Process, proc[g].pc \in {"check", "probing", "sign", "open", "fill", "read", "waiting"},
               NEW pc \in {"check", "probing", "sign", "open", "fill", "read", "waiting"}, Goes(g, pc),
               UNCHANGED <<now, may, last, lists>>
        PROVE  Lists'
    <2>1. /\ proc'[g].pc = pc /\ proc'[g].list = proc[g].list /\ proc'[g].whom = proc[g].whom
          /\ proc'[g].used = proc[g].used /\ \A h \in Process \ {g} : proc'[h] = proc[h]
      BY <1>0, <1>2, Moves
    <2>2. \A h \in Process : Onward(h)
      BY <1>2, <2>1 DEF Onward
    <2> QED
      BY <1>2, <2>2, ListsStay
  <1>3. ASSUME NEW g \in Process, Stops(g), UNCHANGED <<now, may, last, lists>> PROVE Lists'
    <2>1. \A h \in Process : Onward(h)
      BY <1>0, <1>3 DEF NoOne, Onward
    <2> QED
      BY <1>3, <2>1, ListsStay
  <1>15. proc' = proc => \A h \in Process : Onward(h)
    BY DEF Onward
  <1>4. ASSUME NEW g \in Process, Enforce(g) PROVE Lists'
    BY <1>4, <1>2, <1>3 DEF Enforce, Probe, Known, Probed, driver
  <1>5. ASSUME NEW g \in Process, Sign(g) PROVE Lists'
    BY <1>5, <1>2, <1>3 DEF Sign, LookForKey, OpenKey, FillKey, Send, Reply, Unavailable, driver
  <1>6. ASSUME NEW g \in Process, Unheard(g) PROVE Lists'
    BY <1>15, <1>6, ListsStay DEF Unheard, gate
  <1>7. ASSUME NEW g \in Process, Kill(g) PROVE Lists'
    BY <1>7, <1>3 DEF Kill, driver
  <1>8. ASSUME NEW g \in Process, NEW w \in Whom, NEW route \in Routes, Ask(g, w, route) PROVE Lists'
    <2>1. UNCHANGED <<now, may, last, lists>> /\ \A h \in Process : Onward(h)
      BY <1>0, <1>8 DEF Ask, driver, Onward
    <2> QED
      BY <2>1, ListsStay
  <1>9. ASSUME Driver, UNCHANGED gate PROVE Lists'
    <2>1. now' = now
      BY <1>9 DEF Driver, Execute, RunCheck, RefuseUnsigned, NoKey, Refuse, Verify, Connect, RunAs, Fails,
                  RunPlain, Judged, More, Prepare, PoolClose, Drop
    <2> QED
      BY <1>15, <1>9, <2>1, ListsStay DEF gate
  <1>10. ASSUME NEW passes \in BOOLEAN, Deployed(passes) PROVE Lists'
    BY <1>15, <1>10, ListsStay DEF Deployed, Deploy
  <1>11. ASSUME NEW t \in Process, NEW c \in Connection, NEW st \in Statement, KeyChecked(t, c, st)
         PROVE  Lists'
    BY <1>15, <1>11, ListsStay DEF KeyChecked, PrepareCheck
  <1>12. ASSUME NEW p \in Reader, NEW grants \in SUBSET Grants, Regrant(p, grants) PROVE Lists'
    <2>1. /\ may' = [may EXCEPT ![p] = grants] /\ now' = now /\ lists' = lists /\ proc' = proc
          /\ last' = [last EXCEPT ![p] = [x \in Grants |-> IF x \in grants \cup may[p] THEN now ELSE last[p][x]]]
      BY <1>12 DEF Regrant, driver
    <2>2. Lasting' /\ \A q \in Reader, x \in Grants : last[q][x] <= last'[q][x]
      BY <1>0, <2>1 DEF Lists, Lasting, GateType
    <2> QED
      BY <1>15, <1>0, <2>1, <2>2, ListsKept
  <1>13. CASE Tick
    <2>1. /\ now' = now + 1 /\ may' = may /\ lists' = lists /\ proc' = proc
          /\ last' = [p \in Reader |-> [x \in Grants |-> IF x \in may[p] THEN now + 1 ELSE last[p][x]]]
      BY <1>13 DEF Tick
    <2>2. \A p \in Reader, x \in Grants : last[p][x] \in Nat /\ last[p][x] <= now
      BY <1>0 DEF Lists, Lasting
    <2>3. Lasting' /\ \A q \in Reader, x \in Grants : last[q][x] <= last'[q][x]
      BY <1>0, <2>1, <2>2 DEF Lists, Lasting, GateType
    <2> QED
      BY <1>15, <1>0, <2>1, <2>3, ListsKept
  <1>14. CASE UNCHANGED vars
    BY <1>15, <1>14, ListsStay DEF vars
  <1> QED
    BY <1>1, <1>4, <1>5, <1>6, <1>7, <1>8, <1>9, <1>10, <1>11, <1>12, <1>13, <1>14 DEF Next

LEMMA ListsInit == Init => Lists
PROOF
  <1> SUFFICES ASSUME Init PROVE Lists
    OBVIOUS
  <1> USE GatewayAssumption
  <1>1. PICK s \in Start :
          /\ now = 0 /\ may = s.may /\ last = [p \in Reader |-> [x \in Grants |-> 0]]
          /\ lists = [p \in Reader |->
               IF s.cached THEN [shows |-> s.may[p], built |-> 0, began |-> 0] ELSE Absent]
          /\ proc = [g \in Process |-> NoOne]
    BY DEF Init
  <1>2. \A p \in Reader : s.may[p] \subseteq Grants
    OBVIOUS
  <1>3. Lasting
    BY <1>1, <1>2 DEF Lasting
  <1>4. Kept
    BY <1>1, <1>2 DEF Kept, Aged, ListType
  <1> QED
    BY <1>1, <1>3, <1>4 DEF Lists, Held, NoOne

\* What an allowlist in use shows its reader the warehouse had granted them at most
\* allowlist_seconds, and the time the list took to build, before it was taken up
\* (entitle.py:108-141).
THEOREM AllowlistsAge == Spec => []ListsAge
PROOF
  <1>1. Base /\ Lists => ListsAge
    <2> SUFFICES ASSUME Base, Lists, NEW g \in Process,
                        proc[g].pc \in {"check", "probing", "sign", "open", "fill", "read", "waiting"},
                        proc[g].list # Nil, NEW x \in proc[g].list.shows
                 PROVE  proc[g].used <= last[proc[g].whom][x] + AllowSeconds + (proc[g].list.built - proc[g].list.began)
      BY DEF ListsAge
    <2>1. /\ proc[g].whom \in Reader /\ proc[g].list \in ListType /\ proc[g].list.began <= last[proc[g].whom][x]
          /\ proc[g].list.began <= proc[g].list.built /\ proc[g].used <= proc[g].list.built + AllowSeconds
      BY DEF Lists, Held, Aged
    <2>2. proc[g] \in Requests
      BY DEF Base, TypeOK, GateType, NoOne
    <2>3. /\ x \in Grants /\ proc[g].used \in Nat /\ proc[g].list.built \in Nat /\ proc[g].list.began \in Nat
      BY <2>1, <2>2 DEF ListType, Requests
    <2>4. last[proc[g].whom][x] \in Nat /\ AllowSeconds \in Nat
      BY <2>1, <2>3, GatewayAssumption DEF Base, TypeOK, GateType
    <2> QED
      BY <2>1, <2>3, <2>4
  <1> QED
    BY <1>1, BaseHolds, ListsInit, ListsNext, PTL DEF Spec

----------------------------------------------------------------------------
\* The token's parameter is the only one marked, and those after it move up one place.
LEMMA MarkedOnce ==
  ASSUME NEW st \in Statement, Signed(st)
  PROVE  /\ Marks(st) = {MarkAt(st)} /\ MarkAt(st) \in DOMAIN st.params /\ MarkAt(st) \in Nat \ {0}
         /\ \A i \in DOMAIN st.params :
              Place(st, i) = IF i > MarkAt(st) THEN i - 1 ELSE i
PROOF
  <1> DEFINE First(i) == i \in DOMAIN st.params /\ st.params[i] = Mark /\ \A j \in 1 .. i - 1 : st.params[j] # Mark
  <1>1. PICK m \in DOMAIN st.params : st.params[m] = Mark
    BY DEF Signed
  <1>2. /\ DOMAIN st.params = 1 .. Len(st.params) /\ Len(st.params) \in Nat
        /\ \A i, j \in DOMAIN st.params : st.params[i] = Mark /\ st.params[j] = Mark => i = j
    BY PassthroughAssumption
  <1>3. \A i \in DOMAIN st.params : st.params[i] = Mark => i = m
    BY <1>1, <1>2
  <1>4. MarkAt(st) = m
    <2>1. \E i \in DOMAIN st.params : st.params[i] = Mark /\ \A j \in 1 .. i - 1 : st.params[j] # Mark
      <3>1. \A j \in 1 .. m - 1 : j \in DOMAIN st.params /\ j # m
        BY <1>1, <1>2
      <3> QED
        BY <1>1, <1>3, <3>1
    <2> QED
      BY <2>1, <1>3 DEF MarkAt
  <1>5. Marks(st) = {m}
    BY <1>1, <1>3 DEF Marks
  <1>6. ASSUME NEW i \in DOMAIN st.params
        PROVE  Place(st, i) = IF i > m THEN i - 1 ELSE i
    <2>1. i \in Nat /\ m \in Nat
      BY <1>1, <1>2
    <2>2. CASE i > m
      <3>1. {j \in Marks(st) : j < i} = {m}
        BY <1>5, <2>1, <2>2
      <3> QED
        BY <3>1, <2>1, <2>2, FS_Singleton DEF Place
    <2>3. CASE ~(i > m)
      <3>1. {j \in Marks(st) : j < i} = {}
        BY <1>5, <2>1, <2>3
      <3> QED
        BY <3>1, <2>1, <2>3, FS_EmptySet DEF Place
    <2> QED
      BY <2>2, <2>3
  <1> QED
    BY <1>1, <1>2, <1>4, <1>5, <1>6

\* What materialize sends as the principal: each value in its place, and no token.
LEMMA SentAsReader ==
  ASSUME NEW st \in Statement, Signed(st), NEW token
  PROVE  {b \in Without(st, Bound(st, token)) : b[1] # 0} = Values(st)
PROOF
  <1> DEFINE m == MarkAt(st)
             Up(n) == IF n > m THEN n - 1 ELSE n
             set == {st.calls[i] : i \in DOMAIN st.calls}
             Of(n) == IF n = 0 THEN Nil ELSE IF st.params[n] = Mark THEN token ELSE st.params[n]
             sent == Without(st, Bound(st, token))
  <1>1. /\ Marks(st) = {m} /\ m \in DOMAIN st.params /\ m \in Nat \ {0}
        /\ \A i \in DOMAIN st.params : Place(st, i) = Up(i)
    BY MarkedOnce
  <1>2. DOMAIN st.params \subseteq Nat \ {0} /\ set \cup {0} = DOMAIN st.params \cup {0}
    BY PassthroughAssumption
  <1>3. Bound(st, token) = {<<n, Of(n)>> : n \in set}
    BY DEF Bound
  <1>4. sent = {<<Up(b[1]), b[2]>> : b \in {b \in Bound(st, token) : b[1] # m}}
    BY DEF Without
  <1> HIDE DEF m, set, sent
  <1>5. ASSUME NEW b \in sent, b[1] # 0 PROVE b \in Values(st)
    <2>1. PICK n \in set : n # m /\ b = <<Up(n), Of(n)>>
      BY <1>3, <1>4
    <2>2. n # 0
      BY <2>1, <1>1, <1>5
    <2>3. n \in DOMAIN st.params \ Marks(st)
      BY <1>1, <1>2, <2>1, <2>2
    <2>4. Of(n) = st.params[n] /\ Up(n) = Place(st, n)
      BY <1>1, <2>2, <2>3 DEF Marks
    <2> QED
      BY <2>1, <2>3, <2>4 DEF Values
  <1>6. ASSUME NEW b \in Values(st) PROVE b \in sent /\ b[1] # 0
    <2>1. PICK n \in DOMAIN st.params \ Marks(st) : b = <<Place(st, n), st.params[n]>>
      BY DEF Values
    <2>2. n \in set /\ n # m /\ n \in Nat \ {0}
      BY <1>1, <1>2, <2>1
    <2>3. Of(n) = st.params[n] /\ Up(n) = Place(st, n) /\ Up(n) # 0
      BY <1>1, <2>1, <2>2 DEF Marks
    <2>4. <<n, Of(n)>> \in Bound(st, token)
      BY <1>3, <2>2
    <2>5. <<Up(n), Of(n)>> \in sent
      BY <1>4, <2>2, <2>4
    <2> QED
      BY <2>1, <2>3, <2>5
  <1> QED
    BY <1>5, <1>6 DEF sent

\* What it sends of a key check, which has no token.
LEMMA SentUnsigned ==
  ASSUME NEW st \in Statement, ~Signed(st), NEW token
  PROVE  {b \in Bound(st, token) : b[1] # 0} = Values(st)
PROOF
  <1> DEFINE set == {st.calls[i] : i \in DOMAIN st.calls}
             Of(n) == IF n = 0 THEN Nil ELSE IF st.params[n] = Mark THEN token ELSE st.params[n]
  <1>1. DOMAIN st.params \subseteq Nat \ {0} /\ set \cup {0} = DOMAIN st.params \cup {0}
    BY PassthroughAssumption
  <1>2. Marks(st) = {} /\ \A i \in DOMAIN st.params : st.params[i] # Mark
    BY DEF Signed, Marks
  <1>3. \A i \in DOMAIN st.params : Place(st, i) = i
    <2> SUFFICES ASSUME NEW i \in DOMAIN st.params PROVE Place(st, i) = i
      OBVIOUS
    <2>1. {j \in Marks(st) : j < i} = {}
      BY <1>2
    <2> QED
      BY <2>1, <1>1, FS_EmptySet DEF Place
  <1>4. Bound(st, token) = {<<n, Of(n)>> : n \in set}
    BY DEF Bound
  <1> HIDE DEF set
  <1>5. ASSUME NEW b \in Bound(st, token), b[1] # 0 PROVE b \in Values(st)
    <2>1. PICK n \in set : b = <<n, Of(n)>>
      BY <1>4
    <2>2. n \in DOMAIN st.params \ Marks(st)
      BY <1>1, <1>2, <1>5, <2>1
    <2>3. b = <<Place(st, n), st.params[n]>>
      BY <1>2, <1>3, <1>5, <2>1, <2>2
    <2> QED
      BY <2>2, <2>3 DEF Values
  <1>6. ASSUME NEW b \in Values(st) PROVE b \in Bound(st, token) /\ b[1] # 0
    <2>1. PICK n \in DOMAIN st.params \ Marks(st) : b = <<Place(st, n), st.params[n]>>
      BY DEF Values
    <2>2. n \in set /\ n # 0 /\ Of(n) = st.params[n] /\ Place(st, n) = n
      BY <1>1, <1>2, <1>3, <2>1
    <2> QED
      BY <1>4, <2>1, <2>2
  <1> QED
    BY <1>5, <1>6

Right(r) == {b \in r.sent : b[1] # 0} = Values(r.stmt)

LEMMA ValuesAreRight ==
  /\ ValuesKept <=> \A t \in Process : thread[t].pc = "ran" /\ jvm.passes => Right(thread[t])
  /\ ValuesKept' <=> \A t \in Process : thread'[t].pc = "ran" /\ jvm'.passes => Right(thread'[t])
PROOF
  BY DEF ValuesKept, Right, Values, Place, Marks

\* A step that starts no statement.
LEMMA ValuesStay ==
  ASSUME ValuesKept,
         \A t \in Process : thread'[t] = thread[t] \/ thread'[t].pc # "ran",
         jvm'.passes = jvm.passes \/ \A t \in Process : thread'[t].pc # "ran"
  PROVE  ValuesKept'
PROOF
  BY DEF ValuesKept

\* What an execution sends, where it is the pass-through's.
LEMMA ValuesExecute ==
  ASSUME Base, ValuesKept, NEW t \in Process, Execute(t)
  PROVE  ValuesKept'
PROOF
  <1> DEFINE st == thread[t].stmt
             token == thread[t].query.token
  <1>1. thread[t].pc \in {"ready", "verified", "connected"}
    BY DEF Execute, RunCheck, RefuseUnsigned, NoKey, Refuse, Verify, Connect, RunAs, Fails, Judged, RunPlain
  <1>2. st \in Statement /\ DOMAIN thread = Process
    BY <1>1, ThreadHolds DEF Base, TypeOK, DriverType
  <1>3. jvm'.passes = jvm.passes
    BY ExecuteKeeps DEF Base, TypeOK
  <1>4. ASSUME NEW whom, NEW sent, Runs(t, whom, sent)
        PROVE  /\ thread'[t].pc = "ran" /\ thread'[t].sent = sent /\ thread'[t].stmt = st
               /\ \A u \in Process \ {t} : thread'[u] = thread[u]
    BY <1>2, <1>4 DEF Runs
  <1>5. CASE RunCheck(t)
    <2>1. Runs(t, Own, Bound(st, Nil)) /\ ~Signed(st)
      BY <1>2, <1>5, PassthroughAssumption DEF RunCheck
    <2>2. {b \in Bound(st, Nil) : b[1] # 0} = Values(st)
      BY <1>2, <2>1, SentUnsigned
    <2>3. /\ thread'[t].sent = Bound(st, Nil) /\ thread'[t].stmt = st
          /\ \A u \in Process \ {t} : thread'[u] = thread[u]
      BY <1>4, <2>1
    <2>4. Right(thread'[t])
      BY <2>2, <2>3 DEF Right
    <2> QED
      BY <1>3, <2>3, <2>4, ValuesAreRight
  <1>6. CASE RunAs(t)
    <2>1. Runs(t, thread[t].target.as, Without(st, Bound(st, token))) /\ Signed(st)
      BY <1>2, <1>6 DEF RunAs, Base, Threads, Sound
    <2>2. {b \in Without(st, Bound(st, token)) : b[1] # 0} = Values(st)
      BY <1>2, <2>1, SentAsReader
    <2>3. /\ thread'[t].sent = Without(st, Bound(st, token)) /\ thread'[t].stmt = st
          /\ \A u \in Process \ {t} : thread'[u] = thread[u]
      BY <1>4, <2>1
    <2>4. Right(thread'[t])
      BY <2>2, <2>3 DEF Right
    <2> QED
      BY <1>3, <2>3, <2>4, ValuesAreRight
  <1>7. CASE RunPlain(t)
    <2>1. ~jvm'.passes
      BY <1>3, <1>7 DEF RunPlain
    <2> QED
      BY <2>1 DEF ValuesKept
  <1>8. CASE RefuseUnsigned(t) \/ NoKey(t) \/ Refuse(t) \/ Fails(t)
    <2>1. thread'[t].pc # "ran" /\ \A u \in Process \ {t} : thread'[u] = thread[u]
      <3>1. ASSUME NEW pc \in {"refused", "failed"}, NEW why, Ends(t, pc, why)
            PROVE  thread'[t].pc # "ran" /\ \A u \in Process \ {t} : thread'[u] = thread[u]
        BY <1>2, <3>1 DEF Ends
      <3> QED
        BY <1>8, <3>1 DEF RefuseUnsigned, NoKey, Refuse, Fails
    <2> QED
      BY <1>3, <2>1, ValuesStay
  <1>9. CASE Verify(t) \/ Connect(t)
    <2>1. thread'[t].pc \in {"verified", "connected"} /\ \A u \in Process \ {t} : thread'[u] = thread[u]
      BY <1>2, <1>9 DEF Verify, Connect
    <2> QED
      BY <1>3, <2>1, ValuesStay
  <1> QED
    BY <1>5, <1>6, <1>7, <1>8, <1>9 DEF Execute

LEMMA ValuesNext == Base /\ ValuesKept /\ [Next]_vars => ValuesKept'
PROOF
  <1> SUFFICES ASSUME Base, ValuesKept, [Next]_vars PROVE ValuesKept'
    OBVIOUS
  <1>0. DOMAIN thread = Process
    BY DEF Base, TypeOK, DriverType
  <1>1. ASSUME UNCHANGED <<jvm, thread>> PROVE ValuesKept'
    BY <1>1, ValuesStay
  <1>2. ASSUME NEW g \in Process, NEW query, Take(g, query) PROVE ValuesKept'
    <2>1. thread'[g].pc = "asked" /\ \A u \in Process \ {g} : thread'[u] = thread[u]
      BY <1>0, <1>2 DEF Take
    <2> QED
      BY <1>2, <2>1, ValuesStay DEF Take
  <1>3. ASSUME NEW g \in Process, Answered(g) PROVE ValuesKept'
    <2>1. thread'[g].pc = "idle" /\ \A u \in Process \ {g} : thread'[u] = thread[u]
      BY <1>0, <1>3 DEF Answered, Resting
    <2> QED
      BY <1>3, <2>1, ValuesStay DEF Answered
  <1>4. ASSUME NEW g \in Process, Allow(g) PROVE ValuesKept'
    BY <1>1, <1>4 DEF Allow, TakeList, TornList, ReadTables, ReadTags, OpenList, WriteList, driver
  <1>5. ASSUME NEW g \in Process, Enforce(g) PROVE ValuesKept'
    BY <1>1, <1>2, <1>3, <1>5 DEF Enforce, Probe, Known, Probed, driver
  <1>6. ASSUME NEW g \in Process, Sign(g) PROVE ValuesKept'
    BY <1>1, <1>2, <1>3, <1>6 DEF Sign, LookForKey, OpenKey, FillKey, Send, Reply, Unavailable, driver
  <1>7. ASSUME NEW g \in Process, Unheard(g) \/ Kill(g) PROVE ValuesKept'
    BY <1>1, <1>3, <1>7 DEF Unheard, Kill, driver
  <1>8. ASSUME NEW g \in Process, NEW w \in Whom, NEW route \in Routes, Ask(g, w, route) PROVE ValuesKept'
    BY <1>1, <1>8 DEF Ask, driver
  <1>9. ASSUME Driver PROVE ValuesKept'
    <2>1. ASSUME NEW t \in Process, Execute(t) PROVE ValuesKept'
      BY <2>1, ValuesExecute
    <2>2. ASSUME NEW t \in Process, More(t) PROVE ValuesKept'
      <3>1. thread'[t].pc = "asked" /\ \A u \in Process \ {t} : thread'[u] = thread[u]
        BY <1>0, <2>2 DEF More
      <3> QED
        BY <2>2, <3>1, ValuesStay DEF More
    <2>3. ASSUME NEW t \in Process, NEW c \in Connection, NEW st \in Statement, Prepare(t, c, st)
          PROVE  ValuesKept'
      <3>1. thread'[t].pc = "ready" /\ \A u \in Process \ {t} : thread'[u] = thread[u]
        BY <1>0, <2>3 DEF Prepare
      <3> QED
        BY <2>3, <3>1, ValuesStay DEF Prepare
    <2>4. ASSUME NEW c \in Connection, PoolClose(c) \/ \E p \in Reader : Drop(c, p) PROVE ValuesKept'
      BY <1>1, <2>4 DEF PoolClose, Drop
    <2> QED
      BY <1>9, <2>1, <2>2, <2>3, <2>4 DEF Driver
  <1>10. ASSUME NEW passes \in BOOLEAN, Deployed(passes) PROVE ValuesKept'
    <2>1. \A t \in Process : thread'[t].pc # "ran"
      BY <1>10 DEF Deployed, Deploy, Resting
    <2> QED
      BY <2>1, ValuesStay
  <1>11. ASSUME NEW t \in Process, NEW c \in Connection, NEW st \in Statement, KeyChecked(t, c, st)
         PROVE  ValuesKept'
    <2>1. thread'[t].pc = "ready" /\ \A u \in Process \ {t} : thread'[u] = thread[u]
      BY <1>0, <1>11 DEF KeyChecked, PrepareCheck
    <2> QED
      BY <1>11, <2>1, ValuesStay DEF KeyChecked, PrepareCheck
  <1>12. ASSUME NEW p \in Reader, NEW grants \in SUBSET Grants, Regrant(p, grants) PROVE ValuesKept'
    BY <1>1, <1>12 DEF Regrant, driver
  <1>13. CASE Tick \/ UNCHANGED vars
    BY <1>1, <1>13 DEF Tick, vars
  <1> QED
    BY <1>4, <1>5, <1>6, <1>7, <1>8, <1>9, <1>10, <1>11, <1>12, <1>13 DEF Next

\* Under the pass-through a statement sends the values its query bound, every one of them in
\* its place in the SQL the predicate was taken out of, and never the token, however the calls
\* that bound them were ordered (Passthrough.java:184-211, Rewrite.java:20-41).
THEOREM StatementsKeepTheirValues == Spec => []ValuesKept
PROOF
  <1>1. Init => ValuesKept
    BY DEF Init, ValuesKept, Resting
  <1> QED
    BY <1>1, BaseHolds, ValuesNext, PTL DEF Spec
=============================================================================
