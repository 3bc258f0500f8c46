---------------------------- MODULE Passthrough -----------------------------
(***************************************************************************)
(* The JDBC pass-through (vg-passthrough/): the driver inside Virtual      *)
(* Graph's JVM.  A statement of a signed query carries the gateway's token *)
(* as one of its parameters; the driver verifies it, takes it out, and     *)
(* runs the statement on a connection of the principal it names.  Virtual  *)
(* Graph lends a pooled connection to one thread at a time, and may be     *)
(* started again with the plain driver, which runs everything as its own   *)
(* identity.                                                               *)
(***************************************************************************)
EXTENDS Naturals, Sequences, FiniteSets

CONSTANTS
  Process,     \* the gateway's processes: each has one session, a thread of Virtual Graph's
  Connection,  \* Hikari's pooled connections
  Reader,      \* principals
  Own,         \* the data source's own identity: the empty principal
  Mark,        \* the parameter labelled qlsc_principal
  Statement,   \* what Virtual Graph makes of a query: [check, params, calls]
  Absent,      \* no file
  Empty,       \* write_text has opened the file and not written it: a key of no bytes
  Nil

Whom == Reader \cup {Own}
Signed(st) == \E i \in DOMAIN st.params : st.params[i] = Mark

\* The gateway's predicate is in a query once, so its parameter in a statement (entitle.signed).
\* A statement's calls before it runs: setString(at, its value), or setFetchSize (at is 0);
\* JDBC runs a statement that has all its parameters.
ASSUME PassthroughAssumption ==
  /\ Own \notin Reader
  /\ \A st \in Statement :
       /\ st.check \in BOOLEAN /\ (st.check => ~Signed(st))
       /\ Len(st.params) \in Nat /\ DOMAIN st.params = 1 .. Len(st.params)
       /\ \A i, j \in DOMAIN st.params : st.params[i] = Mark /\ st.params[j] = Mark => i = j
       /\ {st.calls[i] : i \in DOMAIN st.calls} \cup {0} = DOMAIN st.params \cup {0}

Keys == Process \cup {Empty}   \* a key is its maker's

VARIABLES
  jvm,      \* Virtual Graph's process: [born, passes, key]
  pool,     \* of each pooled connection, its map of each principal's connection, or Nil (Conn.as)
  thread,   \* of each session, the query and its statement
  keyFile,  \* <work>/virtual/passthrough.key
  now

driver == <<jvm, pool, thread, keyFile, now>>

Resting == [pc |-> "idle"]
Fresh(born, passes) == [born |-> born, passes |-> passes, key |-> Nil]

Busy == {t \in Process :
  thread[t].pc \in {"ready", "verified", "connected", "ran", "refused", "failed"}}
Free(c) == \A t \in Busy : thread[t].conn # c

\* A query arrives: [for, token, checked, route], the last two the model's.
Take(t, query) ==
  /\ thread[t].pc = "idle"
  /\ thread' = [thread EXCEPT ![t] = [pc |-> "asked", query |-> query]]
  /\ UNCHANGED <<jvm, pool, keyFile>>

\* A connection is borrowed, a statement prepared on it and its parameters bound: all held.
Prepare(t, c, st) ==
  /\ thread[t].pc = "asked" /\ Free(c)
  /\ ~st.check /\ (Signed(st) <=> thread[t].query.token # Nil)
  /\ thread' = [thread EXCEPT ![t] =
       [pc |-> "ready", query |-> @.query, conn |-> c, stmt |-> st]]
  /\ UNCHANGED <<jvm, pool, keyFile, now>>

\* Virtual Graph's own check that a node key is unique.
Startup == [for |-> Own, token |-> Nil, checked |-> 0, route |-> "startup"]
PrepareCheck(t, c, st) ==
  /\ thread[t].pc = "idle" /\ Free(c) /\ st.check
  /\ thread' = [thread EXCEPT ![t] =
       [pc |-> "ready", query |-> Startup, conn |-> c, stmt |-> st]]
  /\ UNCHANGED <<jvm, pool, keyFile, now>>

Ends(t, pc, why) ==
  thread' = [thread EXCEPT ![t] =
    [pc |-> pc, query |-> @.query, conn |-> @.conn, stmt |-> @.stmt, why |-> why]]
Runs(t, whom, sent) ==
  thread' = [thread EXCEPT ![t] =
    [pc |-> "ran", query |-> @.query, conn |-> @.conn, stmt |-> @.stmt,
     whom |-> whom, sent |-> sent]]

\* The calls a statement is given before it runs, each with the value it binds.
Bound(st, token) ==
  {<<n, IF n = 0 THEN Nil ELSE IF st.params[n] = Mark THEN token ELSE st.params[n]>> :
     n \in {st.calls[i] : i \in DOMAIN st.calls}}
MarkAt(st) == CHOOSE i \in DOMAIN st.params :
  st.params[i] = Mark /\ \A j \in 1 .. i - 1 : st.params[j] # Mark

WithoutUnshifted(st, bound) ==   \* mutant of Without: the parameters after the token's keep their places
  {b \in bound : b[1] # MarkAt(st)}
\* The token is never sent on, and the parameters after it move up.
Without(st, bound) ==
  {<<IF b[1] > MarkAt(st) THEN b[1] - 1 ELSE b[1], b[2]>> : b \in {b \in bound : b[1] # MarkAt(st)}}

\* Token.verify.  An empty key is no key for HmacSHA256: every verification throws.
Verdict(key, token) ==
  IF key = Empty THEN "broken"
  ELSE IF token.key # key THEN "forged"
  ELSE IF now > token.expires THEN "expired"
  ELSE "good"

LoadedStale == jvm.key   \* mutant of Loaded: what was there when Virtual Graph started
\* The key, read on the first verification that finds the file and kept for the JVM's life.
Loaded == IF jvm.key # Nil THEN jvm.key ELSE keyFile

\* A connection to the warehouse, and as whom it acts.
Impersonating(p) == [as |-> p, open |-> TRUE]
BaseLink == Impersonating(Own)
Alive(link) == link # Nil /\ link.open
ForPrincipalAny(c, p) ==   \* mutant of ForPrincipal: any connection that is open
  IF \E q \in Reader : Alive(pool[c][q]) THEN pool[c][CHOOSE q \in Reader : Alive(pool[c][q])]
  ELSE Impersonating(p)
\* The base for the data source itself; else the one opened for the principal before, or a new one.
ForPrincipal(c, p) ==
  IF p = Own THEN BaseLink ELSE IF Alive(pool[c][p]) THEN pool[c][p] ELSE Impersonating(p)

\* Stmt.materialize, and the execution.
RunCheck(t) ==   \* the one unsigned statement let through, on the base connection
  /\ thread[t].pc = "ready" /\ jvm.passes /\ thread[t].stmt.check
  /\ Runs(t, Own, Bound(thread[t].stmt, Nil))
  /\ UNCHANGED <<jvm, pool, keyFile, now>>
RefuseUnsigned(t) ==
  /\ thread[t].pc = "ready" /\ jvm.passes
  /\ ~thread[t].stmt.check /\ ~Signed(thread[t].stmt)
  /\ Ends(t, "refused", "unsigned")
  /\ UNCHANGED <<jvm, pool, keyFile, now>>
NoKey(t) ==
  /\ thread[t].pc = "ready" /\ jvm.passes /\ Signed(thread[t].stmt)
  /\ Loaded = Absent
  /\ Ends(t, "failed", "no key")
  /\ UNCHANGED <<jvm, pool, keyFile, now>>
Judged(t, verdicts) ==
  /\ thread[t].pc = "ready" /\ jvm.passes /\ Signed(thread[t].stmt)
  /\ Loaded # Absent /\ Verdict(Loaded, thread[t].query.token) \in verdicts
  /\ jvm' = [jvm EXCEPT !.key = Loaded]
Refuse(t) ==
  /\ Judged(t, {"broken", "forged", "expired"})
  /\ Ends(t, "refused", Verdict(Loaded, thread[t].query.token))
  /\ UNCHANGED <<pool, keyFile, now>>
Verify(t) ==
  /\ Judged(t, {"good"})
  /\ thread' = [thread EXCEPT ![t] =
       [pc |-> "verified", query |-> @.query, conn |-> @.conn, stmt |-> @.stmt, as |-> @.query.token.for]]
  /\ UNCHANGED <<pool, keyFile, now>>
Connect(t) ==   \* after the verification, and over the network
  LET c == thread[t].conn
      p == thread[t].as
  IN  /\ thread[t].pc = "verified"
      /\ thread' = [thread EXCEPT ![t] =
           [pc |-> "connected", query |-> @.query, conn |-> c, stmt |-> @.stmt, target |-> ForPrincipal(c, p)]]
      /\ pool' = IF p = Own THEN pool ELSE [pool EXCEPT ![c][p] = ForPrincipal(c, p)]
      /\ UNCHANGED <<jvm, keyFile, now>>
Usable(c, link) == link = BaseLink \/ \E q \in Reader : pool[c][q] = link
RunAs(t) ==   \* prepared on that connection, its parameters bound without the token, and run
  LET r == thread[t] IN
  /\ r.pc = "connected" /\ Usable(r.conn, r.target)
  /\ Runs(t, r.target.as, Without(r.stmt, Bound(r.stmt, r.query.token)))
  /\ UNCHANGED <<jvm, pool, keyFile, now>>
Fails(t) ==   \* the warehouse gives no connection, or the one it gave is closed or broken
  /\ thread[t].pc \in {"verified", "connected"}
  /\ Ends(t, "failed", "warehouse")
  /\ UNCHANGED <<jvm, pool, keyFile, now>>
RunPlain(t) ==   \* the plain driver: the statement as it is, as the data source
  /\ thread[t].pc = "ready" /\ ~jvm.passes
  /\ Runs(t, Own, Bound(thread[t].stmt, thread[t].query.token))
  /\ UNCHANGED <<jvm, pool, keyFile, now>>
Execute(t) ==
  \/ RunCheck(t) \/ RefuseUnsigned(t) \/ NoKey(t) \/ Refuse(t) \/ RunPlain(t)
  \/ Verify(t) \/ Connect(t) \/ RunAs(t) \/ Fails(t)

\* A query of several statements: the connection goes back to the pool, open as it is.
More(t) ==
  /\ thread[t].pc = "ran" /\ ~thread[t].stmt.check
  /\ thread' = [thread EXCEPT ![t] = [pc |-> "asked", query |-> @.query]]
  /\ UNCHANGED <<jvm, pool, keyFile, now>>
Answered(t) ==
  /\ thread[t].pc \in {"ran", "refused", "failed"}
  /\ thread' = [thread EXCEPT ![t] = Resting]
  /\ UNCHANGED <<jvm, pool, keyFile>>

\* Hikari retires a connection, and with it those in its map; or the warehouse closes one of them,
\* which stays in the map.
Unopened == [p \in Reader |-> Nil]
PoolClose(c) ==
  /\ Free(c) /\ pool[c] # Unopened /\ pool' = [pool EXCEPT ![c] = Unopened]
  /\ UNCHANGED <<jvm, thread, keyFile, now>>
Drop(c, p) ==
  /\ Alive(pool[c][p]) /\ pool' = [pool EXCEPT ![c][p].open = FALSE]
  /\ UNCHANGED <<jvm, thread, keyFile, now>>

\* Virtual Graph is deployed again, with the pass-through or the plain driver: its queries are lost.
Deploy(passes) ==
  /\ jvm' = Fresh(jvm.born + 1, passes)
  /\ pool' = [c \in Connection |-> Unopened]
  /\ thread' = [t \in Process |-> Resting]
  /\ UNCHANGED <<keyFile, now>>
=============================================================================
