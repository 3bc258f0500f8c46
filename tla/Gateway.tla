------------------------------ MODULE Gateway -------------------------------
(***************************************************************************)
(* The entitlement gateway (src/qlsc/entitle.py) before the pass-through:  *)
(* what each process that answers for a principal does from the principal  *)
(* to the signed query, beside other processes of the same work directory. *)
(* The allowlists and the key are files there, opened and then written;    *)
(* whether the virtual graph enforces is asked once by each process.       *)
(***************************************************************************)
EXTENDS Passthrough

CONSTANTS
  AllowSeconds,  \* entitlements.allowlist_seconds
  TokenSeconds,  \* entitlements.token_seconds
  Start          \* bounds, whom is asked for, and what is there at first

Grants == {"table", "tag"}   \* a table, and the policy tag of one of its columns

TokenType == [for : Whom, key : Keys \cup {Absent}, expires : Nat]
ListType == [shows : SUBSET Grants, built : Nat, began : Nat]
Routes == {"gateway", "composite"}   \* entitle.signing, or a composite's query, which the server signs itself
Budget == [asks : Nat, kills : Nat, regrants : Nat, deploys : Nat, checks : Nat, ticks : Nat]

ASSUME GatewayAssumption ==
  /\ AllowSeconds \in Nat /\ TokenSeconds \in Nat
  /\ Absent \notin Process /\ Empty \notin Process /\ Nil \notin Process
  /\ Nil \notin {Absent, Empty} \cup TokenType \cup ListType /\ Nil \notin Nat /\ Absent # Empty
  /\ Nil \notin [as : Whom, open : BOOLEAN]
  /\ Start \subseteq [may : [Reader -> SUBSET Grants], whom : SUBSET Whom, routes : SUBSET Routes,
                      key : Process \cup {Absent}, cached : BOOLEAN, passes : BOOLEAN, left : Budget]

VARIABLES
  may,       \* what the warehouse grants each reader
  last,      \* when each reader last had each grant (history)
  lists,     \* <work>/allowlists/<principal>.json: Absent, Empty or [shows, built, began]
  enforced,  \* _ENFORCED: Nil, 0 for no, or the Virtual Graph that refused (by when it was born)
  proc,      \* of each process, where its request is
  left,      \* [whom, routes, budget]: who is asked for and how, and how much may still come (the model's)
  torn       \* a key was read or made while another process was making it (history)

gate == <<may, last, lists, enforced, proc, left, torn>>
vars == <<jvm, pool, thread, keyFile, now, may, last, lists, enforced, proc, left, torn>>

NoOne == [pc |-> "idle"]
Spend(what) == left.budget[what] > 0 /\ left' = [left EXCEPT !.budget[what] = @ - 1]

Init ==
  \E s \in Start :
    /\ jvm = Fresh(1, s.passes)
    /\ pool = [c \in Connection |-> Unopened] /\ thread = [t \in Process |-> Resting]
    /\ keyFile = s.key /\ now = 0
    /\ may = s.may /\ last = [p \in Reader |-> [x \in Grants |-> 0]]
    /\ lists = [p \in Reader |->
         IF s.cached THEN [shows |-> s.may[p], built |-> 0, began |-> 0] ELSE Absent]
    /\ enforced = [g \in Process |-> Nil] /\ proc = [g \in Process |-> NoOne]
    /\ left = [whom |-> s.whom, routes |-> s.routes, budget |-> s.left]
    /\ torn = FALSE

At(g, pc) == proc[g].pc = pc
Goes(g, pc) == proc' = [proc EXCEPT ![g].pc = pc]
Stops(g) == proc' = [proc EXCEPT ![g] = NoOne]

\* A composite's query needs no allowlist, and nobody asks whether its virtual graph enforces.
Ask(g, w, route) ==
  /\ At(g, "idle") /\ w \in left.whom /\ route \in left.routes /\ Spend("asks")
  /\ proc' = [proc EXCEPT ![g] =
       [pc |-> IF w = Own \/ route = "composite" THEN "sign" ELSE "list",
        whom |-> w, route |-> route, list |-> Nil, used |-> 0]]
  /\ UNCHANGED <<may, last, lists, enforced, torn>> /\ UNCHANGED driver

----------------------------------------------------------------------------
\* The allowlist
Listed(g) == lists[proc[g].whom]
Written(g) == Listed(g) \notin {Absent, Empty}
YoungAlways(list) == TRUE   \* mutant of Young: a list that is there is used
Young(list) == now - list.built < AllowSeconds

TakeList(g) ==
  /\ At(g, "list") /\ Written(g) /\ Young(Listed(g))
  /\ proc' = [proc EXCEPT ![g].pc = "check", ![g].list = Listed(g), ![g].used = now]
  /\ UNCHANGED <<may, last, lists, enforced, left, torn>> /\ UNCHANGED driver
TornList(g) ==   \* no JSON in it: the request fails
  /\ At(g, "list") /\ Listed(g) = Empty
  /\ Stops(g)
  /\ UNCHANGED <<may, last, lists, enforced, left, torn>> /\ UNCHANGED driver
\* The tables as the principal, then the tags of those it may read.
ReadTables(g) ==
  /\ At(g, "list") /\ (Listed(g) = Absent \/ (Written(g) /\ ~Young(Listed(g))))
  /\ proc' = [proc EXCEPT ![g].pc = "tags",
       ![g].list = [shows |-> may[proc[g].whom] \cap {"table"}, built |-> 0, began |-> now]]
  /\ UNCHANGED <<may, last, lists, enforced, left, torn>> /\ UNCHANGED driver
ReadTags(g) ==
  LET tables == proc[g].list.shows
      tags == IF tables = {} THEN {} ELSE may[proc[g].whom] \cap {"tag"}
  IN  /\ At(g, "tags")
      /\ proc' = [proc EXCEPT ![g].pc = "keep", ![g].used = now,
           ![g].list = [shows |-> tables \cup tags, built |-> now, began |-> @.began]]
      /\ UNCHANGED <<may, last, lists, enforced, left, torn>> /\ UNCHANGED driver
OpenList(g) ==
  /\ At(g, "keep") /\ lists' = [lists EXCEPT ![proc[g].whom] = Empty]
  /\ Goes(g, "write")
  /\ UNCHANGED <<may, last, enforced, left, torn>> /\ UNCHANGED driver
WriteList(g) ==
  /\ At(g, "write") /\ lists' = [lists EXCEPT ![proc[g].whom] = proc[g].list]
  /\ Goes(g, "check")
  /\ UNCHANGED <<may, last, enforced, left, torn>> /\ UNCHANGED driver

----------------------------------------------------------------------------
\* Does the virtual graph refuse an unsigned query?
Unsigned == [for |-> Own, token |-> Nil, checked |-> 0, route |-> "gateway"]
UnenforcedNever(g) == FALSE   \* mutant of Unenforced: a named principal's query is signed all the same
Unenforced(g) == enforced[g] = 0
Probe(g) ==
  /\ At(g, "check") /\ enforced[g] = Nil
  /\ Take(g, Unsigned) /\ Goes(g, "probing")
  /\ UNCHANGED <<now, may, last, lists, enforced, left, torn>>
Known(g) ==   \* asked before: on to the signature, unless Unenforced
  /\ At(g, "check") /\ enforced[g] # Nil
  /\ IF Unenforced(g) THEN Stops(g) ELSE Goes(g, "sign")
  /\ UNCHANGED <<may, last, lists, enforced, left, torn>> /\ UNCHANGED driver
Probed(g) ==
  /\ At(g, "probing") /\ Answered(g)
  /\ CASE thread[g].pc = "refused" -> enforced' = [enforced EXCEPT ![g] = jvm.born] /\ Goes(g, "check")
       [] thread[g].pc = "ran" -> enforced' = [enforced EXCEPT ![g] = 0] /\ Goes(g, "check")
       [] OTHER -> UNCHANGED enforced /\ Stops(g)
  /\ UNCHANGED <<now, may, last, lists, left, torn>>

----------------------------------------------------------------------------
\* The key, and the signed query
LookForKey(g) ==
  /\ At(g, "sign") /\ Goes(g, IF keyFile = Absent THEN "open" ELSE "read")
  /\ UNCHANGED <<may, last, lists, enforced, left, torn>> /\ UNCHANGED driver
OpenKey(g) ==   \* write_text: the file is there, or emptied
  /\ At(g, "open") /\ Goes(g, "fill")
  /\ keyFile' = Empty /\ torn' = (torn \/ keyFile # Absent)
  /\ UNCHANGED <<jvm, pool, thread, now, may, last, lists, enforced, left>>
FillKey(g) ==
  /\ At(g, "fill") /\ Goes(g, "read")
  /\ keyFile' = g
  /\ UNCHANGED <<jvm, pool, thread, now, may, last, lists, enforced, left, torn>>
Token(g) == [for |-> proc[g].whom, key |-> keyFile, expires |-> now + TokenSeconds]
Send(g) ==
  /\ At(g, "read")
  /\ Take(g, [for |-> proc[g].whom, token |-> Token(g), route |-> proc[g].route,
              checked |-> IF proc[g].whom = Own \/ proc[g].route = "composite" THEN 0 ELSE enforced[g]])
  /\ Goes(g, "waiting") /\ torn' = (torn \/ keyFile = Empty)
  /\ UNCHANGED <<now, may, last, lists, enforced, left>>
Reply(g) ==
  /\ At(g, "waiting") /\ Answered(g) /\ Stops(g)
  /\ UNCHANGED <<now, may, last, lists, enforced, left, torn>>
UnavailableAnyway(g) ==   \* mutant of Unavailable: the probe's error, which is no refusal, is passed over
  /\ proc[g].pc \in {"probing", "waiting"} /\ thread[g].pc = "idle"
  /\ IF At(g, "probing") THEN Goes(g, "sign") ELSE Stops(g)
  /\ UNCHANGED <<may, last, lists, enforced, left, torn>> /\ UNCHANGED driver
\* The virtual graph went away under the query.
Unavailable(g) ==
  /\ proc[g].pc \in {"probing", "waiting"} /\ thread[g].pc = "idle" /\ Stops(g)
  /\ UNCHANGED <<may, last, lists, enforced, left, torn>> /\ UNCHANGED driver

----------------------------------------------------------------------------
\* A statement that no process waits for: its process was killed, or it is Virtual Graph's own.
Unheard(t) ==
  /\ ~(proc[t].pc \in {"probing", "waiting"}) /\ Answered(t)
  /\ UNCHANGED now /\ UNCHANGED gate
Kill(g) ==
  /\ ~At(g, "idle") /\ Spend("kills")
  /\ proc' = [proc EXCEPT ![g] = NoOne] /\ enforced' = [enforced EXCEPT ![g] = Nil]
  /\ UNCHANGED <<may, last, lists, torn>> /\ UNCHANGED driver
Regrant(p, grants) ==
  /\ p \in left.whom /\ grants # may[p] /\ Spend("regrants")
  /\ may' = [may EXCEPT ![p] = grants]
  /\ last' = [last EXCEPT ![p] = [x \in Grants |-> IF x \in grants \cup may[p] THEN now ELSE @[x]]]
  /\ UNCHANGED <<lists, enforced, proc, torn>> /\ UNCHANGED driver
Tick ==
  /\ Spend("ticks") /\ now' = now + 1
  /\ last' = [p \in Reader |-> [x \in Grants |-> IF x \in may[p] THEN now + 1 ELSE last[p][x]]]
  /\ UNCHANGED <<jvm, pool, thread, keyFile, may, lists, enforced, proc, torn>>

----------------------------------------------------------------------------
Allow(g) == TakeList(g) \/ TornList(g) \/ ReadTables(g) \/ ReadTags(g) \/ OpenList(g) \/ WriteList(g)
Enforce(g) == Probe(g) \/ Known(g) \/ Probed(g)
Sign(g) == LookForKey(g) \/ OpenKey(g) \/ FillKey(g) \/ Send(g) \/ Reply(g) \/ Unavailable(g)
Driver ==
  \/ \E t \in Process : Execute(t) \/ More(t)
  \/ \E t \in Process, c \in Connection, st \in Statement : Prepare(t, c, st)
  \/ \E c \in Connection : PoolClose(c) \/ \E p \in Reader : Drop(c, p)
Deployed(passes) ==
  Spend("deploys") /\ Deploy(passes) /\ UNCHANGED <<may, last, lists, enforced, proc, torn>>
KeyChecked(t, c, st) ==
  Spend("checks") /\ PrepareCheck(t, c, st) /\ UNCHANGED <<may, last, lists, enforced, proc, torn>>

Next ==
  \/ \E g \in Process : Allow(g) \/ Enforce(g) \/ Sign(g) \/ Unheard(g) \/ Kill(g)
  \/ \E g \in Process, w \in Whom, route \in Routes : Ask(g, w, route)
  \/ Driver /\ UNCHANGED gate
  \/ \E passes \in BOOLEAN : Deployed(passes)
  \/ \E t \in Process, c \in Connection, st \in Statement : KeyChecked(t, c, st)
  \/ \E p \in Reader, grants \in SUBSET Grants : Regrant(p, grants)
  \/ Tick

Spec == Init /\ [][Next]_vars

----------------------------------------------------------------------------
QueryType == [for : Whom, token : TokenType \cup {Nil}, checked : Nat, route : Routes \cup {"startup"}]
Prepared == [pc : {"ready"}, query : QueryType, conn : Connection, stmt : Statement]
Link == [as : Whom, open : BOOLEAN]
Verified == [pc : {"verified"}, query : QueryType, conn : Connection, stmt : Statement, as : Whom]
Connected == [pc : {"connected"}, query : QueryType, conn : Connection, stmt : Statement, target : Link]
Ended == [pc : {"refused", "failed"}, query : QueryType, conn : Connection, stmt : Statement,
          why : {"unsigned", "no key", "broken", "forged", "expired", "warehouse"}]
Ran(r) ==
  /\ r.pc = "ran" /\ r.query \in QueryType /\ r.conn \in Connection /\ r.stmt \in Statement
  /\ r.whom \in Whom
ThreadType(r) ==
  \/ r = Resting
  \/ r \in [pc : {"asked"}, query : QueryType]
  \/ r \in Prepared \cup Verified \cup Connected \cup Ended
  \/ Ran(r)
Requests == [pc : {"list", "tags", "keep", "write", "check", "probing", "sign", "open", "fill", "read", "waiting"},
             whom : Whom, route : Routes, list : ListType \cup {Nil}, used : Nat]

DriverType ==
  /\ jvm \in [born : Nat \ {0}, passes : BOOLEAN, key : Keys \cup {Nil}]
  /\ pool \in [Connection -> [Reader -> Link \cup {Nil}]]
  /\ DOMAIN thread = Process /\ \A t \in Process : ThreadType(thread[t])
  /\ keyFile \in Keys \cup {Absent} /\ now \in Nat
GateType ==
  /\ may \in [Reader -> SUBSET Grants] /\ last \in [Reader -> [Grants -> Nat]]
  /\ lists \in [Reader -> ListType \cup {Absent, Empty}]
  /\ enforced \in [Process -> Nat \cup {Nil}]
  /\ proc \in [Process -> Requests \cup {NoOne}]
  /\ torn \in BOOLEAN
\* Every variable has its type: the driver's; the work directory's and each process's request.
\* A query's `checked` is a number: no process signs for a principal without an answer to whether
\* the virtual graph enforces (entitle.py:252-265).
TypeOK == DriverType /\ GateType

\* A statement runs as the principal its query is for, whoever used the pooled connection
\* before and whatever was opened on it or closed since the token was verified.  Under the
\* plain driver it may run as the data source in two cases: the process had found a Virtual
\* Graph deployed earlier to refuse an unsigned query, or the query was a composite's, signed
\* without asking (Passthrough.java:103-111, 198; entitle.py:252-277; server.py:351-352).
Deceived(query) == 0 < query.checked /\ query.checked < jvm.born
RunsAsItsReader ==
  \A t \in Process : thread[t].pc = "ran" =>
    \/ thread[t].whom = thread[t].query.for
    \/ ~jvm.passes /\ (Deceived(thread[t].query) \/ thread[t].query.route = "composite")

\* Under the pass-through the values the query bound are sent in their places, every one of
\* them, and the token is not among them (Passthrough.java:184-211, Rewrite.java).
Marks(st) == {i \in DOMAIN st.params : st.params[i] = Mark}
Place(st, i) == i - Cardinality({j \in Marks(st) : j < i})   \* in the SQL without the predicate
Values(st) == {<<Place(st, i), st.params[i]>> : i \in DOMAIN st.params \ Marks(st)}
ValuesKept ==
  \A t \in Process : thread[t].pc = "ran" /\ jvm.passes =>
    {b \in thread[t].sent : b[1] # 0} = Values(thread[t].stmt)

\* A query the gateway signed is refused for its signature only when the key was made by two
\* processes at once, or read half made (entitle.py:203-211, Passthrough.java:71-80).
Honoured ==
  \A t \in Process : thread[t].pc = "refused" /\ thread[t].why \in {"broken", "forged"} => torn

\* What an allowlist in use shows its reader the warehouse had granted them at most
\* allowlist_seconds, and the time the list took to build, before it was taken up
\* (entitle.py:108-141).
ListsAge ==
  \A g \in Process : proc[g].pc \in {"check", "probing", "sign", "open", "fill", "read", "waiting"} =>
    LET list == proc[g].list
    IN  list # Nil => \A x \in list.shows :
          proc[g].used <= last[proc[g].whom][x] + AllowSeconds + (list.built - list.began)
=============================================================================
