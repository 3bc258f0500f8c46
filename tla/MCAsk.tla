-------------------------------- MODULE MCAsk --------------------------------
(***************************************************************************)
(* A bank in four tables: merchants (1), customers (2), the customers'     *)
(* card transactions at the merchants (3), and their calls (4), some about *)
(* a transaction; each with a key, two references and a value, which is a  *)
(* call's day.                                                             *)
(***************************************************************************)
EXTENDS Ask

CONSTANTS q1, q2

Id == 1
To == 2
Val == 3
At == 4
MCTables == 1 .. 4
MCColumns == 1 .. 4
MCKey == [t \in MCTables |-> Id]
MCPartition == [t \in MCTables |-> IF t = 4 THEN Val ELSE Nil]
Join(a, col, b, outer) == [a |-> b, ac |-> Id, b |-> a, bc |-> col, outer |-> outer]
MCJoins == {Join(3, To, 2, TRUE), Join(4, To, 2, FALSE), Join(4, At, 3, TRUE), Join(3, At, 1, TRUE)}
MCPoints == {[start |-> j.b, col |-> j.bc, end |-> j.a] : j \in MCJoins}

World(merchants, customers, txns, calls) == <<merchants, customers, txns, calls>>
Alone(k, val) == <<k, Nil, val, Nil>>
Plainly == World(<<Alone(1, 5), Alone(2, 6)>>, <<Alone(1, 7), Alone(2, 8)>>,
                 <<<<1, 1, 2, 1>>, <<2, 1, 3, 2>>, <<3, 2, 4, 1>>>>, <<<<1, 2, 1, 3>>, <<2, 2, 3, 2>>, <<3, 1, 2, 2>>>>)
\* References that are NULL, and values
Nulls == World(<<Alone(1, 5), Alone(2, Nil)>>, <<Alone(1, Nil), Alone(2, 8)>>,
               <<<<1, Nil, 2, 1>>, <<2, 1, Nil, Nil>>, <<3, 2, 4, 2>>>>, <<<<1, 1, Nil, 2>>, <<2, 2, 3, Nil>>>>)
\* ... that lead nowhere
Dangling == World(<<Alone(1, 5)>>, <<Alone(1, 7), Alone(2, 8)>>,
                  <<<<1, 9, 2, 1>>, <<2, 2, 3, 9>>>>, <<<<1, 9, 1, 2>>, <<2, 1, 3, 9>>>>)
\* Two customers of one key
Twice == World(<<Alone(1, 5)>>, <<Alone(1, 7), Alone(1, 8)>>,
               <<<<1, 1, 2, 1>>, <<2, 1, 3, 1>>>>, <<<<1, 1, 1, 1>>>>)
\* One transaction, and one call, of each customer
Single == World(<<Alone(1, 5)>>, <<Alone(1, 7), Alone(2, 8)>>,
                <<<<1, 1, 2, 1>>, <<2, 2, 3, 1>>>>, <<<<1, 2, 1, 2>>, <<2, 1, 3, 1>>>>)
MCWorlds == {Plainly, Nulls, Dangling, Twice, Single}

\* What the warehouse may be loaded with while two are asking
MCLoaded == {Plainly, Twice}

Cond(t, c, op, x) == [table |-> t, col |-> c, op |-> op, value |-> x, other |-> Nil]
Differs(t, u) == [table |-> t, col |-> Val, op |-> "<>", value |-> 0, other |-> <<u, Val>>]
Agg(agg, t, c) == [agg |-> agg, table |-> t, col |-> c, only |-> {}, filters |-> {}, per |-> <<>>]
Large == Cond(3, Val, ">=", 3)
\* Transactions per customer, all or the large ones
PerCustomer == [Agg("COUNT", 3, Id) EXCEPT !.per = <<<<2, Id>>>>]
LargePerCustomer == [PerCustomer EXCEPT !.filters = {Large}]
Measures ==
  {Agg("COUNT", Nil, Nil), Agg("SUM", 3, Val), Agg("SUM", 2, Val), Agg("COUNT_DISTINCT", 2, Id),
   [Agg("SUM", 3, Val) EXCEPT !.filters = {Large}],
   [Agg("COUNT", 4, Id) EXCEPT !.only = {Cond(2, Val, "=", 7)}],
   PerCustomer, Agg("MAX", 4, Val)}
Dims == {<<>>, <<<<<<1, Val>>>>>>, <<<<<<2, Id>>>>>>, <<<<<<4, To>>, <<3, To>>>>, <<<<1, Id>>>>>>}
Filters == {<<>>, <<Large>>, <<Cond(2, Val, "=", 7)>>, <<Cond(1, Val, "=", 5)>>, <<Differs(3, 4)>>,
            <<Cond(4, Val, ">=", 2), Cond(3, At, "IS NULL", 0)>>}
Period == [options |-> <<<<3, Val>>, <<4, Val>>>>, from |-> 2]
Asked(ms, ds, fs, p) == [measures |-> ms, dims |-> ds, filters |-> fs, period |-> p]

AtMostOne == {<<>>} \cup {<<m>> : m \in Measures}
Two == {<<p[1], p[2]>> : p \in {q \in Measures \X Measures : q[1] # q[2]}}
Singly == {Asked(ms, ds, fs, Nil) : ms \in AtMostOne, ds \in Dims, fs \in Filters}
Pairwise == {Asked(ms, ds, fs, Nil) : ms \in Two, ds \in Dims, fs \in Filters}
            \cup {Asked(<<m, n>>, <<>>, <<>>, Period) : m, n \in Measures}
            \cup {Asked(<<PerCustomer, LargePerCustomer>>, ds, fs, Nil) : ds \in Dims, fs \in Filters}
Requests == Singly \cup Pairwise

\* About one customer, or one merchant; of their calls, since a day or not.
Since3 == Cond(4, Val, ">=", 3)
Abouts == {<<Cond(2, Id, "=", 1)>>, <<Cond(3, To, "=", 1)>>, <<Cond(3, At, "=", 1)>>, <<Cond(3, At, "=", 1), Cond(3, To, "=", 1)>>,
           <<Cond(4, To, "=", 2)>>, <<Cond(4, To, "=", 2), Since3>>, <<Cond(4, To, "=", 1), Since3>>,
           <<Cond(4, To, "=", 2), Since3, Cond(1, Val, "=", 5)>>,
           <<Cond(4, To, "=", 2), Cond(4, Val, ">=", 2)>>}
AboutOne == {Asked(ms, ds, fs, Nil) : ms \in AtMostOne, ds \in Dims, fs \in Abouts}

SpendByMerchant == Asked(<<Agg("SUM", 3, Val)>>, <<<<<<1, Val>>>>>>, <<>>, Nil)
SpendByCustomer == Asked(<<Agg("SUM", 3, Val)>>, <<<<<<2, Id>>>>>>, <<>>, Nil)
Customers == Asked(<<Agg("COUNT_DISTINCT", 2, Id)>>, <<<<<<3, To>>>>>>, <<>>, Nil)
MCReplies == [q \in {q1, q2} |-> IF q = q1 THEN Requests \cup AboutOne ELSE {SpendByMerchant, SpendByCustomer, Customers}]

Start(w, held, file, visitors, question, leaving, loading) ==
  [data |-> w, held |-> held, answers |-> [q \in {q1, q2} |-> IF q = question THEN file ELSE Absent],
   asks |-> [v \in Visitors |-> IF v \in visitors THEN question ELSE Nil],
   leave |-> leaving, loads |-> loading]
\* A request of one visitor, the LLM's answer cached; one about a customer
\* or a merchant, with what was recalled of them; two at once, of a question
\* nobody asked before, while the warehouse is loaded; or three, of one whose
\* command was killed, and who may leave.
One == {Start(w, {}, r, {1}, q1, FALSE, 0) : w \in MCWorlds, r \in Singly}
       \cup {Start(w, {}, r, {1}, q1, FALSE, 0) : w \in {Plainly, Nulls, Twice}, r \in Pairwise}
Held == {{<<2, 1>>}, {<<2, 2>>}, {<<2, 1>>, <<1, 1>>}}
Recalled == {Start(w, held, r, {1}, q1, FALSE, 0) : w \in {Plainly, Nulls, Single}, held \in Held, r \in AboutOne}
AtOnce == {Start(Plainly, {}, Absent, {1, 2}, q2, FALSE, 1), Start(Plainly, {}, Empty, {1, 2, 3}, q2, TRUE, 0)}
MCStarts == One \cup Recalled \cup AtOnce
\* The rows of a bank where nothing is amiss
MCPlain == {s \in Recalled : s.data = Plainly}
=============================================================================
