------------------------------ MODULE MCMemory ------------------------------
(***************************************************************************)
(* Small banks for TLC: a customer's card transactions, each at a merchant,*)
(* as the Fennmoor example's model has them.  Txn.of is the customer's key,*)
(* Txn.at the merchant's.                                                  *)
(***************************************************************************)
EXTENDS Memory, TLC

CONSTANTS c1, t1, t2, m1, m2, of, at, ana, ben

Customer == "Customer"
Txn == "Txn"
Merchant == "Merchant"

MCLabels == {Customer, Txn, Merchant}
MCLabel == [n \in Node |-> CASE n = c1 -> Customer
                             [] n \in {t1, t2} -> Txn
                             [] OTHER -> Merchant]
MCStart == [t \in Rel |-> Txn]
MCEnd == [t \in Rel |-> IF t = of THEN Customer ELSE Merchant]
MCDay == [n \in Node |-> IF n = t1 THEN 1 ELSE IF n = t2 THEN 2 ELSE 0]

\* The window slides past t1's day at the second tick, or never
MCSlides == [time \in Times |-> IF time < 2 THEN 0 ELSE 2]
MCStands == [time \in Times |-> 0]

\* Each transaction is c1's, at m1
MCTables ==
  {[n \in Node |-> [t \in Rel |-> IF n \notin {t1, t2} THEN Null
                                  ELSE IF t = of THEN c1 ELSE m1]]}

Everything == Labels \cup Rel
\* Everybody reads everything
MCOpen == [r \in Reader |-> {Everything}]
\* ben may not read the column that names merchants
MCNoColumn == [r \in Reader |-> IF r = ben THEN {Everything \ {at}}
                                           ELSE {Everything}]
\* ... nor the table of customers
MCNoTable == [r \in Reader |-> IF r = ben THEN {Everything \ {Customer}}
                                          ELSE {Everything}]
\* Everybody is let read the table of customers, or is not, by turns
MCVaried == [r \in Reader |-> {Everything, Everything \ {Customer}}]

\* Facts hold for a tick, or for four (a day, at six hours a tick); or for two, and a
\* merchant's row for longer
MCHold1 == [l \in Labels |-> 1]
MCHold4 == [l \in Labels |-> 4]
MCHoldMixed == [l \in Labels |-> IF l = Merchant THEN 3 ELSE 2]

Symmetry == Permutations(Command)

\* The state without asOf, a history only FactsHold reads
Timeless(f) == [n \in DOMAIN f |-> [f[n] EXCEPT !.asOf = <<>>]]
View == <<world, Timeless(mem), rels, step, sweep, lost,
          [c \in Command |-> [job[c] EXCEPT !.rows = Timeless(job[c].rows)]]>>
=============================================================================
