----------------------------- MODULE MCGateway ------------------------------
EXTENDS Gateway
MCReader == {"ana", "bo"}
St(params, calls) == [check |-> FALSE, params |-> params, calls |-> calls]
\* The token first, between, and last; a fetch size among the calls; two unsigned.
MCStatement == {St(<<Mark, "x", "y">>, <<1, 0, 2, 3>>), St(<<"x", Mark, "y">>, <<3, 2, 1>>),
                St(<<>>, <<>>), [check |-> TRUE, params |-> <<>>, calls |-> <<>>]}
All == [p \in MCReader |-> Grants]
Budgets(asks, kills, regrants, deploys, checks, ticks) ==
  [asks |-> asks, kills |-> kills, regrants |-> regrants, deploys |-> deploys,
   checks |-> checks, ticks |-> ticks]
From(whom, routes, key, cached, passes, budget) ==
  [may |-> All, whom |-> whom, routes |-> routes, key |-> key, cached |-> cached,
   passes |-> passes, left |-> budget]
Gate == {"gateway"}
MCStart == {
  \* two processes, two readers, pooled connections used again
  From({"ana", "bo"}, Gate, "p", TRUE, TRUE, Budgets(3, 0, 0, 0, 1, 0)),
  \* a token that waits
  From({"ana", Own}, Gate, "p", TRUE, TRUE, Budgets(2, 0, 0, 0, 0, 2)),
  \* Virtual Graph deployed again under processes that have asked
  From({"ana"}, Gate, "p", TRUE, TRUE, Budgets(3, 0, 0, 1, 0, 0)),
  From({"ana"}, Gate, "p", TRUE, FALSE, Budgets(3, 0, 0, 2, 0, 0)),
  \* a composite's queries beside the gateway's
  From({"ana"}, Routes, "p", TRUE, TRUE, Budgets(2, 0, 0, 1, 0, 0)),
  \* the key's making, raced and cut short
  From({Own}, Gate, Absent, TRUE, TRUE, Budgets(3, 1, 0, 1, 0, 0)),
  \* the lists' making, raced and cut short, while the warehouse's grants change
  From({"ana"}, Gate, "p", FALSE, FALSE, Budgets(2, 1, 1, 0, 0, 2))}
=============================================================================
