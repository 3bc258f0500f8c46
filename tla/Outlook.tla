------------------------------ MODULE Outlook -------------------------------
(***************************************************************************)
(* The outlook (src/qlsc/process/outlook.py): where a live case stands and *)
(* how the cases from there went.  An agent's call of its own, with four   *)
(* reads of the process database (the vector index, the States, their      *)
(* transitions, the base rate) while the stages write beside it.           *)
(***************************************************************************)
EXTENDS Process

CONSTANTS
  Nearest, \* outlook.states: how many States a case may be located in
  Level    \* outlook.level: the level whose Actions are offered

ASSUME OutlookAssumption == Nearest \in Nat \ {0} /\ Level \in Nat \ {0}

VARIABLE look \* the outlook being made, or the last one made

outlookVars == <<vars, look>>

NoLook == [step |-> "none", near |-> {}, states |-> Nothing, nexts |-> Nothing,
           base |-> Nil, sound |-> FALSE]
OutlookInit == Init /\ look = NoLook

AllStates == {e \in DOMAIN nodes : e[1] = "state"}
\* History: whether the observations were the graph's own at every read.
Sound == look.sound /\ "build" \in done

\* The index holds every level's States.
Locate ==
  /\ look.step \in {"none", "answered", "refused", "broken"} /\ left["outlook"] > 0
  /\ \E near \in SUBSET AllStates :
       /\ Cardinality(near) = IF Cardinality(AllStates) < Nearest THEN Cardinality(AllStates)
                              ELSE Nearest
       /\ look' = [NoLook EXCEPT !.step = "states", !.near = near, !.sound = "build" \in done]
  /\ left' = [left EXCEPT !["outlook"] = @ - 1]
  /\ UNCHANGED <<annotations, observations, outcomes, types, nodes, rels, part, job, done>>

\* A State of no counts: "run qlsc process absorb".
ReadStates ==
  /\ look.step = "states"
  /\ LET found == look.near \cap DOMAIN nodes
     IN  look' = IF \A e \in found : nodes[e].stats # Nil
                 THEN [look EXCEPT !.step = "nexts", !.sound = Sound,
                                   !.states = [e \in found |-> nodes[e].stats]]
                 ELSE [look EXCEPT !.step = "refused"]
  /\ UNCHANGED vars

\* Each transition with what is held of the Action it leads to.
ReadNexts ==
  /\ look.step = "nexts"
  /\ LET out == {r \in DOMAIN rels : r[1] = Level /\ r[2] \in look.near}
     IN  look' = [look EXCEPT !.step = "base", !.sound = Sound,
                    !.nexts = [r \in out |-> [num |-> rels[r].num, good |-> rels[r].good,
                                              action |-> nodes[r[3]].stats]]]
  /\ UNCHANGED vars

\* The base rate, and the pooling: a count that is null, or a base over no
\* conversation, is no number to pool.
ReadBase ==
  /\ look.step = "base"
  /\ LET held == {e \in AllStates : nodes[e].stats # Nil}
         n == Sum([e \in held |-> nodes[e].stats.n], held)
         good == Sum([e \in held |-> nodes[e].stats.good], held)
         whole == n > 0 /\ \A r \in DOMAIN look.nexts :
                             look.nexts[r].good # Nil /\ look.nexts[r].action # Nil
     IN  look' = IF whole THEN [look EXCEPT !.step = "answered", !.sound = Sound,
                                            !.base = [n |-> n, good |-> good]]
                 ELSE [look EXCEPT !.step = "broken"]
  /\ UNCHANGED vars

Ask == Locate \/ ReadStates \/ ReadNexts \/ ReadBase
OutlookNext == Ask \/ (Next /\ UNCHANGED look)
OutlookSpec == OutlookInit /\ [][OutlookNext]_outlookVars

\* An outlook that answers pools counts that are odds, however a stage ran
\* beside it: of a State's conversations no more ended well, or in the kinds
\* it lists, than went through it; and where the graph is a whole build's, of
\* a transition's no more ended well than took it.
Odds ==
  look.step = "answered" =>
    /\ \A e \in DOMAIN look.states :
         look.states[e].good <= look.states[e].n /\ Sum(look.states[e].kinds, Types) = look.states[e].n
    /\ look.base.good <= look.base.n
    /\ look.sound => \A r \in DOMAIN look.nexts :
         look.nexts[r].good <= look.nexts[r].num /\ look.nexts[r].action.n > 0
=============================================================================
