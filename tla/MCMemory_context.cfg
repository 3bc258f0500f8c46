SPECIFICATION Spec
CONSTANTS
  c1 = c1 t1 = t1 t2 = t2 m1 = m1 m2 = m2 of = of at = at ana = ana ben = ben
  Node = {t1, t2, m1}
  Labels <- MCLabels
  Label <- MCLabel
  Rel = {at}
  Start <- MCStart
  End <- MCEnd
  Used = {at}
  Null = Null
  Day <- MCDay
  Since <- MCSlides
  Cap = 1
  Reader = {ana, ben}
  Grants <- MCNoColumn
  Policied = {"Merchant"}
  Frozen = {}
  Hold <- MCHoldMixed
  UnknownHold = 1
  Retain = 0
  Tables <- MCTables
  Command = {p1, p2, p3}
  AtOnce = 2
  MaxTime = 2
  MaxChanges = 0
SYMMETRY Symmetry
VIEW View
CHECK_DEADLOCK FALSE
INVARIANTS ReadBack ContextRest
