SPECIFICATION Spec
CONSTANTS
  c1 = c1 t1 = t1 t2 = t2 m1 = m1 m2 = m2 of = of at = at ana = ana ben = ben
  Node = {t1, t2, m1}
  Labels <- MCLabels
  Label <- MCLabel
  Rel = {at}
  Start <- MCStart
  End <- MCEnd
  Used = {at}
  Null = Null
  Day <- MCDay
  Since <- MCStands
  Cap = 2
  Reader = {ana}
  Grants <- MCOpen
  Policied = {}
  Frozen = {}
  Hold <- MCHold4
  UnknownHold = 4
  Retain = 1
  Tables <- MCTables
  Command = {p1, p2}
  AtOnce = 1
  MaxTime = 3
  MaxChanges = 0
CHECK_DEADLOCK FALSE
INVARIANTS ContextWhole
