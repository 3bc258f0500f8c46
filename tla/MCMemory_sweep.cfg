SPECIFICATION FairSpec
CONSTANTS
  c1 = c1 t1 = t1 t2 = t2 m1 = m1 m2 = m2 of = of at = at ana = ana ben = ben
  Node = {c1, t1, t2}
  Labels <- MCLabels
  Label <- MCLabel
  Rel = {of}
  Start <- MCStart
  End <- MCEnd
  Used = {of}
  Null = Null
  Day <- MCDay
  Since <- MCStands
  Cap = 1
  Reader = {ana}
  Grants <- MCVaried
  Policied = {}
  Frozen = {"Customer"}
  Hold <- MCHold1
  UnknownHold = 1
  Retain = 1
  Tables <- MCTables
  Command = {p1, p2}
  AtOnce = 1
  MaxTime = 3
  MaxChanges = 1
CHECK_DEADLOCK FALSE
PROPERTIES SweptEventually
