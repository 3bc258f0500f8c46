SPECIFICATION Spec
CONSTANTS
  c1 = c1 t1 = t1 t2 = t2 m1 = m1 m2 = m2 of = of at = at ana = ana ben = ben
  Node = {c1, t1}
  Labels <- MCLabels
  Label <- MCLabel
  Rel = {of}
  Start <- MCStart
  End <- MCEnd
  Used = {of}
  Null = Null
  Day <- MCDay
  Since <- MCStands
  Cap = 1
  Reader = {ana, ben}
  Grants <- MCNoTable
  Policied = {"Txn"}
  Frozen = {}
  Hold <- MCHold1
  UnknownHold = 1
  Retain = 1
  Tables <- MCTables
  Command = {p1, p2, p3}
  AtOnce = 2
  MaxTime = 2
  MaxChanges = 1
SYMMETRY Symmetry
CHECK_DEADLOCK FALSE
INVARIANTS TypeOK RelationshipsFollow RevocationBounded FactsHold ContextRest
