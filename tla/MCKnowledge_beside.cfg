SPECIFICATION Spec
CONSTANTS
  Thing = {customer, household}
  Row = {customer}
  Owner = {marketing, ana}
  Predicate = {channel}
  Learning = {l1, l2, l3}
  Deciding = {d1}
  None = None
  Serial = {marketing}
  MaxNodes = 2
SYMMETRY Symmetry
CHECK_DEADLOCK FALSE
INVARIANTS TypeOK OneSettled Forwards
PROPERTIES PastFixed ImplementsRegister
