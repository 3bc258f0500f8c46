SPECIFICATION Spec
CONSTANTS
  Process = {"p", "q"}
  Connection = {"c", "d"}
  Reader <- MCReader
  Own = Own
  Mark = Mark
  Statement <- MCStatement
  AllowSeconds = 1
  TokenSeconds = 1
  Start <- MCStart
  Nil = Nil
  Absent = Absent
  Empty = Empty
CHECK_DEADLOCK FALSE
INVARIANTS TypeOK RunsAsItsReader ValuesKept Honoured ListsAge
