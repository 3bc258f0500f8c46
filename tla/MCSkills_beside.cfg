SPECIFICATION Spec
CONSTANTS
  Work = {meeting}
  Path <- MCPath
  WorkOf <- MCWorkOf
  Task = {t1, t2}
  Run = {r1, r2}
  Approver = {a1}
  None = None
  MinSupport = 1
  MinSuccess = 50
  RetireBelow = 60
SYMMETRY Symmetry
CHECK_DEADLOCK FALSE
INVARIANTS TypeOK OneOfEach Justified Rests
PROPERTIES ImplementsLife
