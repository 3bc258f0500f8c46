SPECIFICATION Spec
CONSTANTS
  Conversation = {c1, c2}
  Reader = {ana}
  Question = {q}
  Feedback = {f}
  Precedent = {}
  Cadence = {2}
  Ever = Ever
  None = None
  MemoryRoute = TRUE
  MaxTime = 2
  MaxTasks = 2
  MaxAsks = 3
  MaxSaid = 1
SYMMETRY Symmetry
CHECK_DEADLOCK FALSE
INVARIANTS TypeOK GivenWithin
PROPERTIES RejectedSilenced
