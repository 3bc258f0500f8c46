SPECIFICATION Spec
CONSTANTS
  Conversation = {c1}
  Reader = {ana}
  Question = {q}
  Feedback = {f}
  Precedent = {p}
  Cadence = {2}
  Ever = Ever
  None = None
  MemoryRoute = FALSE
  MaxTime = 2
  MaxTasks = 1
  MaxAsks = 3
  MaxSaid = 1
SYMMETRY Symmetry
CHECK_DEADLOCK FALSE
INVARIANT PrecedentSilenced
