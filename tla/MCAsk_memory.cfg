SPECIFICATION Spec
CONSTANTS
  Visitors = {1, 2, 3}
  Slots = 2
  Tables <- MCTables
  Columns <- MCColumns
  Joins <- MCJoins
  Key <- MCKey
  Points <- MCPoints
  Partition <- MCPartition
  Since = 3
  Cap = 1
  MemoryHops = 2
  Hops = 2
  Nil = Nil
  Starts <- MCPlain
  Worlds <- MCLoaded
  Replies <- MCReplies
  Absent = Absent
  Empty = Empty
  Broken = Broken
  q1 = q1
  q2 = q2
CHECK_DEADLOCK FALSE
INVARIANTS MemoryExact
