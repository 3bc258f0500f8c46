SPECIFICATION OutlookSpec
CONSTANTS
  Conversations <- MCConversations
  Script <- MCScript
  Readings <- MCReadings
  Groupings <- MCGroupings
  Near <- MCNear
  Types = {"fixed", "lost"}
  Endings <- MCEndings
  Levelled = {"action"}
  MinNodes = 1
  MaxLevels = 2
  Shrink = 85
  Budgets <- MCBudgets
  Nil = Nil
  Nearest = 1
  Level = 1
CHECK_DEADLOCK FALSE
INVARIANTS TypeOK Upward Conserved RollsUp Supported Odds
PROPERTIES FirstLevelStands
