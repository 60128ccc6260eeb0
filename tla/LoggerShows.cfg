SPECIFICATION FairSpec
CONSTANTS
  Thread = {main, tunnel}
  NUM_LINES_LOGGED = 2
  MaxChanges = 4
CHECK_DEADLOCK FALSE
INVARIANTS
  TypeOK
  StaleFlagged
PROPERTIES
  ScreenCatchesUp
  ExitEnds
