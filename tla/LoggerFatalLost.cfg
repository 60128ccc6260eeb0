SPECIFICATION Spec
CONSTANTS
  Thread = {main}
  NUM_LINES_LOGGED = 2
  MaxChanges = 1
CHECK_DEADLOCK FALSE
INVARIANTS
  FatalShown
