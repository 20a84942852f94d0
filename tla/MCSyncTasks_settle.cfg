CONSTANTS
  a = a
  b = b
  None = None
  Events = {a, b}
  MaxTasks = 12
  Retained = 1
  Merges <- Plain
  Scenes <- Sessions
SPECIFICATION FairSpec
PROPERTIES
    Settles
CHECK_DEADLOCK FALSE
