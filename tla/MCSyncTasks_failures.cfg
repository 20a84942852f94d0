CONSTANTS
  a = a
  b = b
  None = None
  Events = {a, b}
  MaxTasks = 12
  Retained = 1
  Merges <- Both
  Scenes <- Failures
SPECIFICATION Spec
INVARIANTS
    ReceiptIsEarned
    FailureIsProven
    OneApplyAtATime
    StartsOnce
    ReportsFindTheirTask
    StatusesAgree
    NoWorkLeftBehind
    WaitsForSomebody
CHECK_DEADLOCK FALSE
