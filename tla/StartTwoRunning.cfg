SPECIFICATION Spec
CONSTANTS
  h1 = h1
  h2 = h2
  h3 = h3
  r1 = r1
  r2 = r2
  Handlers = {h1, h2}
  Tabs = {h1, h2}
  Requests = {}
  RetakePolicy = "INSTRUCTOR_APPROVAL"
  AttemptsAllowed = 2
  MaxAttempts = 2
  MaxReopened = 0
  Workload = {}
INVARIANTS OneRunning
CHECK_DEADLOCK FALSE
