SPECIFICATION Spec
CONSTANTS
  h1 = h1
  h2 = h2
  r1 = r1
  r2 = r2
  Handlers = {h1, h2}
  Lifecycle = Lifecycle
  Questions = {q1}
  Contents = {c1}
  Requests = {}
  NULL = NULL
  ResumePolicy = "INSTRUCTOR_APPROVAL"
  ConnectionLossPolicy = "MANUAL_RESUME"
  ResumeApprovalRequired = FALSE
  Duration = 1
  Grants = {1}
  MaxClock = 2
  MaxGranted = 1
  Workload = {"extend"}
INVARIANTS TotalMatchesJournal
CHECK_DEADLOCK FALSE
