SPECIFICATION Spec
CONSTANTS
  h1 = h1
  h2 = h2
  r1 = r1
  r2 = r2
  Handlers = {h1}
  Lifecycle = Lifecycle
  Questions = {q1}
  Contents = {c1}
  Requests = {r1}
  NULL = NULL
  ResumePolicy = "INSTRUCTOR_APPROVAL"
  ConnectionLossPolicy = "MANUAL_RESUME"
  ResumeApprovalRequired = FALSE
  Duration = 1
  Grants = {1}
  MaxClock = 2
  MaxGranted = 0
  Workload = {"submit", "violation", "pause", "request", "decide"}
PROPERTIES TerminalStaysTerminal
CHECK_DEADLOCK FALSE
