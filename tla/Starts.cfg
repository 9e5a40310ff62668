SPECIFICATION StartsSpec
CONSTANTS
  h1 = h1
  h2 = h2
  r1 = r1
  r2 = r2
  s1 = s1
  s2 = s2
  a1 = a1
  a2 = a2
  q1 = q1
  c1 = c1
  Handlers = {h1, h2}
  Tabs = {h1, h2}
  Requests = {}
  RetakePolicy = "AUTO"
  AttemptsAllowed = 2
  MaxAttempts = 3
  MaxReopened = 1
  Tab = h1
  TabRequests = {r1, r2}
  TabPolicy = "INSTRUCTOR_APPROVAL"
  TabAttempts = 1
  TabWorkload = {"pause", "permit", "revoke", "request", "decide", "abort"}
  Workload = {"pause", "permit", "exam", "abort"}
  ResumeHandlers = {s1, s2}
  Lifecycle = Lifecycle
  ResumeRequests = {a1, a2}
  NULL = NULL
  Questions = {q1}
  Contents = {c1}
  ResumePolicy = "INSTRUCTOR_APPROVAL"
  ConnectionLossPolicy = "MARK_REVIEW"
  ResumeApprovalRequired = FALSE
  Duration = 1
  Grants = {1}
  MaxClock = 2
  MaxGranted = 0
  ResumeWorkload <- Interruptions
SYMMETRY Symmetry
INVARIANTS NumbersAreGapless AllowanceHolds OneTabOneRunning OneTabRetakesAllowed InterruptedAwaitsApproval
CHECK_DEADLOCK FALSE
