SPECIFICATION MCSpec
CONSTANTS
  h1 = h1
  h2 = h2
  r1 = r1
  r2 = r2
  Handlers = {h1, h2}
  Lifecycle = Lifecycle
  Questions = {q1}
  Contents = {c1}
  Requests = {r1}
  NULL = NULL
  ResumePolicy = "INSTRUCTOR_APPROVAL"
  ConnectionLossPolicy = "MARK_REVIEW"
  ResumeApprovalRequired = FALSE
  Duration = 1
  Grants = {1}
  MaxClock = 3
  MaxGranted = 1
  Workload <- Reopenings
INVARIANTS ClosedHasSubmission NeverFiledEarly
PROPERTIES SubmissionIsFinal ExpiredIsClosed LossEndsFiled
CHECK_DEADLOCK FALSE
