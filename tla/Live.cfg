SPECIFICATION MCSpec
CONSTANTS
  i1 = i1
  i2 = i2
  r1 = r1
  standard = standard
  w1 = w1
  first = first
  second = second
  third = third
  watcher = watcher
  proctor = proctor
  v1 = v1
  v2 = v2
  k1 = k1
  u1 = u1
  e1 = e1
  e2 = e2
  x1 = x1
  x2 = x2
  SENT = SENT
  NULL = NULL
  Issuers = {i1, i2}
  Admins = {}
  Results = {r1}
  Templates = {standard}
  Standard = standard
  Texts = {w1}
  Plain = w1
  BatchSize = 1
  MaxRevoked = 2
  MaxVersion = 1
  Workload = {"issue", "generate", "revoke", "reissue", "publish", "grade", "fail", "file"}
  Sockets = {first, second, third, watcher}
  Owner <- MCOwner
  Student = student
  MaxPerUser = 2
  MaxTotal = 2
  MaxPending = 2
  Handlers = {v1, v2}
  Workers = {k1}
  Savers = {u1}
  Weight <- MCWeight
  Claims <- MCClaims
  Cap = 100
  MaxEvents = 2
  Faults = {"fail", "cache"}
  Exams = {e1, e2}
  Sessions = {x1, x2}
  ExamOf <- MCExamOf
  MaxChanges = 2
  MaxTurns = 1
INVARIANTS EarnedOrJustified NoLockout ScoreCountsEveryEvent
PROPERTIES ReplacedByReissue GenerationEnds PresentIsShown ViewCatchesUp
CHECK_DEADLOCK FALSE
