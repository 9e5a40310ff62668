SPECIFICATION MCSpec
CONSTANTS
  s1 = s1
  s2 = s2
  h1 = h1
  h2 = h2
  root = root
  u1 = u1
  w1 = w1
  w2 = w2
  q1 = q1
  q2 = q2
  a = a
  b = b
  exact = exact
  longer = longer
  other = other
  e1 = e1
  e2 = e2
  p1 = p1
  p2 = p2
  i1 = i1
  a1 = a1
  standard = standard
  own = own
  Blank = Blank
  NULL = NULL
  Servers = {s1, s2}
  Handlers = {h1, h2}
  Root = root
  Catalogue <- MCCatalogue
  Defaults <- MCDefaults
  Asks <- MCAsks
  Faults = {"crash", "record", "mark"}
  Writers = {e1, e2}
  Wordings = {w1, w2}
  MaxDocVersion = 3
  Editors = {e1}
  Questions = {q1, q2}
  Unit = 2
  Totals = {6, 7}
  Passes = {2, 7}
  MaxBatch = 2
  Paper <- MCPaper
  Options = {a, b}
  Typed = {exact, longer, other}
  Contains <- MCContains
  TotalMarks = 10
  PassingMarks = 6
  Rates = {0, 25, 100}
  Candidates = {p1, p2}
  Exams = {e1, e2}
  Marked <- MCMarked
  PassMark = 5000
  MaxRows = 3
  MaxTime = 1
  Issuers = {i1}
  Admins = {a1}
  Results = {p1, p2}
  Templates = {standard, own}
  Standard = standard
  Texts = {w1, w2}
  Plain = w1
  BatchSize = 1
  MaxRevoked = 0
  MaxVersion = 2
  Workload = {"generate", "publish", "edit", "default", "archive", "file"}
  Desks = {h1}
  Instructors = {e1, e2}
  Admin = root
  Students = {p1}
  Classes = {q1}
  Inviting <- MCInviting
  Sharing <- MCSharing
INVARIANTS OneSuperAdmin FloorIsInstalled LogIsGapless PaperAddsUp MarksFollowAnswers ViewsAgree VersionsMeanOneText AdmittedOnlyIfListed
PROPERTY RecordsKeepTheirOwner
CHECK_DEADLOCK FALSE
