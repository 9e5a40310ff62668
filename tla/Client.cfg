SPECIFICATION MCSpec
CONSTANTS
  c1 = c1
  c2 = c2
  h1 = h1
  h2 = h2
  q1 = q1
  q2 = q2
  option = option
  Empty = Empty
  Questions = {q1, q2}
  First = q1
  Options = {option}
  Cases <- MCCases
  MaxSaves = 2
  MaxPosts = 2
  MaxGrants = 1
  NULL = NULL
  Calls = {c1, c2}
  Handlers = {h1, h2}
  MaxTokens = 4
  Faults = {"lose", "reload", "revoke", "suspend", "idle"}
INVARIANTS SignedOutForAReason OneSessionPerPage ConfirmedIsGraded
PROPERTIES CallsSettle OverIsShown
CHECK_DEADLOCK FALSE
