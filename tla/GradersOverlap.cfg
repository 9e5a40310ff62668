SPECIFICATION Spec
CONSTANTS
  g1 = g1
  g2 = g2
  essay1 = essay1
  essay2 = essay2
  right = right
  wrong = wrong
  Staff = {g1, g2}
  Answers = {essay1, essay2, right, wrong}
  Manual = {essay1, essay2}
  Points <- MCPoints
  Machine <- MCMachine
  TotalMarks = 7
  Scores = {3}
  ShowResultImmediately = TRUE
  UnansweredEssay = FALSE
  NULL = NULL
INVARIANT LastMarkSettles
CHECK_DEADLOCK FALSE
