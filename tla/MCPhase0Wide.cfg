SPECIFICATION PSpec
CONSTANTS
  c1 = c1  c2 = c2  w1 = w1  w2 = w2  w3 = w3  w4 = w4  x = x
  s1 = s1  s2 = s2  g1 = g1
  None = None
  Callers = {c1, c2}
  Workers = {w1, w2, w3, w4}
  Others = {x}
  Prepared = {3}
  Columns = 2
  Threads <- MCThreads
  Keys <- MCKeys
  BadDims = {}
  Kappas = {1}
  Seeds = {s1, s2}
  Sampled = {g1}
  GoalOf <- MCGoalOf
SYMMETRY WorkerSymmetry
INVARIANTS PTypeOK NoStageUnderOwnGuard BuildsNeverStuck
CHECK_DEADLOCK FALSE
