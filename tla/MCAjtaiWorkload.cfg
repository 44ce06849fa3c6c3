SPECIFICATION WLSpec
CONSTANTS
  t1 = t1  t2 = t2  t3 = t3
  k1 = k1  k2 = k2
  s1 = s1  s2 = s2  g1 = g1
  None = None
  MaxCalls = 5
  Threads = {t1, t2, t3}
  Keys = {k1}
  BadDims = {}
  Kappas = {1}
  Seeds = {s1}
  Sampled = {g1}
PROPERTY CallsReturn
CHECK_DEADLOCK FALSE
