SPECIFICATION CSpec
CONSTANTS
  t1 = t1  t2 = t2  t3 = t3
  k1 = k1  k2 = k2
  s1 = s1  s2 = s2  g1 = g1
  None = None
  Threads = {t1, t2}
  Keys = {k1}
  BadDims = {}
  Kappas = {1, 2}
  Seeds = {s1, s2}
  Sampled = {g1}
SYMMETRY ThreadSymmetry
INVARIANTS CTypeOK CommitterSound
PROPERTY RefusedOnlyOnConflict
