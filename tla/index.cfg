SPECIFICATION FairSpec
CONSTANTS
  p1 = p1
  p2 = p2
  t1 = t1
  t2 = t2
  m1 = m1
  m2 = m2
  AllPaths = {p1, p2}
  Texts = {t1, t2}
  Binary = Binary
  None = None
  Models = {m1, m2}
  Setups <- MCSetups
INVARIANT VectorsAreTrue
PROPERTIES Searchable VectorsCatchUp
CHECK_DEADLOCK FALSE
