SPECIFICATION Spec
CONSTANTS
  s1 = s1 s2 = s2
  b1 = b1 b2 = b2
  o1 = o1 o2 = o2 o3 = o3
  Docs = {"d1"}
  Bodies = {b1, b2}
  Ops = {o1, o2, o3}
  Sessions = {s1}
  Titles = {"t1", "t2"}
  Generations = {1}
  VersionLimit = 2
  MetaLimit = 1
  LeaseLimit = 2
SYMMETRY Symmetric
INVARIANTS
  RowsTellHistory FencedAbsence OneWriter
