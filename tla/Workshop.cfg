SPECIFICATION Spec
CONSTANTS
  o1 = o1 o2 = o2 o3 = o3
  Material = {"c1", "c2"}
  Existing = {"c1"}
  Sessions = {"s1", "s2"}
  Parent <- MCParent
  Bodies <- MCBodies
  Fixed <- MCFixed
  Outputs <- MCOutputs
  Adoptions <- MCAdoptions
  Rels = {"r1"}
  Starts = {"a1"}
  Ops = {o1, o2, o3}
  Previews = {"v1"}
  Namespaces = {1, 2}
  VersionLimit = 2
  ChangeLimit = 2
SYMMETRY Symmetric
CHECK_DEADLOCK FALSE
INVARIANTS
  WorkshopValidates StateStaysSaveable StartAnswered ShownFreshIsUsable
PROPERTY
  AdoptsWhatWasPreviewed
