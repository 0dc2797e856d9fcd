SPECIFICATION Spec
CONSTANTS
  o1 = o1 o2 = o2 o3 = o3
  Wide = {"w"}
  Docs = {"c", "n"}
  Chapters = {"c"}
  Bodies <- MCBodies
  Drafts <- MCDrafts
  Selections <- MCSelections
  Payloads <- MCPayloads
  Runs = {"r1"}
  Ops = {o1, o2, o3}
  Suggestions = {1, 2}
  Namespaces = {1, 2}
  VersionLimit = 2
  PreparedLimit = 2
  PolicyLimit = 1
SYMMETRY Symmetric
CHECK_DEADLOCK FALSE
INVARIANTS
  StorageValidates AppliedInsideGrant
PROPERTY
  AppliedToSeenStory
