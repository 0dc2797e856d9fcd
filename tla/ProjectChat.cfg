SPECIFICATION Spec
CONSTANTS
  p1 = p1 p2 = p2
  Notes = {"n"}
  Chapters = {"c"}
  Bodies = {a, b}
  Answers <- MCAnswers
  a = a b = b
  Runs = {"r1", "r2"}
  Ordinals = {1, 2}
  Previews = {p1}
  Namespaces = {1, 2}
  VersionLimit = 1
  ChangeLimit = 1
  ComposerLimit = 3
  AttachLimit = 1
SYMMETRY Symmetric
CHECK_DEADLOCK FALSE
INVARIANTS
   SubmittedOnce
PROPERTY
  AdoptsWhatWasReviewed
