SPECIFICATION Spec
CONSTANTS
  Chapters <- MCChapters
  FirstChapters = 1
  Note = "n"
  FirstBody = "long"
  Bodies = {"short", "long"}
  Words <- MCWords
  Reviews <- MCReviews
  Namespaces = {1, 2}
  VersionLimit = 2
  WorkLimit = 3
  AsideLimit = 2
  Freezes <- MCFreezes
  Discussions <- MCDiscussions
  GuidanceIds = {"g1"}
  GuidanceSaves <- MCGuidanceSaves
  PinSaves <- MCPinSaves
CHECK_DEADLOCK FALSE
INVARIANTS
  StoryValidates ReadyIsGrounded WritingSeesItsOwn
PROPERTY
  AuthorityIsEarned
