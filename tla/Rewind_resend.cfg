SPECIFICATION BoundedSpec
CONSTANTS
  Handler = {h1, h2}
  Key = {k1, k2}
  MaxMessages = 3
  MaxVersions = 3
  MaxDecisions = 1
  MaxRenders = 1
  MaxCalls = 2
  MaxCheckpoints = 3
SYMMETRY Symmetry
INVARIANTS DraftPoints ConversationNests
PROPERTIES RestoredExactly
CHECK_DEADLOCK FALSE
