SPECIFICATION WorkspaceSpec
CONSTANTS
  cut = cut
  broken = broken
  Renderer = {worker}
  Draft = {d1, d2}
  Original = d1
  Busy = {d1}
  Content <- Documents
  Valid <- Passing
  Agent = {agent}
  User = {user}
  MaxVersion = 3
  MaxJobs = 2
  MaxMishaps = 1
  Proc = {p1, p2}
  Hash = {h1, h2}
  MaxStoreMishaps = 2
  m1 = m1
  m2 = m2
  m3 = m3
  Msg = {m1, m2, m3}
  MaxFaults = 4
  Key = {1, 2}
  Limit = 1
  Entries = 2
  MaxTime = 4
  MaxPosts = 3
  MaxQuestions = 1
  ItemLimit = 2
  MaxMessages = 5
  MaxClears = 1
  Assets = 2
  Messages <- AllMessages
  Turn = {turnA, turnB}
  turnA = turnA
  turnB = turnB
INVARIANTS
  ObjectsKept
  ToldOnce
  LocksSound
PROPERTIES
  DeliveriesSound
  RecoveredExactly
  MemoriesSound
CHECK_DEADLOCK FALSE
