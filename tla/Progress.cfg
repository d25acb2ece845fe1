SPECIFICATION AllSpec
CONSTANTS
  owner = owner
  ana = ana
  ben = ben
  b1 = b1
  camera = camera
  Sweeper = sweeper
  System = system
  Calls = {c1}
  None = none
  MaxFaults = 1
  Texts = {kind}
  Users = {u1, u2}
  Sockets = {s1, s2}
  MaxEpoch = 1
CHECK_DEADLOCK FALSE
INVARIANTS
  AllTypesOK
  EndedSessionsDoNothing
PROPERTIES
  SilenceEnds
  SuspendedSocketsClose
  EveryReviewIsPublished
