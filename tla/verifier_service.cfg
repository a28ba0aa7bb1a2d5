SPECIFICATION ServiceSpec
CONSTANTS
  job = job
  h1 = h1
  h2 = h2
  p1 = p1
  p2 = p2
  Me = me
  Verifiers = {me}
  InitialVerifiers = {me}
  InitialThreshold = 1
  Jobs = {job}
  DataIds = {d1, d2}
  PatchIds = {p1, p2}
  Hashes = {h1, h2}
  Events <- SmallEvents
  Settings <- SmallSettings
  NotifyCap = 2
  ChannelCap = 1
  NoOne = NoOne
  Unreadable = Unreadable
  MaxLives = 2
INVARIANTS TypeOK PassedUntampered HonestNotRefused JudgedAgainForCause
PROPERTIES LaggedStops
CHECK_DEADLOCK FALSE
