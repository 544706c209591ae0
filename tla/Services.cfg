SPECIFICATION MCSpec

CONSTANTS
  Caller = {c1, c2, c3}
  FailureThreshold = 2
  HalfOpenMaxCalls = 2
  MaxFailures = 4

  BatchSize = 2
  MaxRetries = 2
  MaxEvents = 3

  Garbled = garbled
  MaxLogged = 4
  MaxTorn = 2

  Valid = {v1, v2}
  Invalid = {v3}
  Default = builtin
  Unparsable = unparsable
  Missing = missing
  NoPolicy = nopolicy
  MaxEdits = 2
  MaxVersions = 3

  Bits = 3
  K = 2
  local_id = 0
  Contact <- MCContact
  Verified <- MCVerified
  NoPing = noping

  Host = {n1, n2}
  Connection = {k1, k2}
  None = none
  MaxStops = 1

  Trader = {a1, a2}
  Job = {j1}
  Pool = pool
  MaxPrice = 2
  MaxMinted = 4

  Patience = 2
  MaxErrors = 3
  NotHot = nothot

  Member = {p1, p2}
  MaxMessages = 2
  FeedLimit = 1
  MaxCrashes = 1
  MaxLapses = 1

INVARIANTS
  TrialLeft
  
  ReceivedInOrder
  ChainVerifies
  TearCostsOneEvent
  BucketsSound
  RevokedOnlyByRace
  
  PendingIsDialling
  
  

PROPERTIES
  ClosesAgain
  EventsLeave
  LastEditApplied
  EvictionEnds
  
  
  
  
CHECK_DEADLOCK FALSE
