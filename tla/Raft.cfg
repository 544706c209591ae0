SPECIFICATION RaftSpec

CONSTANTS
  s1 = s1
  s2 = s2
  s3 = s3
  Server = {s1, s2, s3}
  Stored = {s1}
  Command = {c1}
  Recovery = recovery
  Nobody = nobody
  DrainedRestarts = TRUE
  MaxTerm = 2
  MaxLog = 2
  MaxRPCs = 7
  MaxRecords = 3
  MaxRestarts = 1

SYMMETRY ServerSymmetry
INVARIANTS VotesOncePerTerm OneLeaderPerTerm LogsMatch
CHECK_DEADLOCK FALSE
