SPECIFICATION MCSpec

CONSTANTS
  Account = {a1, a2, a3, a4}
  Proposer = {a1}
  Voter = {a1, a2}
  Delegator = {a1, a2, a3, a4}
  Title = {t1}
  Type = {"Emergency"}
  Stake = {1, 2}
  TotalStake = {1}
  Conviction = {0}
  Expiry = {0, 1, 2}
  MaxEpoch = 3
  MaxProposals = 2

  Data = {d1, d2}
  Empty = Empty
  Absent = Absent
  Torn = Torn
  MaxTick = 4

  Region = {1, 2, 3}
  Id = {i}
  Hash = {h1, h2}
  NoVersion = NoVersion
  Strategy = "lww"
  MaxRead = 1
  MaxWrites = 3

INVARIANTS
  
  DelegationsAcyclic
  SettledAgree

PROPERTIES
  FinalizedIsFinal
  AtomicAndDurable
  LosesAtMostOneCommit
  
CHECK_DEADLOCK FALSE
