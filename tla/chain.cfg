SPECIFICATION SuiteSpec
CONSTANTS
  Rows = {1, 2}
  Workers = {w1, w2, w3}
  Priority <- MCPriority
  MaxAttempts = 2
  LeaseSeconds = 2
  BackoffBase = 1
  BackoffCap = 4
  MaxTime = 5
  Scores = {s1, s2}
  Pipes = {t1, t2}
  Clis = {"cli"}
  Threshold = 2
  ResetSeconds = 1
  MaxRows = 1
  MaxCalls = 3
  Disputes = {"d1"}
  Voters = {w1, w2, w3}
  Requests = {"r1", "r2"}
  CommitteeQuorum = 3
  MaxBlock = 3
  Depth = 1
  ReorgCheck = 1
  BridgeLookback = 1
  MaxReorgs = 2
  MaxFaults = 1
  Guardians = 3
  Faulty = {2}
  Emitters = {"G1"}
  MaxSignatures = 3
  MaxSets = 2
  Evms = {"e1"}
  SameSuffix = {}
  Amounts = {995, 1000}
  Scorers = {"p1"}
  LinkLookback = 1
  TripWindow = 1
  MaxTransfers = 2
  MaxRetracts = 1
  LinkMaxTime = 2
  Focus = {"ChainSubmissionQueue", "SorobanPublisher", "DisputeResolution",
           "BridgeReorgs", "WormholeLink", "CrossChainLinks"}
SYMMETRY Interchangeable
INVARIANTS
  SingleFlight
  AttemptsCountFailures
  PublisherIsHonest
  DisputesAreJust
  BridgesAreTracked
PROPERTIES
  ImplementsDurableJob
CHECK_DEADLOCK FALSE
