SPECIFICATION SuiteSpec
CONSTANTS
  Callers = {c1, c2, c3}
  FailureThreshold = 2
  RecoveryTimeout = 2
  Sockets = {"s1", "s2"}
  Requests = {"r1", "r2"}
  ServerMaxConnections = 1
  MaxKeys = 2
  Clients = {"c1", "c2"}
  SseMaxConnections = 1
  MaxEvents = 1
  MaxUnstarted = 2
  MaxBatch = 4
  BufferSize = 2
  MaxRequests = 6
  Subs = {"s1", "s2"}
  Wallets = {"w1", "w2"}
  MaxSockets = 5
  MaxAttempts = 2
  Focus = {"CircuitBreaker", "HorizonClient", "HorizonGuard", "StreamPacing",
           "EvmProviderPool", "RpcBreaker", "RateLimiter", "ApiServer",
           "SseStream", "GrpcStream", "AlertStreamClient"}
INVARIANTS
  BookkeepingAgrees
  CallsAreLimited
  StreamsAreServed
PROPERTIES
  OpenIsLeft
  
CHECK_DEADLOCK FALSE
