CONSTANTS
  Rows = {1, 3}
  Subscribers = {"a", "b"}
  Owner <- MCOwner
  Losable = {"a"}
  MaxAttempts = 3
  Limit = 2
  MaxConcurrent = 1
  MaxCrashes = 1
  Focus = {"WebhookDelivery", "AlertEngine", "WebhookRetry", "AnalystCases", "SarExport",
           "FeedbackLoop", "WalletLists", "ScoreQueries", "SimilarWallets", "BatchJobs",
           "HealthReport"}
SPECIFICATION SuiteSpec
INVARIANTS DeliveredMeansReceived AlertsAreAccounted 
PROPERTIES ImplementsDurableJob AlertsSettle
CHECK_DEADLOCK FALSE
