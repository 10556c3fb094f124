CONSTANTS
  Rows = {1, 3}
  Subscribers = {"a", "b"}
  Owner <- MCOwner
  Losable = {}
  MaxAttempts = 2
  Limit = 1
  MaxConcurrent = 2
  MaxCrashes = 1
  Focus = {"WebhookDelivery"}
SPECIFICATION SuiteSpec
PROPERTY AlertsSettle
CHECK_DEADLOCK FALSE
