CONSTANTS
  Regions = {east, west, south}
  Renewers = {}
  Former = north
  Duration = 2
  RenewLead = 1
  MaxAttempts = 2
  MaxVersion = 3
  GatewayWorkers = {"w1", "w2"}
  GatewayMaxKeys = 2
  DailyQuota = 1
  NamespaceQuota = 1
  MonthlyQuota = 1
  NamespaceMonthlyQuota = 0
  GatewayGrace = 0
  LastDay = 1
  MaxRequests = 3
  Families = {"f1", "f2"}
  Clients = {"c1", "c2"}
  MaxJti = 3
  RefreshTTL = 2
  AccessTTL = 1
  TokenMaxTime = 2
  Namespaces = {"a", "b"}
  NamespaceWorkers = {"w1", "w2"}
  NamespaceMaxKeys = 2
  NamespaceGrace = 0
  NamespaceMaxTime = 1
  Focus = {"SubmissionLease", "AuditLog", "ScoringEvents", "LineageLog", "ParquetExport",
           "SchemaMigration", "PostgresMigration", "TieredRetention", "ResultStore",
           "FeatureStore", "FeatureArchive", "ApiGateway", "AccessTokens", "NamespaceKeys"}
SPECIFICATION SuiteSpec
INVARIANTS OnePublisher RecordsAreFaithful  AccessIsBounded
PROPERTIES ExpiredIsTakenOver MigrationIsExact
CHECK_DEADLOCK FALSE
