CONSTANTS
  Proposals = {"p"}
  Kinds = {"config_change", "model_promotion", "add", "remove"}
  Subject = "c"
  Members = {"a", "b", "c"}
  Founders = {"a", "b"}
  Cron = "cron"
  Closers = {"cron", "operator"}
  Focus = {"Governance", "AdminActions", "RuntimeConfig", "RuntimeWeights", "EnsembleWeights",
           "ModelRegistry", "Retraining", "CanaryRollout", "LstmTraining", "TrainingSplit",
           "DriftMonitor", "FederatedRounds", "FlSession", "RobustAggregation",
           "SecureAggregation"}
SPECIFICATION SuiteSpec
INVARIANTS ExecutedWasApproved LiveWasApproved  ModelsAreGated 
PROPERTIES ExpiredIsClosed
CHECK_DEADLOCK FALSE
