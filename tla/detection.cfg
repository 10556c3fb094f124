CONSTANTS
  Nodes = {n1, n2, n3, n4}
  Faulty = {n4}
  Coordinators = {c1, c2}
  Values = {1, 2}
  Focus = {"OracleQuorum", "ZkThreshold", "OracleContract", "LimbArithmetic", "CurvePoints",
           "ExtensionField", "TwistPoints", "TarjanScc", "RingDetection", "GraphSharding",
           "TimedCycles", "PathCycles", "SandwichDetection", "AmmSessions", "BenfordEngine",
           "TemporalPatterns", "DriftDetectors", "CausalExplanation", "CausalSelection",
           "Inference", "Conformal"}
SPECIFICATION SuiteSpec
    
PROPERTY PassesAgree
CHECK_DEADLOCK FALSE
