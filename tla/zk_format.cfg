CONSTANTS
  Nodes = {n1, n2, n3, n4}
  Faulty = {n4}
  Coordinators = {c1, c2}
  Values = {1, 2}
  Focus = {"ZkThreshold"}
SPECIFICATION SuiteSpec
INVARIANT HonestProofVerifies
CHECK_DEADLOCK FALSE
