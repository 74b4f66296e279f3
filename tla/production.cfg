SPECIFICATION FairSpec
CONSTANTS
  Pipeline <- MCPipeline
  MaxTries = 3
  Policies <- MCPolicies
  MaxAspects = 1
  MaxFaults = 1
INVARIANTS
  TypeOK
  DeliveryWasObserved
  RepairsAreBudgeted
PROPERTIES
  ExecutionEnds
CHECK_DEADLOCK FALSE
