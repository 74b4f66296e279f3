SPECIFICATION Spec
CONSTANTS
  Pipeline <- MCPipeline
  MaxTries = 3
  Policies <- BothRepairs
  MaxAspects = 1
  MaxFaults = 0
INVARIANT PreviewServesItsSource
CHECK_DEADLOCK FALSE
