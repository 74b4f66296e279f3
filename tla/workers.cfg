SPECIFICATION Spec
CONSTANTS
  Workers = {w1, w2}
  Callers = {c1}
  MaxRounds = 2
  MaxFaults = 1
  NoWorker = NoWorker
  NoChild = NoChild
INVARIANTS
  TypeOK
  RunningWorkIsKnown
  IdleMissionCanStart
  StoppedPreviewsAreDead
PROPERTIES
  DeliveredPreviewIsLeft
CHECK_DEADLOCK FALSE
