SPECIFICATION FairSpec
CONSTANTS
  Workers = {w1}
  Callers = {c1, c2}
  MaxRounds = 1
  MaxFaults = 1
  NoWorker = NoWorker
  NoChild = NoChild
PROPERTIES
  StopIsAnswered
  StoppedWorkersExit
CHECK_DEADLOCK FALSE
