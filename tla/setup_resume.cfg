SPECIFICATION Spec
CONSTANTS
  Missions = {m1, m2}
  Earlier = earlier
  Workers = {w1, w2}
  NoWorker = NoWorker
  MaxTime = 4
  MaxFaults = 1
INVARIANTS
  InterruptedObservationIsReused
CHECK_DEADLOCK FALSE
