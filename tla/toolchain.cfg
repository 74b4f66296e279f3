SPECIFICATION Spec
CONSTANTS
  Missions = {m1, m2}
  Earlier = earlier
  Workers = {w1, w2}
  NoWorker = NoWorker
  MaxTime = 3
  MaxFaults = 2
SYMMETRY Symmetry
INVARIANTS
  OnlyTheftDamages
  RecordsAreFacts
  ReadyIsSelected
  OnlyTheCrossedAreLeft
CHECK_DEADLOCK FALSE
