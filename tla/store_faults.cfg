SPECIFICATION Spec
CONSTANTS
  Contents = {t1, t2}
  Remains = Remains
  NoTree = NoTree
  NoRecord = NoRecord
  TornRecord = TornRecord
  Checkpoints = {c1, c2}
  NoCheckpoint = NoCheckpoint
  Times = {now, later}
  FirstContent = t1
  Faults = {"crash", "torn", "rename", "remove", "append"}
  MaxFaults = 2
  MaxEdits = 2
INVARIANTS
  RecordedCheckpointsAreStored
  TreeMatchesLedger
PROPERTIES
  WorkIsOnlyDiscardedByAFact
  FactsTellWhatIsThere
CHECK_DEADLOCK FALSE
