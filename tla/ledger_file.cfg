SPECIFICATION FileSpec
CONSTANTS
  Processes = {api, worker, next}
  NoProcess = none
  MaxRecords = 3
  MaxFailures = 2
  WriteFaults = {"torn", "unterminated"}
INVARIANTS
  OneWriter
PROPERTIES
  AppendsAreSerial
  DamageIsFrozen
  StampedLocksGo
