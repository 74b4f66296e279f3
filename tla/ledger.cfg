SPECIFICATION MCSpec
CONSTANTS
  Clients = {api, worker}
  Checkpoints = {c1, c2, c3}
  NoCheckpoint = none
  Operations = {"create", "transition", "createContract", "amend", "verdict", "provision", "checkpoint", "admit", "finding", "restore", "verifyCheckpoint", "release", "delete"}
  MaxVersion = 2
  MaxRounds = 3
  MaxAdmissions = 2
  MissionCheckpoints = 2
SYMMETRY Symmetry
CHECK_DEADLOCK FALSE
INVARIANTS
  CompletionIsEarned
  RoundsAreAdmitted
  VerifiedLineage
PROPERTIES
  OutcomeIsFinal
  ImplementsMission
