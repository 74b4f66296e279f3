SPECIFICATION MCSpec
CONSTANTS
  Callers = {p1, p2}
  First = p1
  Actions = {"file", "bundle", "command"}
  Stamps = {s1, s2, s3, s4, s5, s6, s7, s8}
  NoStamp = NoStamp
  NoRecord = NoRecord
  Torn = Torn
  CrashPlaces = {"pre", "preEvidence", "preFact", "check", "start", "act", "running",
                 "recovery", "result", "command", "observed",
                 "post", "postEvidence", "postFact", "complete"}
  TornWrites = TRUE
  MaxFaults = 3
  RaceFaults = 1
INVARIANTS
  CommandRunsOnce
  LoneSuccessIsReal
  OutcomeIsBacked
PROPERTIES
  LoneInterruptionsAreSurvived
CHECK_DEADLOCK FALSE
