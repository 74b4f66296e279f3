SPECIFICATION FairSpec
CONSTANTS
  Messages = {m1}
  Choices = {s1}
  Subtype = Subtype
  Workers = {w1, w2}
  RequireBlueprintApproval = FALSE
  MaxAsks = 2
  MaxPlans = 2
  MaxFaults = 1
INVARIANTS
  ChargesAreAsked
  ContractedOnOneDraft
PROPERTIES
  PlansHonourEveryAnswer
  RequestIsAnswered
CHECK_DEADLOCK FALSE
