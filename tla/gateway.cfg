SPECIFICATION Spec
CONSTANTS
  p1 = p1
  r1 = r1
  a1 = a1
  a2 = a2
  b1 = b1
  pa = pa
  pb = pb
  Callers = {p1, p2}
  Requests = {r1, r2}
  Shares <- ServerOrWorkers
  Stage <- EitherStage
  Routes = {a1, a2, b1}
  ProviderOf <- Serves
  Offers = {{}, {a1}, {a1, a2, b1}}
  Rankings <- SameFirst
  MaxAttempts = 2
  Failures = {"unavailable", "invalid", "semantic"}
  MaxPrior = 1
  MaxFaults = 1
  NoRequest = noRequest
  NoRoute = noRoute
  NoOutcome = noOutcome
INVARIANTS
  CallsAreAccounted
  OutcomeIsBacked
  SuccessWasAnswered
  FailureIsEarned
CHECK_DEADLOCK FALSE
