---------------------------- MODULE ModelGateway ----------------------------
(***************************************************************************)
(* The calls of language models of one mission (createModelGateway of      *)
(* src/work-plane/model-gateway.js): a request is routed to a few models   *)
(* in turn, each attempt announced in the evidence store and in the Ledger *)
(* before the provider is called, and the outcome recorded in both.        *)
(*                                                                         *)
(* A request stands for its requestId, its idempotency key and everything  *)
(* its fingerprint compares: the callers derive all of them from one       *)
(* prefix, and a key that comes with something else is refused at once.    *)
(* A route stands for its modelId: no two providers offer the same.        *)
(* Several processes may make the same request, because a server that died *)
(* leaves its worker running.                                              *)
(***************************************************************************)
EXTENDS Integers, FiniteSets

CONSTANTS Callers,      \* processes with a gateway of their own
          Requests,
          Shares,       \* the ways the requests may be spread over the callers
          Stage,        \* Stage[r]: where in a mission r belongs
          Routes,
          ProviderOf,   \* ProviderOf[m]: who serves the model m
          Offers,       \* the sets of routes the Model Router may offer
          Rankings,     \* the orders it may give them; the least is best
          MaxAttempts,  \* maxProviderAttempts
          Failures,     \* the ways in which an attempt fails
          MaxPrior,     \* bound: attempts that earlier tries of a request have left
          MaxFaults,    \* bound: processes that die, writes that fail
          NoRequest, NoRoute, NoOutcome

Stages == { "prototype", "readback", "execution" }

\* What classifyModelRouteFailure tells apart; "invalid" is a transient
\* failure whose output was refused by a schema.
FailureKinds == { "semantic", "unavailable", "unauthorized", "timeout", "transient", "invalid" }

ASSUME GatewayAssumption ==
  /\ Stage \in [ Requests -> Stages ] /\ Shares \subseteq [ Callers -> SUBSET Requests ]
  /\ IsFiniteSet(Routes)
  /\ Offers \subseteq SUBSET Routes
  /\ Rankings \subseteq [ Routes -> Nat ]
  /\ \A rank \in Rankings : \A m, n \in Routes : rank[m] = rank[n] => m = n
  /\ MaxAttempts \in Nat \ {0} /\ MaxPrior \in Nat /\ MaxFaults \in Nat
  /\ Failures \subseteq FailureKinds
  /\ NoRequest \notin Requests /\ NoRoute \notin Routes

Outcomes == [ status : { "SUCCEEDED", "FAILED" }, route : Routes \union {NoRoute} ]

ASSUME OutcomeAssumption == NoOutcome \notin Outcomes

VARIABLES
  share,       \* share[p]: the requests that p makes, the same for good
  mission,     \* where the mission stands
  announced,   \* STARTED evidence: <<request, route attempt>>
  index,       \* index[p]: the part of it that p's evidence index knows
  starts,      \* modelRouteStart facts
  failed,      \* modelRouteFailure facts
  answered,    \* answered[r]: the evidence "<requestId>.model"
  calls,       \* calls[r]: the modelCallRecord in the Ledger
  call,        \* call[p]: the request that p is making
  paid,        \* history: the calls providers received
  faults       \* faults so far

ledger == <<starts, failed, calls>>
vars   == <<share, mission, announced, index, starts, failed, answered, calls, call, paid, faults>>

-------------------------------------------------------------------------------
\* "abandoned" ended without a workspace, "ended" with one.
MissionStates == { "clarifying", "executing", "abandoned", "ended" }
Provisioned   == mission \in { "executing", "ended" }

Places == { "idle", "route", "announced", "dispatch", "waiting", "failed", "conclude", "record" }

Idle == [ at |-> "idle", request |-> NoRequest, eligible |-> {}, slow |-> {},
          ranking |-> [ m \in Routes |-> 0 ], prior |-> 0, attempts |-> 0,
          tried |-> {}, rejected |-> {}, last |-> NoRoute, failure |-> "none" ]

Calls == [ at : Places, request : Requests, eligible : SUBSET Routes, slow : SUBSET Routes,
           ranking : Rankings, prior : Nat,   \* priorRouteAttemptCount
           attempts : 0 .. MaxAttempts,       \* provider calls begun
           tried : SUBSET Routes,             \* for attemptedProviderIds
           rejected : SUBSET Routes,          \* inFlightRejectedModelIds
           last : Routes \union {NoRoute},    \* lastAttemptedProvider
           failure : FailureKinds \union {"none"} ]

Attempts == [ request : Requests, attempt : Nat, route : Routes ]

Unbuilt == [ built |-> FALSE, knows |-> {} ]

TypeOK ==
  /\ share \in Shares /\ mission \in MissionStates
  /\ announced \subseteq Requests \X Nat
  /\ index \in [ Callers -> [ built : BOOLEAN, knows : SUBSET (Requests \X Nat) ] ]
  /\ starts \subseteq Attempts /\ paid \subseteq Attempts
  /\ failed \subseteq [ request : Requests, attempt : Nat, route : Routes,
                        failure : FailureKinds ]
  /\ answered \in [ Requests -> Outcomes \union {NoOutcome} ]
  /\ calls \in [ Requests -> Outcomes \union {NoOutcome} ]
  /\ call \in [ Callers -> Calls \union {Idle} ]
  /\ faults \in 0 .. MaxFaults

Init ==
  /\ share \in Shares
  /\ mission = "clarifying" /\ announced = {} /\ starts = {} /\ failed = {} /\ paid = {}
  /\ index = [ p \in Callers |-> Unbuilt ]
  /\ answered = [ r \in Requests |-> NoOutcome ]
  /\ calls = [ r \in Requests |-> NoOutcome ]
  /\ call = [ p \in Callers |-> Idle ] /\ faults = 0

-------------------------------------------------------------------------------
(* Routing. *)

\* classifyModelRouteFailure.
Retryable(failure) == failure \notin { "semantic", "unavailable", "unauthorized" }

\* The failure is of the output, not of the route.
OfTheOutput(failure) == failure \in { "semantic", "invalid" }

\* Models some provider has reported as gone for good, in any request.
Gone == { f.route : f \in { g \in failed : g.failure = "unavailable" } }

\* Models that have timed out in r's stage.
TimedOut(r) == { f.route : f \in { g \in failed : g.failure = "timeout"
                                                  /\ Stage[g.request] = Stage[r] } }

\* prototypeModelsInCooldown, with its limit of two failures; a success of
\* the model in between forgives them, which only a prototype that came in
\* between can be.
CoolingDown ==
  { m \in Routes :
      Cardinality({ f \in failed : f.route = m /\ Stage[f.request] = "prototype" }) >= 2
      /\ ~\E r \in Requests : Stage[r] = "prototype" /\ calls[r] # NoOutcome
                              /\ calls[r].status = "SUCCEEDED" /\ calls[r].route = m }

\* A filter that would leave nothing is not applied.
Unless(routes, dropped) == IF routes \subseteq dropped THEN routes ELSE routes \ dropped

\* What is left of the routes the router offers.
Eligible(r, offered) ==
  LET present == Unless(offered, Gone)
  IN  IF Stage[r] = "prototype" THEN Unless(present, TimedOut(r) \union CoolingDown)
                                ELSE present

\* The order in which c takes its routes: those that timed out come last.
Before(c, m, n) ==
  \/ m \notin c.slow /\ n \in c.slow
  \/ (m \in c.slow <=> n \in c.slow) /\ c.ranking[m] < c.ranking[n]

IsFirst(c, routes, m)  == m \in routes /\ \A n \in routes \ {m} : Before(c, m, n)
IsNth(c, routes, i, m) == m \in routes /\ Cardinality({ n \in routes : Before(c, n, m) }) = i

Providers(routes) == { ProviderOf[m] : m \in routes }
Viable(c)  == c.eligible \ c.rejected
Untried(c) == { m \in Viable(c) : ProviderOf[m] \notin Providers(c.tried) }

\* repeatFinalValidationRoute: every provider has had its turn and the last
\* one returned something that another attempt may correct.
Repeats(c) ==
  /\ OfTheOutput(c.failure) /\ c.last # NoRoute
  /\ Cardinality(Providers(c.tried)) >= Cardinality(Providers(c.eligible))

Exhausted(c) == c.attempts = MaxAttempts \/ (~Repeats(c) /\ Viable(c) = {})

\* m is the route of the next attempt; attempts counts those before it.
IsNext(c, m) ==
  IF Repeats(c) THEN m = c.last
  ELSE IF Untried(c) # {} THEN IsFirst(c, Untried(c), m)
  ELSE IsNth(c, Viable(c), c.attempts % Cardinality(Viable(c)), m)

-------------------------------------------------------------------------------
(* A request. *)
At(p, place)  == call[p].at = place
Leave(p)      == call' = [ call EXCEPT ![p] = Idle ]   \* returned, or thrown
To(p, place)  == call' = [ call EXCEPT ![p].at = place ]

\* The evidence index of a process is built from the whole store when some
\* service first asks it; from then on it learns of its own records only.
Built(p) == [ built |-> TRUE, knows |-> IF index[p].built THEN index[p].knows ELSE announced ]

IndexEvidence(p) ==
  /\ ~index[p].built /\ index' = [ index EXCEPT ![p] = Built(p) ]
  /\ UNCHANGED <<share, mission, announced, ledger, answered, call, paid, faults>>

\* The states in which a request is permitted.
Permitted(r) == IF Stage[r] = "execution" THEN mission = "executing" ELSE mission = "clarifying"

\* How many attempts of r that index shows, whatever came of them.
Prior(p, r) == Cardinality({ e \in Built(p).knows : e[1] = r })

\* A request before its first attempt.
Opened(p, r, offered, rank) ==
  [ at |-> "route", request |-> r, eligible |-> Eligible(r, offered), slow |-> TimedOut(r),
    ranking |-> rank, prior |-> Prior(p, r), attempts |-> 0, tried |-> {}, rejected |-> {},
    last |-> NoRoute, failure |-> "none" ]

\* request(), up to its first attempt.  A request that is in the Ledger is
\* answered from there; one for which the router finds nothing is refused.
Request(p, r, offered, rank) ==
  /\ At(p, "idle") /\ Permitted(r) /\ calls[r] = NoOutcome
  /\ Prior(p, r) <= MaxPrior
  /\ index' = [ index EXCEPT ![p] = Built(p) ]
  /\ call' = [ call EXCEPT ![p] = Opened(p, r, offered, rank) ]
  /\ UNCHANGED <<share, mission, announced, ledger, answered, paid, faults>>

\* The number that names the attempt, and its route.
RouteAttempt(c) == c.prior + c.attempts
Attempt(c) == [ request |-> c.request, attempt |-> RouteAttempt(c), route |-> c.last ]

\* Mutant: a second record replaces the first.
TakenNever(r, attempt) == FALSE
\* Evidence under an identifier that is taken is refused.
Taken(r, attempt) == <<r, attempt>> \in announced

\* The next attempt is announced, or the request throws because another
\* process has announced one of this number.
Announce(p, m) ==
  LET c    == call[p]
      next == [ c EXCEPT !.at = "announced", !.attempts = @ + 1, !.last = m,
                         !.tried = @ \union {m} ]
      id   == <<c.request, RouteAttempt(next)>>
  IN /\ At(p, "route") /\ ~Exhausted(c) /\ IsNext(c, m)
     /\ IF Taken(c.request, RouteAttempt(next))
          THEN Leave(p) /\ UNCHANGED <<announced, index>>
          ELSE /\ announced' = announced \union {id}
               /\ index' = [ index EXCEPT ![p].knows = @ \union {id} ]
               /\ call' = [ call EXCEPT ![p] = next ]
     /\ UNCHANGED <<share, mission, ledger, answered, paid, faults>>

\* Mutant: the call is made while its fact is being written.
StartFactAfterDispatch(p) ==
  /\ At(p, "announced") /\ To(p, "waiting")
  /\ paid' = paid \union { Attempt(call[p]) }
  /\ UNCHANGED <<share, mission, announced, index, ledger, answered, faults>>

\* Evidence of a mission with a workspace must cite a checkpoint, and a call
\* from before there was one cites none.
Citable(r) == Stage[r] = "execution" \/ ~Provisioned

StartFact(p) ==
  LET r == call[p].request
  IN /\ At(p, "announced")
     /\ IF Citable(r) THEN starts' = starts \union { Attempt(call[p]) } /\ To(p, "dispatch")
                      ELSE Leave(p) /\ UNCHANGED starts
     /\ UNCHANGED <<share, mission, announced, index, failed, answered, calls, paid, faults>>

Dispatch(p) ==
  /\ At(p, "dispatch") /\ To(p, "waiting")
  /\ paid' = paid \union { Attempt(call[p]) }
  /\ UNCHANGED <<share, mission, announced, index, ledger, answered, faults>>

\* The provider answers, and its answer is admitted.
Answer(p) ==
  /\ At(p, "waiting")
  /\ call' = [ call EXCEPT ![p] = [ @ EXCEPT !.at = "conclude", !.failure = "none" ] ]
  /\ UNCHANGED <<share, mission, announced, index, ledger, answered, paid, faults>>

Refuse(p, failure) ==
  /\ At(p, "waiting")
  /\ LET c == call[p]
         rejected == IF Retryable(failure) THEN c.rejected ELSE c.rejected \union { c.last }
     IN  call' = [ call EXCEPT ![p] = [ c EXCEPT !.at = "failed", !.failure = failure,
                                                  !.rejected = rejected ] ]
  /\ UNCHANGED <<share, mission, announced, index, ledger, answered, paid, faults>>

\* Mutant: a model that is gone ends the request.
AfterFailureGivingUp(failure) ==
  IF failure \in { "semantic", "unavailable" } THEN "conclude" ELSE "route"
\* Once the failure is recorded, the loop goes on unless no other provider
\* could do better.
AfterFailure(failure) == IF failure = "semantic" THEN "conclude" ELSE "route"

\* The record of a failure is best effort: what it throws is swallowed.
RecordFailure(p) ==
  LET c == call[p]
      fact == [ request |-> c.request, attempt |-> RouteAttempt(c), route |-> c.last,
                failure |-> c.failure ]
  IN /\ At(p, "failed") /\ To(p, AfterFailure(c.failure))
     /\ \/ /\ Citable(c.request) /\ failed' = failed \union {fact}
           /\ UNCHANGED faults
        \/ /\ Citable(c.request) /\ faults < MaxFaults /\ faults' = faults + 1
           /\ UNCHANGED failed
        \/ ~Citable(c.request) /\ UNCHANGED <<failed, faults>>
     /\ UNCHANGED <<share, mission, announced, index, starts, answered, calls, paid>>

\* The loop ends without an answer.
GiveUp(p) ==
  LET c == call[p]
  IN /\ At(p, "route") /\ Exhausted(c) /\ To(p, "conclude")
     /\ UNCHANGED <<share, mission, announced, index, ledger, answered, paid, faults>>

\* Mutant: only failures that reject a route count.
OutcomeUnlessRejected(c) ==
  [ status |-> IF c.rejected = {} THEN "SUCCEEDED" ELSE "FAILED", route |-> c.last ]
\* The record of the call.  A request for which no route was eligible has met
\* no failure either, and is a success without an output.
Outcome(c) ==
  [ status |-> IF c.failure = "none" THEN "SUCCEEDED" ELSE "FAILED", route |-> c.last ]

\* Mutant: a second outcome replaces the first.
ConcludedNever(r) == FALSE
\* Whether the evidence of the outcome is there already.
Concluded(r) == answered[r] # NoOutcome

Conclude(p) ==
  LET r == call[p].request
  IN /\ At(p, "conclude")
     /\ IF Concluded(r) THEN Leave(p) /\ UNCHANGED answered
        ELSE /\ answered' = [ answered EXCEPT ![r] = Outcome(call[p]) ]
             /\ To(p, "record")
     /\ UNCHANGED <<share, mission, announced, index, ledger, paid, faults>>

\* The outcome reaches the Ledger, which refuses a second event of its name.
Record(p) ==
  LET r == call[p].request
  IN /\ At(p, "record") /\ Leave(p)
     /\ calls' = IF Citable(r) /\ calls[r] = NoOutcome
                   THEN [ calls EXCEPT ![r] = Outcome(call[p]) ] ELSE calls
     /\ UNCHANGED <<share, mission, announced, index, starts, failed, answered, paid, faults>>

\* A durable step fails and its error ends the request.
Fail(p) ==
  /\ faults < MaxFaults /\ call[p].at \in { "route", "announced", "conclude", "record" }
  /\ Leave(p) /\ faults' = faults + 1
  /\ UNCHANGED <<share, mission, announced, index, ledger, answered, paid>>

\* The process dies and another takes its place.
Die(p) ==
  /\ faults < MaxFaults /\ Leave(p) /\ faults' = faults + 1
  /\ index' = [ index EXCEPT ![p] = Unbuilt ]
  /\ UNCHANGED <<share, mission, announced, ledger, answered, paid>>

\* The mission goes on; nobody looks at it again between two attempts.
MissionMoves ==
  /\ \/ mission = "clarifying" /\ mission' \in { "executing", "abandoned" }
     \/ mission = "executing" /\ mission' = "ended"
  /\ UNCHANGED <<share, announced, index, ledger, answered, call, paid, faults>>

Step(p) == \/ IndexEvidence(p) \/ (\E m \in Routes : Announce(p, m)) \/ StartFact(p) \/ Dispatch(p) \/ Answer(p)
           \/ \E failure \in Failures : Refuse(p, failure)
           \/ RecordFailure(p) \/ GiveUp(p) \/ Conclude(p) \/ Record(p) \/ Fail(p) \/ Die(p)

Next ==
  \/ \E p \in Callers, offered \in Offers, rank \in Rankings : \E r \in share[p] :
       Request(p, r, offered, rank)
  \/ \E p \in Callers : Step(p)
  \/ MissionMoves

Spec == Init /\ [][Next]_vars

-------------------------------------------------------------------------------
(* Correctness. *)

\* Whatever dies, the Ledger knows of every call a provider has received, and
\* tells any two of them apart: what a mission has spent can be accounted for.
CallsAreAccounted ==
  /\ paid \subseteq starts
  /\ \A a, b \in starts : a.request = b.request /\ a.attempt = b.attempt => a = b

\* The outcome in the Ledger is the one its evidence shows, also when two
\* processes made the request and came to different ends.
OutcomeIsBacked == \A r \in Requests : calls[r] # NoOutcome => answered[r] = calls[r]

\* A success names a route that was called and that did not fail there.
SuccessWasAnswered ==
  \A r \in Requests :
    calls[r] # NoOutcome /\ calls[r].status = "SUCCEEDED" /\ calls[r].route # NoRoute =>
      \E a \in paid : /\ a.request = r /\ a.route = calls[r].route
                      /\ ~\E f \in failed : f.request = r /\ f.attempt = a.attempt

\* No attempt of a request goes to a model that has told the same request that
\* it is gone or that Foundry may not use it.
NoHopelessAttempt ==
  \A p \in Callers, f \in failed :
    /\ call[p].at = "dispatch" /\ f.request = call[p].request
    /\ f.attempt \in call[p].prior + 1 .. RouteAttempt(call[p]) - 1
    /\ f.failure \in { "unavailable", "unauthorized" }
    => f.route # call[p].last

\* A request fails for want of a provider only after all the attempts it has,
\* or when every route it may take has turned out hopeless.
FailureIsEarned ==
  \A p \in Callers :
    /\ call[p].at \in { "conclude", "record" } /\ call[p].failure \notin { "none", "semantic" }
    => call[p].attempts = MaxAttempts \/ call[p].eligible \subseteq call[p].rejected

\* What a success is: "Structured model output validated.", which a request
\* without a route has not (model-gateway.js:1242 and :964).
SuccessHasOutput ==
  \A r \in Requests : calls[r] # NoOutcome /\ calls[r].status = "SUCCEEDED"
                      => calls[r].route # NoRoute

\* "Model calls are permitted only during EXECUTING." (model-gateway.js:678)
CallsArePermitted ==
  [][ \A a \in paid' \ paid : Permitted(a.request) ]_vars

===============================================================================
