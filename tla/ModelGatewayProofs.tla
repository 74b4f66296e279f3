-------------------------- MODULE ModelGatewayProofs --------------------------
(***************************************************************************)
(* What the Ledger says of a mission's model calls is true, whatever the   *)
(* number of processes that make them, of routes, attempts and faults:     *)
(* proof that ModelGateway keeps its types and its safety invariants.      *)
(*                                                                         *)
(* The argument: an attempt belongs to the one process whose evidence took *)
(* its number (Holds), and two processes hold no number in common.  What   *)
(* the stores say of a number is therefore the doing of its holder, and    *)
(* stays as it is once the holder has left.                                *)
(***************************************************************************)
EXTENDS ModelGateway, FiniteSetTheorems, TLAPS

\* p has announced attempt n of r in the request that it is making.
Holds(p, r, n) ==
  /\ call[p].at # "idle" /\ call[p].request = r
  /\ n \in Nat /\ call[p].prior < n /\ n <= RouteAttempt(call[p])

CallsAreTyped == \A p \in Callers : call[p].at # "idle" => call[p] \in Calls

Finite == IsFiniteSet(announced) /\ \A p \in Callers : IsFiniteSet(index[p].knows)

Ownership ==
  /\ \A p \in Callers, r \in Requests, n \in Nat : Holds(p, r, n) => <<r, n>> \in announced
  /\ \A p, q \in Callers, r \in Requests, n \in Nat : Holds(p, r, n) /\ Holds(q, r, n) => p = q
  /\ \A s \in starts : <<s.request, s.attempt>> \in announced
  /\ \A f \in failed : <<f.request, f.attempt>> \in announced

\* The last attempt of a call is under way, or has been answered.
UnderWay(c) == c.at \in { "announced", "dispatch", "waiting", "failed" }
Admitted(c) == c.at \in { "conclude", "record" } /\ c.failure = "none" /\ c.last # NoRoute
Current(c)  == UnderWay(c) \/ Admitted(c)

Hopeless(failure) == failure \in { "unavailable", "unauthorized" }

\* What holds of the call of one process, wherever it stands.
Progress(c) ==
  /\ Current(c) => c.last \in Routes /\ c.attempts > 0
  /\ c.at = "route" => c.failure # "semantic" /\ (c.failure = "none" => c.last = NoRoute)
  /\ c.at = "failed" => c.failure # "none" /\ (~Retryable(c.failure) => c.last \in c.rejected)
  /\ c.at \in { "announced", "dispatch", "waiting" } => c.last \notin c.rejected
  /\ c.at \in { "failed", "route" } /\ c.failure = "invalid" => c.last \notin c.rejected
  /\ c.at \in { "conclude", "record" } /\ c.failure \notin { "none", "semantic" }
       => c.attempts = MaxAttempts \/ c.eligible \subseteq c.rejected

\* What the stores say of its last attempt.
Accounted(c) ==
  /\ c.at = "announced" =>
       \A s \in starts : ~(s.request = c.request /\ s.attempt = RouteAttempt(c))
  /\ c.at = "dispatch" => Attempt(c) \in starts
  /\ c.at \in { "waiting", "failed" } \/ Admitted(c) => Attempt(c) \in paid
  /\ Current(c) => \A f \in failed : ~(f.request = c.request /\ f.attempt = RouteAttempt(c))

\* The failures of its earlier attempts have taught it.
Taught(p) ==
  \A f \in failed : Holds(p, f.request, f.attempt) /\ Hopeless(f.failure)
                      => f.route \in call[p].rejected

CallsGoWell == \A p \in Callers : Progress(call[p]) /\ Accounted(call[p]) /\ Taught(p)

\* An attempt that was answered, and whose number nobody will use again.
Settled(a) ==
  /\ a \in paid
  /\ \A f \in failed : ~(f.request = a.request /\ f.attempt = a.attempt)
  /\ \A q \in Callers : ~Holds(q, a.request, a.attempt)

OutcomesAreTrue ==
  /\ OutcomeIsBacked
  /\ \A p \in Callers : call[p].at = "record" =>
       answered[call[p].request] = Outcome(call[p])
  /\ \A r \in Requests :
       calls[r] # NoOutcome /\ calls[r].status = "SUCCEEDED" /\ calls[r].route # NoRoute =>
         \E a \in Attempts : a.request = r /\ a.route = calls[r].route /\ Settled(a)

IInv == /\ TypeOK /\ CallsAreTyped /\ Finite /\ Ownership /\ CallsAreAccounted
        /\ CallsGoWell /\ OutcomesAreTrue

-------------------------------------------------------------------------------
USE GatewayAssumption, OutcomeAssumption

\* A process that leaves, begins, or goes on with the attempts it has, holds no
\* new one.
Goes(p, d) ==
  /\ call' = [ call EXCEPT ![p] = d ]
  /\ \/ d = Idle
     \/ /\ call[p].at # "idle" /\ d \in Calls
        /\ d.request = call[p].request /\ d.prior = call[p].prior
        /\ d.attempts = call[p].attempts
     \/ d \in Calls /\ d.attempts = 0

\* The call of an idle process is not a call of any request.
LEMMA IdleIsIdle == Idle.at = "idle" /\ ~Current(Idle)
  BY DEF Idle, Current, UnderWay, Admitted

\* Goes yields nothing new to hold, and keeps the calls typed.
LEMMA GoingHoldsNoMore ==
  ASSUME TypeOK, CallsAreTyped, NEW p \in Callers, NEW d, Goes(p, d)
  PROVE  /\ \A q \in Callers, r \in Requests, n \in Nat : Holds(q, r, n)' => Holds(q, r, n)
         /\ \A q \in Callers : call'[q].at # "idle" => call'[q] \in Calls
         /\ call' \in [ Callers -> Calls \union {Idle} ]
         /\ call'[p] = d /\ \A q \in Callers \ {p} : call'[q] = call[q]
<1>1. /\ call \in [ Callers -> Calls \union {Idle} ] /\ d \in Calls \union {Idle}
      /\ call' = [ call EXCEPT ![p] = d ]
  BY DEF TypeOK, Goes
<1>2. call'[p] = d /\ \A q \in Callers \ {p} : call'[q] = call[q]
  BY <1>1
<1>3. call' \in [ Callers -> Calls \union {Idle} ]
  BY <1>1
<1>4. \A q \in Callers : call'[q].at # "idle" => call'[q] \in Calls
  BY <1>2, <1>3, IdleIsIdle
<1>5. ASSUME NEW q \in Callers, NEW r \in Requests, NEW n \in Nat, Holds(q, r, n)'
      PROVE  Holds(q, r, n)
  <2>1. CASE q # p
    BY <1>2, <1>5, <2>1 DEF Holds, RouteAttempt
  <2>2. CASE q = p
    <3>1. ~(d \in Calls /\ d.attempts = 0)
      BY <1>2, <1>5, <2>2 DEF Holds, RouteAttempt, Calls
    <3>2. QED  BY <1>2, <1>5, <2>2, <3>1, IdleIsIdle DEF Holds, RouteAttempt, Goes
  <2>3. QED  BY <2>1, <2>2
<1>6. QED  BY <1>2, <1>3, <1>4, <1>5

\* What p adds to the stores is about attempts of its own.
Grows(p) ==
  /\ starts \subseteq starts' /\ failed \subseteq failed' /\ paid \subseteq paid'
  /\ starts' \subseteq Attempts
  /\ failed' \subseteq [ request : Requests, attempt : Nat, route : Routes,
                         failure : FailureKinds ]
  /\ \A s \in starts' \ starts : Holds(p, s.request, s.attempt)
  /\ \A f \in failed' \ failed : Holds(p, f.request, f.attempt)

\* A process holds the attempt that it has under way.
LEMMA CurrentIsHeld ==
  ASSUME CallsAreTyped, CallsGoWell, NEW p \in Callers, Current(call[p])
  PROVE  /\ call[p].request \in Requests /\ RouteAttempt(call[p]) \in Nat
         /\ Holds(p, call[p].request, RouteAttempt(call[p]))
<1>1. call[p].at # "idle"
  BY DEF Current, UnderWay, Admitted
<1>2. call[p] \in Calls /\ call[p].attempts > 0
  BY <1>1 DEF CallsAreTyped, CallsGoWell, Progress
<1>3. QED  BY <1>1, <1>2 DEF Calls, Holds, RouteAttempt

\* Numbers have the owners they had, or fewer.
LEMMA GoingKeepsOwnership ==
  ASSUME TypeOK, CallsAreTyped, Ownership, NEW p \in Callers, NEW d, Goes(p, d), Grows(p),
         announced' = announced
  PROVE  Ownership'
<1>1. \A q \in Callers, r \in Requests, n \in Nat : Holds(q, r, n)' => Holds(q, r, n)
  BY GoingHoldsNoMore
<1>2. \A s \in starts' : <<s.request, s.attempt>> \in announced'
  BY DEF Ownership, Grows, Attempts
<1>3. \A f \in failed' : <<f.request, f.attempt>> \in announced'
  BY DEF Ownership, Grows
<1>4. QED  BY <1>1, <1>2, <1>3 DEF Ownership

\* The calls of the others fare as before.
LEMMA GoingLeavesOthers ==
  ASSUME TypeOK, CallsAreTyped, Ownership, CallsGoWell, NEW p \in Callers, NEW d, Goes(p, d),
         Grows(p), NEW q \in Callers \ {p}
  PROVE  Progress(call[q])' /\ Accounted(call[q])' /\ Taught(q)'
<1>1. call'[q] = call[q]
  BY GoingHoldsNoMore
<1>2. Progress(call[q]) /\ Accounted(call[q]) /\ Taught(q)
  BY DEF CallsGoWell
<1>3. Progress(call[q])'
  BY <1>1, <1>2 DEF Progress, Current, UnderWay, Admitted, Retryable
<1>4. ASSUME Current(call[q])
      PROVE  /\ \A s \in starts' \ starts :
                  ~(s.request = call[q].request /\ s.attempt = RouteAttempt(call[q]))
             /\ \A f \in failed' \ failed :
                  ~(f.request = call[q].request /\ f.attempt = RouteAttempt(call[q]))
  <2>1. /\ call[q].request \in Requests /\ RouteAttempt(call[q]) \in Nat
        /\ Holds(q, call[q].request, RouteAttempt(call[q]))
    BY <1>4, CurrentIsHeld
  <2>2. ~Holds(p, call[q].request, RouteAttempt(call[q]))
    BY <2>1 DEF Ownership
  <2>3. QED  BY <2>2 DEF Grows
<1>5. Accounted(call[q])'
  BY <1>1, <1>2, <1>4
  DEF Accounted, Current, UnderWay, Admitted, Grows, Attempt, RouteAttempt
<1>6. ASSUME NEW f \in failed', Holds(q, f.request, f.attempt)', Hopeless(f.failure)
      PROVE  f.route \in call'[q].rejected
  <2>1. f.request \in Requests /\ f.attempt \in Nat
    BY DEF Grows
  <2>2. Holds(q, f.request, f.attempt)
    BY <1>6, <2>1, GoingHoldsNoMore
  <2>3. f \in failed
    BY <2>1, <2>2 DEF Grows, Ownership
  <2>4. QED  BY <1>1, <1>2, <1>6, <2>2, <2>3 DEF Taught
<1>7. QED  BY <1>3, <1>5, <1>6 DEF Taught

\* What is settled stays so.
LEMMA GoingKeepsSettled ==
  ASSUME TypeOK, CallsAreTyped, NEW p \in Callers, NEW d, Goes(p, d), Grows(p),
         NEW a \in Attempts, Settled(a)
  PROVE  Settled(a)'
<1>1. a.request \in Requests /\ a.attempt \in Nat
  BY DEF Attempts
<1>2. \A q \in Callers : ~Holds(q, a.request, a.attempt)'
  BY <1>1, GoingHoldsNoMore DEF Settled
<1>3. \A f \in failed' : ~(f.request = a.request /\ f.attempt = a.attempt)
  BY DEF Settled, Grows
<1>4. QED  BY <1>2, <1>3 DEF Settled, Grows

\* A process that only leaves changes nothing that matters.
LEMMA LeavingKeepsAll ==
  ASSUME IInv, NEW p \in Callers, Leave(p), Finite',
         index' \in [ Callers -> [ built : BOOLEAN, knows : SUBSET (Requests \X Nat) ] ],
         faults' \in 0 .. MaxFaults,
         UNCHANGED <<share, mission, announced, starts, failed, answered, calls, paid>>
  PROVE  IInv'
<1> USE DEF IInv
<1>1. Goes(p, Idle) /\ Grows(p)
  BY DEF Leave, Goes, Grows, TypeOK
<1>2. TypeOK' /\ CallsAreTyped' /\ CallsAreAccounted'
  BY <1>1, GoingHoldsNoMore DEF TypeOK, CallsAreTyped, CallsAreAccounted
<1>3. Ownership'
  BY <1>1, GoingKeepsOwnership
<1>4. call'[p] = Idle /\ \A q \in Callers \ {p} : call'[q] = call[q]
  BY <1>1, GoingHoldsNoMore
<1>5. Progress(call[p])' /\ Accounted(call[p])' /\ Taught(p)'
  BY <1>4 DEF Idle, Progress, Accounted, Taught, Current, UnderWay, Admitted, Holds
<1>6. CallsGoWell'
  BY <1>1, <1>5, GoingLeavesOthers DEF CallsGoWell
<1>7. OutcomesAreTrue'
  <2>1. OutcomeIsBacked'
    BY DEF OutcomesAreTrue, OutcomeIsBacked
  <2>2. \A q \in Callers : call'[q].at = "record" =>
          answered'[call'[q].request] = Outcome(call'[q])
    <3>1. TAKE q \in Callers
    <3>2. CASE q = p
      BY <1>4, <3>2, IdleIsIdle
    <3>3. CASE q # p
      BY <1>4, <3>3 DEF OutcomesAreTrue
    <3>4. QED  BY <3>2, <3>3
  <2>3. \A a \in Attempts : Settled(a) => Settled(a)'
    BY <1>1, GoingKeepsSettled
  <2>4. QED  BY <2>1, <2>2, <2>3 DEF OutcomesAreTrue, Outcome
<1>8. QED  BY <1>2, <1>3, <1>6, <1>7

\* A process that goes on within the loop need only fare well itself.
LEMMA GoingKeepsAll ==
  ASSUME IInv, NEW p \in Callers, NEW d, Goes(p, d), Grows(p), paid' \subseteq Attempts,
         d.at # "record", Progress(d), Accounted(call[p])', Taught(p)',
         CallsAreAccounted', faults' \in 0 .. MaxFaults,
         index' \in [ Callers -> [ built : BOOLEAN, knows : SUBSET (Requests \X Nat) ] ], Finite',
         UNCHANGED <<share, mission, announced, answered, calls>>
  PROVE  IInv'
<1> USE DEF IInv
<1>1. TypeOK' /\ CallsAreTyped'
  BY GoingHoldsNoMore DEF TypeOK, CallsAreTyped, Grows
<1>2. Finite' /\ Ownership'
  BY GoingKeepsOwnership
<1>3. call'[p] = d /\ \A q \in Callers \ {p} : call'[q] = call[q]
  BY GoingHoldsNoMore
<1>4. CallsGoWell'
  <2>1. Progress(call'[p])
    BY <1>3
  <2>2. Progress(call[p])'
    BY <2>1 DEF Progress, Current, UnderWay, Admitted
  <2>3. QED  BY <2>2, GoingLeavesOthers DEF CallsGoWell
<1>5. OutcomesAreTrue'
  <2>1. OutcomeIsBacked'
    BY DEF OutcomesAreTrue, OutcomeIsBacked
  <2>2. \A q \in Callers : call'[q].at = "record" =>
          answered'[call'[q].request] = Outcome(call'[q])
    <3>1. TAKE q \in Callers
    <3>2. CASE q = p
      BY <1>3, <3>2
    <3>3. CASE q # p
      BY <1>3, <3>3 DEF OutcomesAreTrue
    <3>4. QED  BY <3>2, <3>3
  <2>3. \A a \in Attempts : Settled(a) => Settled(a)'
    BY GoingKeepsSettled
  <2>4. QED  BY <2>1, <2>2, <2>3 DEF OutcomesAreTrue
<1>6. QED  BY <1>1, <1>2, <1>4, <1>5

\* The evidence store and its indexes do not change.
LEMMA IndexIsKept ==
  ASSUME TypeOK, Finite, UNCHANGED <<announced, index>>
  PROVE  /\ index' \in [ Callers -> [ built : BOOLEAN, knows : SUBSET (Requests \X Nat) ] ]
         /\ Finite'
  BY DEF TypeOK, Finite

\* Taught survives in a process that learns of no new failure.
LEMMA StaysTaught ==
  ASSUME TypeOK, CallsAreTyped, NEW p \in Callers, NEW d, Goes(p, d), d # Idle, Taught(p),
         failed' = failed, call[p].rejected \subseteq d.rejected
  PROVE  Taught(p)'
<1>1. call'[p] = d
  BY GoingHoldsNoMore
<1>2. ASSUME NEW f \in failed, Holds(p, f.request, f.attempt)'
      PROVE  Holds(p, f.request, f.attempt)
  <2>1. f.request \in Requests /\ f.attempt \in Nat
    BY DEF TypeOK
  <2>2. QED  BY <1>2, <2>1, GoingHoldsNoMore
<1>3. QED  BY <1>1, <1>2 DEF Taught

-------------------------------------------------------------------------------
(* The steps.                                                              *)

\* The fields of two calls that tell their attempts.
SameAttempts(c, d) ==
  /\ d.request = c.request /\ d.prior = c.prior /\ d.attempts = c.attempts
  /\ d.last = c.last /\ d.eligible = c.eligible

\* A call that moves to another place within the request.
LEMMA Moving ==
  ASSUME TypeOK, NEW p \in Callers, call[p] \in Calls, call[p].at # "idle",
         NEW place \in Places, place # "idle", To(p, place)
  PROVE  LET d == [ call[p] EXCEPT !.at = place ]
         IN  /\ Goes(p, d) /\ call'[p] = d /\ d \in Calls /\ d # Idle /\ d.at = place
             /\ SameAttempts(call[p], d)
             /\ d.failure = call[p].failure /\ d.rejected = call[p].rejected
<1> DEFINE d == [ call[p] EXCEPT !.at = place ]
<1>1. call' = [ call EXCEPT ![p] = d ]
  BY DEF To
<1>2. call'[p] = d
  BY <1>1 DEF TypeOK
<1>3. d \in Calls
  BY DEF Calls
<1>4. d.at = place
  BY DEF Calls
<1>5. d # Idle
  BY <1>4, IdleIsIdle
<1>6. SameAttempts(call[p], d) /\ d.failure = call[p].failure /\ d.rejected = call[p].rejected
  BY DEF Calls, SameAttempts
<1>7. Goes(p, d)
  BY <1>1, <1>3, <1>6 DEF Goes, SameAttempts
<1>8. QED  BY <1>2, <1>3, <1>4, <1>5, <1>6, <1>7

LEMMA StartFactKeepsAll ==
  ASSUME IInv, NEW p \in Callers, StartFact(p)
  PROVE  IInv'
<1> USE DEF IInv
<1> DEFINE c == call[p]
           d == [ c EXCEPT !.at = "dispatch" ]
<1>1. /\ c \in Calls /\ c.at = "announced" /\ Current(c) /\ UnderWay(c)
      /\ Progress(c) /\ Accounted(c) /\ Taught(p)
  BY DEF StartFact, At, CallsAreTyped, CallsGoWell, Current, UnderWay
<1>2. CASE ~Citable(c.request)
  <2>1. Leave(p) /\ UNCHANGED <<share, mission, announced, index, starts, failed, answered,
                                calls, paid, faults>>
    BY <1>2 DEF StartFact
  <2>2. Finite' /\ index' \in [ Callers -> [ built : BOOLEAN, knows : SUBSET (Requests \X Nat) ] ]
        /\ faults' \in 0 .. MaxFaults
    BY <2>1 DEF Finite, TypeOK
  <2>3. QED  BY <2>1, <2>2, LeavingKeepsAll
<1>3. CASE Citable(c.request)
  <2>1. /\ To(p, "dispatch") /\ starts' = starts \union { Attempt(c) }
        /\ UNCHANGED <<share, mission, announced, index, failed, answered, calls, paid, faults>>
    BY <1>3 DEF StartFact
  <2>2. /\ Goes(p, d) /\ call'[p] = d /\ d \in Calls /\ d # Idle /\ d.at = "dispatch"
        /\ SameAttempts(c, d) /\ d.failure = c.failure /\ d.rejected = c.rejected
    BY <1>1, <2>1, Moving DEF Places
  <2>3. Attempt(c) \in Attempts
    BY <1>1 DEF Attempt, Attempts, Calls, Progress, RouteAttempt
  <2>4. Grows(p)
    BY <1>1, <2>1, <2>3, CurrentIsHeld DEF Grows, TypeOK, Attempt
  <2>5. Progress(d)
    BY <1>1, <2>2 DEF Progress, Current, UnderWay, Admitted, SameAttempts
  <2>6. Accounted(call[p])'
    BY <1>1, <2>1, <2>2
    DEF Accounted, Current, UnderWay, Admitted, SameAttempts, Attempt, RouteAttempt
  <2>7. Taught(p)'
    BY <1>1, <2>1, <2>2, StaysTaught
  <2>8. CallsAreAccounted'
    BY <1>1, <2>1 DEF CallsAreAccounted, Accounted, Attempt
  <2>9. paid' \subseteq Attempts /\ faults' \in 0 .. MaxFaults
    BY <2>1 DEF TypeOK
  <2>10. QED
    BY <2>1, <2>2, <2>4, <2>5, <2>6, <2>7, <2>8, <2>9, IndexIsKept, GoingKeepsAll
<1>4. QED  BY <1>2, <1>3

LEMMA DispatchKeepsAll ==
  ASSUME IInv, NEW p \in Callers, Dispatch(p)
  PROVE  IInv'
<1> USE DEF IInv
<1> DEFINE c == call[p]
           d == [ c EXCEPT !.at = "waiting" ]
<1>1. /\ c \in Calls /\ c.at = "dispatch" /\ Current(c)
      /\ Progress(c) /\ Accounted(c) /\ Taught(p)
  BY DEF Dispatch, At, CallsAreTyped, CallsGoWell, Current, UnderWay
<1>2. /\ To(p, "waiting") /\ paid' = paid \union { Attempt(c) }
      /\ UNCHANGED <<share, mission, announced, index, starts, failed, answered, calls, faults>>
  BY DEF Dispatch, ledger
<1>3. /\ Goes(p, d) /\ call'[p] = d /\ d \in Calls /\ d # Idle /\ d.at = "waiting"
      /\ SameAttempts(c, d) /\ d.failure = c.failure /\ d.rejected = c.rejected
  BY <1>1, <1>2, Moving DEF Places
<1>4. Attempt(c) \in starts
  BY <1>1 DEF Accounted
<1>5. Grows(p) /\ paid' \subseteq Attempts /\ faults' \in 0 .. MaxFaults
  BY <1>2, <1>4 DEF Grows, TypeOK
<1>6. Progress(d)
  BY <1>1, <1>3 DEF Progress, Current, UnderWay, Admitted, SameAttempts
<1>7. Accounted(call[p])'
  BY <1>1, <1>2, <1>3
  DEF Accounted, Current, UnderWay, Admitted, SameAttempts, Attempt, RouteAttempt
<1>8. Taught(p)'
  BY <1>1, <1>2, <1>3, StaysTaught
<1>9. CallsAreAccounted'
  BY <1>2, <1>4 DEF CallsAreAccounted
<1>10. QED
  BY <1>2, <1>3, <1>5, <1>6, <1>7, <1>8, <1>9, IndexIsKept, GoingKeepsAll

LEMMA AnswerKeepsAll ==
  ASSUME IInv, NEW p \in Callers, Answer(p)
  PROVE  IInv'
<1> USE DEF IInv
<1> DEFINE c == call[p]
           d == [ c EXCEPT !.at = "conclude", !.failure = "none" ]
<1>1. /\ c \in Calls /\ c.at = "waiting" /\ Current(c)
      /\ Progress(c) /\ Accounted(c) /\ Taught(p)
  BY DEF Answer, At, CallsAreTyped, CallsGoWell, Current, UnderWay
<1>2. /\ call' = [ call EXCEPT ![p] = d ]
      /\ UNCHANGED <<share, mission, announced, index, starts, failed, answered, calls, paid, faults>>
  BY DEF Answer, ledger
<1>3. /\ d \in Calls /\ d.at = "conclude" /\ d.failure = "none"
      /\ SameAttempts(c, d) /\ d.rejected = c.rejected
  BY <1>1 DEF Calls, Places, SameAttempts
<1>4. d # Idle /\ Goes(p, d)
  BY <1>1, <1>2, <1>3, IdleIsIdle DEF Goes, SameAttempts
<1>5. Grows(p) /\ paid' \subseteq Attempts /\ faults' \in 0 .. MaxFaults /\ call'[p] = d
  BY <1>2 DEF Grows, TypeOK
<1>6. Progress(d)
  BY <1>1, <1>3 DEF Progress, Current, UnderWay, Admitted, SameAttempts
<1>7. Accounted(call[p])'
  BY <1>1, <1>2, <1>3, <1>5
  DEF Accounted, Current, UnderWay, Admitted, SameAttempts, Attempt, RouteAttempt
<1>8. Taught(p)'
  BY <1>1, <1>2, <1>3, <1>4, StaysTaught
<1>9. CallsAreAccounted'
  BY <1>2 DEF CallsAreAccounted
<1>10. QED
  BY <1>2, <1>3, <1>4, <1>5, <1>6, <1>7, <1>8, <1>9, IndexIsKept, GoingKeepsAll

LEMMA RefuseKeepsAll ==
  ASSUME IInv, NEW p \in Callers, NEW failure \in Failures, Refuse(p, failure)
  PROVE  IInv'
<1> USE DEF IInv
<1> DEFINE c == call[p]
           rejected == IF Retryable(failure) THEN c.rejected ELSE c.rejected \union {c.last}
           d == [ c EXCEPT !.at = "failed", !.failure = failure, !.rejected = rejected ]
<1>1. /\ c \in Calls /\ c.at = "waiting" /\ Current(c) /\ failure \in FailureKinds
      /\ Progress(c) /\ Accounted(c) /\ Taught(p)
  BY DEF Refuse, At, CallsAreTyped, CallsGoWell, Current, UnderWay
<1>2. /\ call' = [ call EXCEPT ![p] = d ]
      /\ UNCHANGED <<share, mission, announced, index, starts, failed, answered, calls, paid, faults>>
  BY DEF Refuse, ledger
<1>3. c.last \in Routes
  BY <1>1 DEF Progress
<1>4. rejected \subseteq Routes /\ c.rejected \subseteq rejected
      /\ (Retryable(failure) => rejected = c.rejected)
      /\ (~Retryable(failure) => c.last \in rejected)
  BY <1>1, <1>3 DEF Calls
<1> HIDE DEF rejected
<1>5. /\ d \in Calls /\ d.at = "failed" /\ d.failure = failure
      /\ SameAttempts(c, d) /\ d.rejected = rejected
  BY <1>1, <1>4 DEF Calls, Places, SameAttempts
<1>6. d # Idle /\ Goes(p, d)
  BY <1>1, <1>2, <1>5, IdleIsIdle DEF Goes, SameAttempts
<1>7. Grows(p) /\ paid' \subseteq Attempts /\ faults' \in 0 .. MaxFaults /\ call'[p] = d
  BY <1>2 DEF Grows, TypeOK
<1>8. Progress(d)
  <2>1. failure # "none"
    BY <1>1 DEF FailureKinds
  <2>2. failure = "invalid" => d.last \notin d.rejected
    BY <1>1, <1>4, <1>5 DEF Progress, Retryable, SameAttempts
  <2>3. QED  BY <1>1, <1>3, <1>4, <1>5, <2>1, <2>2
             DEF Progress, Current, UnderWay, Admitted, SameAttempts
<1>9. Accounted(call[p])'
  BY <1>1, <1>2, <1>5, <1>7
  DEF Accounted, Current, UnderWay, Admitted, SameAttempts, Attempt, RouteAttempt
<1>10. Taught(p)'
  BY <1>1, <1>2, <1>4, <1>5, <1>6, StaysTaught
<1>11. CallsAreAccounted'
  BY <1>2 DEF CallsAreAccounted
<1>12. QED
  BY <1>2, <1>5, <1>6, <1>7, <1>8, <1>9, <1>10, <1>11, IndexIsKept, GoingKeepsAll

LEMMA GiveUpKeepsAll ==
  ASSUME IInv, NEW p \in Callers, GiveUp(p)
  PROVE  IInv'
<1> USE DEF IInv
<1> DEFINE c == call[p]
           d == [ c EXCEPT !.at = "conclude" ]
<1>1. /\ c \in Calls /\ c.at = "route" /\ Progress(c) /\ Accounted(c) /\ Taught(p)
      /\ Exhausted(c)
  BY DEF GiveUp, At, CallsAreTyped, CallsGoWell
<1>2. /\ To(p, "conclude")
      /\ UNCHANGED <<share, mission, announced, index, starts, failed, answered, calls, paid, faults>>
  BY DEF GiveUp, ledger
<1>3. /\ Goes(p, d) /\ call'[p] = d /\ d \in Calls /\ d # Idle /\ d.at = "conclude"
      /\ SameAttempts(c, d) /\ d.failure = c.failure /\ d.rejected = c.rejected
  BY <1>1, <1>2, Moving DEF Places
<1>4. Grows(p) /\ paid' \subseteq Attempts /\ faults' \in 0 .. MaxFaults
  BY <1>2 DEF Grows, TypeOK
<1>5. d.failure = "none" => d.last = NoRoute
  BY <1>1, <1>3 DEF Progress, SameAttempts
<1>6. d.attempts = MaxAttempts \/ d.eligible \subseteq d.rejected
  BY <1>1, <1>3 DEF Exhausted, Viable, SameAttempts
<1>7. Progress(d)
  BY <1>3, <1>5, <1>6 DEF Progress, Current, UnderWay, Admitted
<1>8. Accounted(call[p])'
  BY <1>3, <1>5 DEF Accounted, Current, UnderWay, Admitted
<1>9. Taught(p)'
  BY <1>1, <1>2, <1>3, StaysTaught
<1>10. CallsAreAccounted'
  BY <1>2 DEF CallsAreAccounted
<1>11. QED
  BY <1>2, <1>3, <1>4, <1>7, <1>8, <1>9, <1>10, IndexIsKept, GoingKeepsAll

LEMMA RecordFailureKeepsAll ==
  ASSUME IInv, NEW p \in Callers, RecordFailure(p)
  PROVE  IInv'
<1> USE DEF IInv
<1> DEFINE c == call[p]
           place == AfterFailure(c.failure)
           d == [ c EXCEPT !.at = place ]
           fact == [ request |-> c.request, attempt |-> RouteAttempt(c), route |-> c.last,
                     failure |-> c.failure ]
<1>1. /\ c \in Calls /\ c.at = "failed" /\ Current(c)
      /\ Progress(c) /\ Accounted(c) /\ Taught(p)
  BY DEF RecordFailure, At, CallsAreTyped, CallsGoWell, Current, UnderWay
<1>2. /\ To(p, place)
      /\ failed' = failed \/ failed' = failed \union {fact}
      /\ UNCHANGED <<share, mission, announced, index, starts, answered, calls, paid>>
      /\ faults' \in 0 .. MaxFaults
  BY DEF RecordFailure, TypeOK
<1>3. place \in Places /\ place \in { "conclude", "route" }
  BY DEF AfterFailure, Places
<1>4. /\ Goes(p, d) /\ call'[p] = d /\ d \in Calls /\ d # Idle /\ d.at = place
      /\ SameAttempts(c, d) /\ d.failure = c.failure /\ d.rejected = c.rejected
  <2>1. place # "idle" /\ c.at # "idle"
    BY <1>1, <1>3
  <2> HIDE DEF place
  <2>2. QED  BY <1>1, <1>2, <1>3, <2>1, Moving
<1>5. /\ Holds(p, fact.request, fact.attempt) /\ c.last \in Routes
      /\ c.request \in Requests /\ RouteAttempt(c) \in Nat /\ c.failure \in FailureKinds
  <2>1. c.failure \in FailureKinds /\ c.last \in Routes
    BY <1>1 DEF Progress, Calls
  <2>2. QED  BY <1>1, <2>1, CurrentIsHeld
<1>6. Grows(p) /\ paid' \subseteq Attempts
  BY <1>2, <1>5 DEF Grows, TypeOK
<1>7. Progress(d)
  <2>1. place = "route" => c.failure # "semantic"
    BY DEF AfterFailure
  <2>2. place = "conclude" => c.failure = "semantic"
    BY DEF AfterFailure
  <2> HIDE DEF place
  <2>3. QED
    BY <1>1, <1>3, <1>4, <2>1, <2>2 DEF Progress, Current, UnderWay, Admitted, SameAttempts
<1>8. Accounted(call[p])'
  <2>1. ~Current(d) /\ d.at \in { "conclude", "route" }
    BY <1>1, <1>3, <1>4 DEF Current, UnderWay, Admitted, Progress
  <2>2. QED  BY <1>4, <2>1 DEF Accounted, Current, UnderWay, Admitted
<1>9. Taught(p)'
  <2>1. Hopeless(c.failure) => c.last \in c.rejected
    BY <1>1 DEF Hopeless, Progress, Retryable
  <2>2. ASSUME NEW f \in failed', Holds(p, f.request, f.attempt)', Hopeless(f.failure)
        PROVE  f.route \in d.rejected
    <3>1. CASE f = fact
      BY <1>4, <2>1, <2>2, <3>1
    <3>2. CASE f \in failed
      <4>1. f.request \in Requests /\ f.attempt \in Nat
        BY <3>2 DEF TypeOK
      <4>2. Holds(p, f.request, f.attempt)
        BY <1>4, <2>2, <4>1, GoingHoldsNoMore
      <4>3. QED  BY <1>1, <1>4, <2>2, <3>2, <4>2 DEF Taught
    <3>3. QED  BY <1>2, <3>1, <3>2
  <2>3. QED  BY <1>4, <2>2 DEF Taught
<1>10. CallsAreAccounted'
  BY <1>2 DEF CallsAreAccounted
<1>11. d.at # "record"
  BY <1>3, <1>4
<1>12. QED
  BY <1>2, <1>4, <1>6, <1>7, <1>8, <1>9, <1>10, <1>11, IndexIsKept, GoingKeepsAll

\* The record of a call is well formed.
LEMMA OutcomeIsTyped ==
  ASSUME NEW c \in Calls
  PROVE  Outcome(c) \in Outcomes /\ Outcome(c) # NoOutcome
  BY DEF Outcome, Outcomes, Calls

LEMMA ConcludeKeepsAll ==
  ASSUME IInv, NEW p \in Callers, Conclude(p)
  PROVE  IInv'
<1> USE DEF IInv
<1> DEFINE c == call[p]
           r == c.request
           d == [ c EXCEPT !.at = "record" ]
<1>1. /\ c \in Calls /\ c.at = "conclude" /\ Progress(c) /\ Accounted(c) /\ Taught(p)
  BY DEF Conclude, At, CallsAreTyped, CallsGoWell
<1>2. UNCHANGED <<share, mission, announced, index, starts, failed, calls, paid, faults>>
  BY DEF Conclude, ledger
<1>3. faults' \in 0 .. MaxFaults
  BY <1>2 DEF TypeOK
<1>4. CASE Concluded(r)
  <2>1. Leave(p) /\ answered' = answered
    BY <1>4 DEF Conclude
  <2>2. QED  BY <1>2, <1>3, <2>1, IndexIsKept, LeavingKeepsAll
<1>5. CASE ~Concluded(r)
  <2>1. /\ To(p, "record") /\ answered' = [ answered EXCEPT ![r] = Outcome(c) ]
        /\ answered[r] = NoOutcome /\ r \in Requests
    BY <1>1, <1>5 DEF Conclude, Concluded, Calls
  <2>2. /\ Goes(p, d) /\ call'[p] = d /\ d \in Calls /\ d # Idle /\ d.at = "record"
        /\ SameAttempts(c, d) /\ d.failure = c.failure /\ d.rejected = c.rejected
    BY <1>1, <2>1, Moving DEF Places
  <2>3. Grows(p)
    BY <1>2 DEF Grows, TypeOK
  <2>4. TypeOK' /\ CallsAreTyped'
    <3>1. answered' \in [ Requests -> Outcomes \union {NoOutcome} ]
      BY <1>1, <2>1, OutcomeIsTyped DEF TypeOK
    <3>2. CallsAreTyped' /\ call' \in [ Callers -> Calls \union {Idle} ]
      BY <2>2, GoingHoldsNoMore DEF CallsAreTyped
    <3>3. QED  BY <1>2, <1>3, <3>1, <3>2, IndexIsKept DEF TypeOK
  <2>5. Finite' /\ Ownership'
    BY <1>2, <2>2, <2>3, GoingKeepsOwnership, IndexIsKept
  <2>6. Progress(call[p])'
    BY <1>1, <2>2 DEF Progress, Current, UnderWay, Admitted, SameAttempts
  <2>7. Accounted(call[p])'
    BY <1>1, <1>2, <2>2
    DEF Accounted, Current, UnderWay, Admitted, SameAttempts, Attempt, RouteAttempt
  <2>8. Taught(p)'
    BY <1>1, <1>2, <2>2, StaysTaught
  <2>9. CallsGoWell'
    BY <2>2, <2>3, <2>6, <2>7, <2>8, GoingLeavesOthers DEF CallsGoWell
  <2>10. CallsAreAccounted'
    BY <1>2 DEF CallsAreAccounted
  <2>11. OutcomeIsBacked'
    <3>1. calls[r] = NoOutcome
      BY <2>1 DEF OutcomesAreTrue, OutcomeIsBacked
    <3>2. \A s \in Requests \ {r} : answered'[s] = answered[s]
      BY <2>1 DEF TypeOK
    <3>3. QED  BY <1>2, <3>1, <3>2 DEF OutcomesAreTrue, OutcomeIsBacked
  <2>12. \A q \in Callers : call'[q].at = "record" =>
           answered'[call'[q].request] = Outcome(call'[q])
    <3>1. TAKE q \in Callers
    <3>2. CASE q = p
      <4>1. Outcome(d) = Outcome(c) /\ d.request = r
        BY <2>2 DEF Outcome, SameAttempts
      <4>2. answered'[r] = Outcome(c)
        BY <2>1 DEF TypeOK
      <4>3. QED  BY <2>2, <3>2, <4>1, <4>2
    <3>3. CASE q # p
      <4>1. call'[q] = call[q]
        BY <2>2, <3>3, GoingHoldsNoMore
      <4>2. ASSUME call[q].at = "record"
            PROVE  call[q].request \in Requests \ {r}
        <5>1. call[q] \in Calls /\ answered[call[q].request] = Outcome(call[q])
          BY <4>2 DEF CallsAreTyped, OutcomesAreTrue
        <5>2. answered[call[q].request] # NoOutcome
          BY <5>1, OutcomeIsTyped
        <5>3. QED  BY <2>1, <5>1, <5>2 DEF Calls
      <4>3. QED  BY <2>1, <4>1, <4>2 DEF OutcomesAreTrue, TypeOK
    <3>4. QED  BY <3>2, <3>3
  <2>13. \A a \in Attempts : Settled(a) => Settled(a)'
    BY <2>2, <2>3, GoingKeepsSettled
  <2>14. OutcomesAreTrue'
    BY <1>2, <2>11, <2>12, <2>13 DEF OutcomesAreTrue
  <2>15. QED  BY <2>4, <2>5, <2>9, <2>10, <2>14
<1>6. QED  BY <1>4, <1>5

LEMMA RecordKeepsAll ==
  ASSUME IInv, NEW p \in Callers, Record(p)
  PROVE  IInv'
<1> USE DEF IInv
<1> DEFINE c == call[p]
           r == c.request
<1>1. /\ c \in Calls /\ c.at = "record" /\ Progress(c) /\ Accounted(c)
      /\ r \in Requests /\ answered[r] = Outcome(c)
  BY DEF Record, At, CallsAreTyped, CallsGoWell, OutcomesAreTrue, Calls
<1>2. /\ Leave(p)
      /\ UNCHANGED <<share, mission, announced, index, starts, failed, answered, paid, faults>>
      /\ calls' = calls \/ calls' = [ calls EXCEPT ![r] = Outcome(c) ]
  BY DEF Record
<1>3. CASE calls' = calls
  <2>1. faults' \in 0 .. MaxFaults
    BY <1>2 DEF TypeOK
  <2>2. QED  BY <1>2, <1>3, <2>1, IndexIsKept, LeavingKeepsAll
<1>4. CASE calls' = [ calls EXCEPT ![r] = Outcome(c) ]
  <2>1. Goes(p, Idle) /\ Grows(p)
    BY <1>2 DEF Leave, Goes, Grows, TypeOK
  <2>2. call'[p] = Idle /\ \A q \in Callers \ {p} : call'[q] = call[q]
    BY <2>1, GoingHoldsNoMore
  <2>3. TypeOK' /\ CallsAreTyped'
    <3>1. calls' \in [ Requests -> Outcomes \union {NoOutcome} ]
      BY <1>1, <1>4, OutcomeIsTyped DEF TypeOK
    <3>2. CallsAreTyped' /\ call' \in [ Callers -> Calls \union {Idle} ]
      BY <2>1, GoingHoldsNoMore DEF CallsAreTyped
    <3>3. QED  BY <1>2, <3>1, <3>2, IndexIsKept DEF TypeOK
  <2>4. Finite' /\ Ownership' /\ CallsAreAccounted'
    BY <1>2, <2>1, GoingKeepsOwnership, IndexIsKept DEF CallsAreAccounted
  <2>5. Progress(call[p])' /\ Accounted(call[p])' /\ Taught(p)'
    BY <2>2 DEF Idle, Progress, Accounted, Taught, Current, UnderWay, Admitted, Holds
  <2>6. CallsGoWell'
    BY <2>1, <2>5, GoingLeavesOthers DEF CallsGoWell
  <2>7. OutcomeIsBacked'
    <3>1. calls'[r] = answered'[r] /\ \A s \in Requests \ {r} : calls'[s] = calls[s]
      BY <1>1, <1>2, <1>4 DEF TypeOK
    <3>2. QED  BY <1>2, <3>1 DEF OutcomesAreTrue, OutcomeIsBacked
  <2>8. \A q \in Callers : call'[q].at = "record" =>
          answered'[call'[q].request] = Outcome(call'[q])
    <3>1. TAKE q \in Callers
    <3>2. CASE q = p
      BY <2>2, <3>2, IdleIsIdle
    <3>3. CASE q # p
      BY <1>2, <2>2, <3>3 DEF OutcomesAreTrue
    <3>4. QED  BY <3>2, <3>3
  <2>9. \A a \in Attempts : Settled(a) => Settled(a)'
    BY <2>1, GoingKeepsSettled
  <2>10. ASSUME Outcome(c).status = "SUCCEEDED", Outcome(c).route # NoRoute
         PROVE  \E a \in Attempts : a.request = r /\ a.route = Outcome(c).route /\ Settled(a)'
    <3>1. Admitted(c) /\ Current(c) /\ Outcome(c).route = c.last
      BY <1>1, <2>10 DEF Outcome, Admitted, Current
    <3>2. PICK a \in Attempts : a = Attempt(c)
      BY <1>1, <3>1 DEF Accounted, TypeOK
    <3>3. a \in paid /\ a.request = r /\ a.attempt = RouteAttempt(c) /\ a.route = c.last
      BY <1>1, <3>1, <3>2 DEF Accounted, Attempt
    <3>4. Holds(p, a.request, a.attempt) /\ a.request \in Requests /\ a.attempt \in Nat
      BY <3>1, <3>3, CurrentIsHeld
    <3>5. \A q \in Callers : ~Holds(q, a.request, a.attempt)'
      <4>1. TAKE q \in Callers
      <4>2. CASE q = p
        BY <2>2, <4>2, IdleIsIdle DEF Holds
      <4>3. CASE q # p
        BY <2>2, <3>4, <4>3 DEF Ownership, Holds, RouteAttempt
      <4>4. QED  BY <4>2, <4>3
    <3>6. \A f \in failed : ~(f.request = a.request /\ f.attempt = a.attempt)
      BY <1>1, <3>1, <3>3 DEF Accounted
    <3>7. Settled(a)'
      BY <1>2, <3>3, <3>5, <3>6 DEF Settled
    <3>8. QED  BY <3>1, <3>3, <3>7
  <2>11. OutcomesAreTrue'
    <3>1. calls'[r] = Outcome(c) /\ \A s \in Requests \ {r} : calls'[s] = calls[s]
      BY <1>1, <1>4 DEF TypeOK
    <3>2. ASSUME NEW s \in Requests, calls'[s] # NoOutcome, calls'[s].status = "SUCCEEDED",
                 calls'[s].route # NoRoute
          PROVE  \E a \in Attempts : a.request = s /\ a.route = calls'[s].route /\ Settled(a)'
      <4>1. CASE s = r
        BY <2>10, <3>1, <3>2, <4>1
      <4>2. CASE s # r
        BY <2>9, <3>1, <3>2, <4>2 DEF OutcomesAreTrue
      <4>3. QED  BY <4>1, <4>2
    <3>3. QED  BY <2>7, <2>8, <3>2 DEF OutcomesAreTrue
  <2>12. QED  BY <2>3, <2>4, <2>6, <2>11
<1>5. QED  BY <1>2, <1>3, <1>4

LEMMA FaultKeepsAll ==
  ASSUME IInv, NEW p \in Callers, Fail(p) \/ Die(p)
  PROVE  IInv'
<1> USE DEF IInv
<1>1. /\ Leave(p) /\ faults < MaxFaults /\ faults' = faults + 1
      /\ UNCHANGED <<share, mission, announced, starts, failed, answered, calls, paid>>
      /\ index' = index \/ index' = [ index EXCEPT ![p] = Unbuilt ]
  BY DEF Fail, Die, ledger
<1>2. faults' \in 0 .. MaxFaults
  BY <1>1 DEF TypeOK
<1>3. index' \in [ Callers -> [ built : BOOLEAN, knows : SUBSET (Requests \X Nat) ] ]
  <2>1. Unbuilt \in [ built : BOOLEAN, knows : SUBSET (Requests \X Nat) ]
    BY DEF Unbuilt
  <2> HIDE DEF Unbuilt
  <2>2. QED  BY <1>1, <2>1 DEF TypeOK
<1>4. Finite'
  <2>1. \A q \in Callers : index'[q].knows = index[q].knows \/ index'[q].knows = {}
    BY <1>1 DEF TypeOK, Unbuilt
  <2>2. QED  BY <1>1, <2>1, FS_EmptySet DEF Finite
<1>5. QED  BY <1>1, <1>2, <1>3, <1>4, LeavingKeepsAll

\* A step that touches neither the calls nor the stores.
LEMMA StandingKeepsAll ==
  ASSUME IInv, TypeOK', Finite',
         UNCHANGED <<announced, starts, failed, answered, calls, call, paid>>
  PROVE  IInv'
<1> USE DEF IInv
<1>1. CallsAreTyped' /\ CallsAreAccounted'
  BY DEF CallsAreTyped, CallsAreAccounted
<1>2. \A q \in Callers : \A r, n : Holds(q, r, n)' <=> Holds(q, r, n)
  BY DEF Holds, RouteAttempt
<1>3. Ownership'
  BY <1>2 DEF Ownership
<1>4. CallsGoWell'
  BY <1>2 DEF CallsGoWell, Progress, Accounted, Taught, Current, UnderWay, Admitted, Attempt,
              RouteAttempt
<1>5. OutcomesAreTrue'
  BY <1>2 DEF OutcomesAreTrue, OutcomeIsBacked, Settled, Outcome
<1>6. QED  BY <1>1, <1>3, <1>4, <1>5

\* What building an index gives.
LEMMA BuiltIsTyped ==
  ASSUME TypeOK, Finite, NEW p \in Callers
  PROVE  /\ Built(p) \in [ built : BOOLEAN, knows : SUBSET (Requests \X Nat) ]
         /\ IsFiniteSet(Built(p).knows)
  BY DEF Built, TypeOK, Finite

LEMMA IndexKeepsAll ==
  ASSUME IInv, NEW p \in Callers, IndexEvidence(p)
  PROVE  IInv'
<1> USE DEF IInv
<1>1. /\ index' = [ index EXCEPT ![p] = Built(p) ]
      /\ UNCHANGED <<share, mission, announced, starts, failed, answered, calls, call, paid, faults>>
  BY DEF IndexEvidence, ledger
<1>2. TypeOK' /\ Finite'
  <2>1. index' \in [ Callers -> [ built : BOOLEAN, knows : SUBSET (Requests \X Nat) ] ]
    BY <1>1, BuiltIsTyped DEF TypeOK
  <2>2. \A q \in Callers : IsFiniteSet(index'[q].knows)
    BY <1>1, BuiltIsTyped DEF Finite, TypeOK
  <2>3. QED  BY <1>1, <2>1, <2>2 DEF TypeOK, Finite
<1>3. QED  BY <1>1, <1>2, StandingKeepsAll

LEMMA MissionKeepsAll ==
  ASSUME IInv, MissionMoves
  PROVE  IInv'
<1> USE DEF IInv
<1>1. /\ mission' \in MissionStates
      /\ UNCHANGED <<share, announced, index, starts, failed, answered, calls, call, paid, faults>>
  BY DEF MissionMoves, MissionStates, ledger
<1>2. TypeOK' /\ Finite'
  BY <1>1 DEF TypeOK, Finite
<1>3. QED  BY <1>1, <1>2, StandingKeepsAll

\* The routes of a call are among those the router offers.
LEMMA EligibleAreRoutes ==
  ASSUME TypeOK, NEW r \in Requests, NEW offered \in Offers
  PROVE  Eligible(r, offered) \subseteq Routes /\ TimedOut(r) \subseteq Routes
<1>1. offered \subseteq Routes
  OBVIOUS
<1>2. TimedOut(r) \subseteq Routes
  BY DEF TypeOK, TimedOut
<1>3. \A routes, dropped : Unless(routes, dropped) \subseteq routes
  BY DEF Unless
<1>4. QED  BY <1>1, <1>2, <1>3 DEF Eligible

\* What a call starts with is well typed.
LEMMA RequestIsTyped ==
  ASSUME TypeOK, NEW p \in Callers, NEW r \in Requests, NEW offered \in Offers,
         NEW rank \in Rankings, Prior(p, r) \in Nat
  PROVE  Opened(p, r, offered, rank) \in Calls
<1>1. Eligible(r, offered) \subseteq Routes /\ TimedOut(r) \subseteq Routes
  BY EligibleAreRoutes
<1>2. 0 \in 0 .. MaxAttempts
  BY GatewayAssumption
<1>3. QED  BY <1>1, <1>2 DEF Opened, Calls, Places

LEMMA RequestKeepsAll ==
  ASSUME IInv, NEW p \in Callers, NEW r \in Requests, NEW offered \in Offers,
         NEW rank \in Rankings, Request(p, r, offered, rank)
  PROVE  IInv'
<1> USE DEF IInv
<1> DEFINE d == Opened(p, r, offered, rank)
<1>1. /\ call' = [ call EXCEPT ![p] = d ] /\ index' = [ index EXCEPT ![p] = Built(p) ]
      /\ UNCHANGED <<share, mission, announced, starts, failed, answered, calls, paid, faults>>
  BY DEF Request, ledger
<1>2. Prior(p, r) \in Nat
  <2>1. IsFiniteSet({ e \in Built(p).knows : e[1] = r })
    BY BuiltIsTyped, FS_Subset
  <2>2. QED  BY <2>1, FS_CardinalityType DEF Prior
<1>3. /\ d \in Calls /\ d.at = "route" /\ d.attempts = 0 /\ d.failure = "none"
      /\ d.last = NoRoute /\ d.request = r
  BY <1>2, RequestIsTyped DEF Opened
<1> HIDE DEF d
<1>4. Goes(p, d)
  BY <1>1, <1>3 DEF Goes
<1>5. Grows(p) /\ paid' \subseteq Attempts /\ faults' \in 0 .. MaxFaults /\ call'[p] = d
  BY <1>1 DEF Grows, TypeOK
<1>6. Progress(d)
  BY <1>3 DEF Progress, Current, UnderWay, Admitted
<1>7. Accounted(call[p])'
  BY <1>3, <1>5 DEF Accounted, Current, UnderWay, Admitted
<1>8. Taught(p)'
  BY <1>3, <1>5 DEF Taught, Holds, RouteAttempt, Calls
<1>9. CallsAreAccounted'
  BY <1>1 DEF CallsAreAccounted
<1>10. /\ index' \in [ Callers -> [ built : BOOLEAN, knows : SUBSET (Requests \X Nat) ] ]
       /\ Finite'
  <2>1. index' \in [ Callers -> [ built : BOOLEAN, knows : SUBSET (Requests \X Nat) ] ]
    BY <1>1, BuiltIsTyped DEF TypeOK
  <2>2. \A q \in Callers : IsFiniteSet(index'[q].knows)
    BY <1>1, BuiltIsTyped DEF Finite, TypeOK
  <2>3. QED  BY <1>1, <2>1, <2>2 DEF Finite
<1>11. d.at # "record"
  BY <1>3
<1>12. QED
  BY <1>1, <1>4, <1>5, <1>6, <1>7, <1>8, <1>9, <1>10, <1>11, GoingKeepsAll

LEMMA AnnounceKeepsAll ==
  ASSUME IInv, NEW p \in Callers, NEW m \in Routes, Announce(p, m)
  PROVE  IInv'
<1> USE DEF IInv
<1> DEFINE c == call[p]
           d == [ c EXCEPT !.at = "announced", !.attempts = @ + 1, !.last = m,
                           !.tried = @ \union {m} ]
           n == RouteAttempt(d)
           id == <<c.request, n>>
<1>1. /\ c \in Calls /\ c.at = "route" /\ Progress(c) /\ Accounted(c) /\ Taught(p)
      /\ ~Exhausted(c) /\ IsNext(c, m)
  BY DEF Announce, At, CallsAreTyped, CallsGoWell
<1>2. UNCHANGED <<share, mission, starts, failed, answered, calls, paid, faults>>
  BY DEF Announce, ledger
<1>3. CASE Taken(c.request, n)
  <2>1. Leave(p) /\ UNCHANGED <<announced, index>>
    BY <1>3 DEF Announce
  <2>2. faults' \in 0 .. MaxFaults
    BY <1>2 DEF TypeOK
  <2>3. QED  BY <1>2, <2>1, <2>2, IndexIsKept, LeavingKeepsAll
<1>4. CASE ~Taken(c.request, n)
  <2>1. /\ announced' = announced \union {id} /\ id \notin announced
        /\ index' = [ index EXCEPT ![p].knows = @ \union {id} ]
        /\ call' = [ call EXCEPT ![p] = d ]
    BY <1>4 DEF Announce, Taken
  <2>2. c.attempts < MaxAttempts
    BY <1>1 DEF Exhausted, Calls
  <2>3. /\ d \in Calls /\ d.at = "announced" /\ d.request = c.request /\ d.prior = c.prior
        /\ d.attempts = c.attempts + 1 /\ d.last = m /\ d.rejected = c.rejected
        /\ d.failure = c.failure /\ d.eligible = c.eligible
        /\ n = RouteAttempt(c) + 1 /\ n \in Nat /\ c.request \in Requests
    <3>1. /\ d.at = "announced" /\ d.request = c.request /\ d.prior = c.prior
          /\ d.attempts = c.attempts + 1 /\ d.last = m /\ d.rejected = c.rejected
          /\ d.failure = c.failure /\ d.eligible = c.eligible
      BY <1>1 DEF Calls
    <3>2. c.attempts + 1 \in 0 .. MaxAttempts /\ c.tried \union {m} \subseteq Routes
      BY <1>1, <2>2, GatewayAssumption DEF Calls
    <3>3. d \in Calls
      BY <1>1, <3>2 DEF Calls, Places
    <3>4. c.prior \in Nat /\ c.attempts \in Nat /\ c.request \in Requests
      BY <1>1 DEF Calls
    <3>5. n = RouteAttempt(c) + 1 /\ n \in Nat
      BY <3>1, <3>4 DEF RouteAttempt
    <3>6. QED  BY <3>1, <3>3, <3>4, <3>5
  <2>4. call'[p] = d /\ \A q \in Callers \ {p} : call'[q] = call[q]
    BY <2>1 DEF TypeOK
  <2> HIDE DEF d, n, id
  <2>5. \A q \in Callers, r \in Requests, k \in Nat :
          Holds(q, r, k)' => Holds(q, r, k) \/ (q = p /\ r = c.request /\ k = n)
    <3>1. TAKE q \in Callers, r \in Requests, k \in Nat
    <3>2. CASE q # p
      BY <2>4, <3>2 DEF Holds, RouteAttempt
    <3>3. CASE q = p
      BY <1>1, <2>3, <2>4, <3>3 DEF Holds, RouteAttempt, Calls
    <3>4. QED  BY <3>2, <3>3
  <2>6. TypeOK' /\ CallsAreTyped'
    <3>1. id \in Requests \X Nat
      BY <2>3 DEF id
    <3>2. index' \in [ Callers -> [ built : BOOLEAN, knows : SUBSET (Requests \X Nat) ] ]
      BY <2>1, <3>1 DEF TypeOK
    <3>3. call' \in [ Callers -> Calls \union {Idle} ]
      BY <2>1, <2>3 DEF TypeOK
    <3>4. QED  BY <1>2, <2>1, <2>3, <2>4, <3>1, <3>2, <3>3 DEF TypeOK, CallsAreTyped
  <2>7. Finite'
    <3>1. IsFiniteSet(announced')
      BY <2>1, FS_AddElement DEF Finite
    <3>2. \A q \in Callers : index'[q].knows = index[q].knows
                             \/ index'[q].knows = index[q].knows \union {id}
      BY <2>1 DEF TypeOK
    <3>3. \A q \in Callers : IsFiniteSet(index'[q].knows)
      <4>1. TAKE q \in Callers
      <4>2. IsFiniteSet(index[q].knows)
        BY DEF Finite
      <4>3. IsFiniteSet(index[q].knows \union {id})
        BY <4>2, FS_AddElement
      <4>4. QED  BY <3>2, <4>2, <4>3
    <3>4. QED  BY <3>1, <3>3 DEF Finite
  <2>8. Ownership'
    <3>1. \A q \in Callers, r \in Requests, k \in Nat : Holds(q, r, k)' => <<r, k>> \in announced'
      BY <2>1, <2>5 DEF Ownership, id
    <3>2. \A q \in Callers : ~Holds(q, c.request, n)
      BY <2>1, <2>3 DEF Ownership, id
    <3>3. ASSUME NEW q \in Callers, NEW t \in Callers, NEW r \in Requests, NEW k \in Nat,
                 Holds(q, r, k)', Holds(t, r, k)'
          PROVE  q = t
      BY <2>5, <3>2, <3>3 DEF Ownership
    <3>4. QED  BY <1>2, <2>1, <3>1, <3>3 DEF Ownership
  <2>9. CallsAreAccounted'
    BY <1>2 DEF CallsAreAccounted
  <2>10. m \notin c.rejected
    BY <1>1 DEF IsNext, Repeats, OfTheOutput, Progress, IsFirst, IsNth, Untried, Viable
  <2>11. Progress(call[p])'
    <3>1. Progress(d)
      BY <1>1, <2>3, <2>10 DEF Progress, Current, UnderWay, Admitted, Calls
    <3>2. QED  BY <2>4, <3>1 DEF Progress, Current, UnderWay, Admitted
  <2>12. Accounted(call[p])'
    <3>1. \A s \in starts : ~(s.request = c.request /\ s.attempt = n)
      BY <2>1 DEF Ownership, id
    <3>2. \A f \in failed : ~(f.request = c.request /\ f.attempt = n)
      BY <2>1 DEF Ownership, id
    <3>3. RouteAttempt(d) = n /\ d.at = "announced" /\ d.request = c.request
      BY <2>3 DEF n
    <3>4. QED  BY <1>2, <2>4, <3>1, <3>2, <3>3
               DEF Accounted, Admitted, Current, UnderWay, RouteAttempt
  <2>13. Taught(p)'
    <3>1. ASSUME NEW f \in failed', Holds(p, f.request, f.attempt)', Hopeless(f.failure)
          PROVE  f.route \in d.rejected
      <4>1. f \in failed /\ f.request \in Requests /\ f.attempt \in Nat
        BY <1>2 DEF TypeOK
      <4>2. <<f.request, f.attempt>> \in announced
        BY <4>1 DEF Ownership
      <4>3. Holds(p, f.request, f.attempt)
        BY <2>1, <2>5, <3>1, <4>1, <4>2 DEF id
      <4>4. QED  BY <1>1, <2>3, <3>1, <4>1, <4>3 DEF Taught
    <3>2. QED  BY <2>4, <3>1 DEF Taught
  <2>14. ASSUME NEW q \in Callers \ {p}
         PROVE  Progress(call[q])' /\ Accounted(call[q])' /\ Taught(q)'
    <3>1. call'[q] = call[q] /\ Progress(call[q]) /\ Accounted(call[q]) /\ Taught(q)
      BY <2>4 DEF CallsGoWell
    <3>2. QED  BY <1>2, <3>1 DEF Progress, Accounted, Taught, Current, UnderWay, Admitted,
                                  Attempt, RouteAttempt, Holds
  <2>15. CallsGoWell'
    BY <2>11, <2>12, <2>13, <2>14 DEF CallsGoWell
  <2>16. OutcomesAreTrue'
    <3>1. OutcomeIsBacked'
      BY <1>2 DEF OutcomesAreTrue, OutcomeIsBacked
    <3>2. \A q \in Callers : call'[q].at = "record" =>
            answered'[call'[q].request] = Outcome(call'[q])
      <4>1. TAKE q \in Callers
      <4>2. CASE q = p
        BY <2>3, <2>4, <4>2
      <4>3. CASE q # p
        BY <1>2, <2>4, <4>3 DEF OutcomesAreTrue
      <4>4. QED  BY <4>2, <4>3
    <3>3. ASSUME NEW a \in Attempts, Settled(a)
          PROVE  Settled(a)'
      <4>1. a \in starts /\ a.request \in Requests /\ a.attempt \in Nat
        BY <3>3 DEF Settled, CallsAreAccounted, Attempts
      <4>2. <<a.request, a.attempt>> \in announced
        BY <4>1 DEF Ownership
      <4>3. \A q \in Callers : ~Holds(q, a.request, a.attempt)'
        BY <2>1, <2>5, <3>3, <4>1, <4>2 DEF Settled, id
      <4>4. QED  BY <1>2, <3>3, <4>3 DEF Settled
    <3>4. QED  BY <1>2, <3>1, <3>2, <3>3 DEF OutcomesAreTrue
  <2>17. QED  BY <2>6, <2>7, <2>8, <2>9, <2>15, <2>16
<1>5. QED  BY <1>3, <1>4

-------------------------------------------------------------------------------
(* The theorems.                                                           *)

LEMMA InitEstablishes == Init => IInv
<1> SUFFICES ASSUME Init PROVE IInv
  OBVIOUS
<1>1. TypeOK /\ CallsAreTyped
  BY IdleIsIdle DEF Init, TypeOK, MissionStates, Unbuilt, CallsAreTyped
<1>2. Finite
  BY FS_EmptySet DEF Init, Finite, Unbuilt
<1>3. Ownership /\ CallsAreAccounted
  BY IdleIsIdle DEF Init, Ownership, Holds, CallsAreAccounted
<1>4. CallsGoWell
  BY DEF Init, Idle, CallsGoWell, Progress, Accounted, Taught, Current, UnderWay, Admitted
<1>5. OutcomesAreTrue
  BY IdleIsIdle DEF Init, OutcomesAreTrue, OutcomeIsBacked
<1>6. QED  BY <1>1, <1>2, <1>3, <1>4, <1>5 DEF IInv

LEMMA StepKeepsAll == IInv /\ [Next]_vars => IInv'
<1> SUFFICES ASSUME IInv, [Next]_vars PROVE IInv'
  OBVIOUS
<1>1. ASSUME NEW p \in Callers, NEW offered \in Offers, NEW rank \in Rankings,
             NEW r \in share[p], Request(p, r, offered, rank)
      PROVE  IInv'
  <2>1. r \in Requests
    BY DEF IInv, TypeOK
  <2>2. QED  BY <1>1, <2>1, RequestKeepsAll
<1>2. ASSUME NEW p \in Callers, Step(p)
      PROVE  IInv'
  BY <1>2, IndexKeepsAll, AnnounceKeepsAll, StartFactKeepsAll, DispatchKeepsAll,
     AnswerKeepsAll, RefuseKeepsAll, RecordFailureKeepsAll, GiveUpKeepsAll,
     ConcludeKeepsAll, RecordKeepsAll, FaultKeepsAll DEF Step
<1>3. CASE UNCHANGED vars
  <2>1. TypeOK' /\ Finite'
    BY <1>3 DEF IInv, TypeOK, Finite, vars, ledger
  <2>2. QED  BY <1>3, <2>1, StandingKeepsAll DEF vars, ledger
<1>4. QED  BY <1>1, <1>2, <1>3, MissionKeepsAll DEF Next

\* Everything the proofs rest on, in every reachable state.
THEOREM GatewayIsInvariant == Spec => []IInv
  BY InitEstablishes, StepKeepsAll, PTL DEF Spec

\* The state of the gateway is well formed.
THEOREM GatewayTypes == Spec => []TypeOK
<1>1. IInv => TypeOK
  BY DEF IInv
<1>2. QED  BY <1>1, GatewayIsInvariant, PTL

\* The Ledger knows of every call that a provider has received, and tells any
\* two apart (recordResultFact before generate, model-gateway.js:1014-1049).
THEOREM SpendingIsAccounted == Spec => []CallsAreAccounted
<1>1. IInv => CallsAreAccounted
  BY DEF IInv
<1>2. QED  BY <1>1, GatewayIsInvariant, PTL

\* What the Ledger records as the outcome of a call is what its evidence
\* shows, however many processes made it.
THEOREM RecordsAreBacked == Spec => []OutcomeIsBacked
<1>1. IInv => OutcomeIsBacked
  BY DEF IInv, OutcomesAreTrue
<1>2. QED  BY <1>1, GatewayIsInvariant, PTL

\* A success was answered by the route it names.
THEOREM SuccessesWereAnswered == Spec => []SuccessWasAnswered
<1>1. IInv => SuccessWasAnswered
  BY DEF IInv, OutcomesAreTrue, SuccessWasAnswered, Settled
<1>2. QED  BY <1>1, GatewayIsInvariant, PTL

\* No attempt is spent on a model that has told the same request that it will
\* not serve it (inFlightRejectedModelIds).
THEOREM AttemptsHaveHope == Spec => []NoHopelessAttempt
<1>1. IInv => NoHopelessAttempt
  <2> SUFFICES ASSUME IInv, NEW p \in Callers, NEW f \in failed,
                      call[p].at = "dispatch", f.request = call[p].request,
                      f.attempt \in call[p].prior + 1 .. RouteAttempt(call[p]) - 1,
                      f.failure \in { "unavailable", "unauthorized" }
               PROVE  f.route # call[p].last
    BY DEF NoHopelessAttempt
  <2>1. /\ call[p] \in Calls /\ Taught(p) /\ call[p].last \notin call[p].rejected
        /\ f.attempt \in Nat
    BY DEF IInv, CallsAreTyped, CallsGoWell, Progress, TypeOK
  <2>2. Holds(p, f.request, f.attempt)
    BY <2>1 DEF Holds, RouteAttempt, Calls
  <2>3. QED  BY <2>1, <2>2 DEF Taught, Hopeless
<1>2. QED  BY <1>1, GatewayIsInvariant, PTL

\* A request gives up only when its attempts or its routes are used up.
THEOREM FailuresAreEarned == Spec => []FailureIsEarned
<1>1. IInv => FailureIsEarned
  BY DEF IInv, CallsGoWell, Progress, FailureIsEarned
<1>2. QED  BY <1>1, GatewayIsInvariant, PTL

===============================================================================
