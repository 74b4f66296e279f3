---------------------------- MODULE ProductionProofs ----------------------------
(***************************************************************************)
(* Proofs about execute(), for any pipeline, budgets and numbers of        *)
(* attempts, rounds and deaths.                                            *)
(*                                                                         *)
(* Four invariants, each inductive over those before it:                   *)
(*                                                                         *)
(* - Typed says where a worker may stand (Stands): by a procedure of the   *)
(*   pipeline, by a call that was bought, by a check that was recorded.    *)
(*   Numbers of previews are never used twice, so no check is taken for    *)
(*   one that an earlier worker made (CheckIsNew).                         *)
(* - DeliveryIInv says what the tree is at each place.  Checks start from a*)
(*   tree without data unless one was cut short (ChecksAreClean), and leave*)
(*   the source alone; what a check left is there only on the way to the   *)
(*   next preview, and only until its checkpoint is restored (TreeIsClean);*)
(*   and whoever corrects, finishes or certifies stands on the tree its    *)
(*   observation was made of (Watched).                                    *)
(* - ServedIInv says what the build is, in a first worker that took no     *)
(*   correction back (Served): none before the last procedure, then that of*)
(*   the tree, or of the tree of the last check while a correction of it is*)
(*   built.  No unit of such a worker is found done or begun (Fresh).      *)
(* - RepairsAreBudgeted is inductive as it stands: what was bought can be  *)
(*   counted, and a purchase is refused when the count has reached its     *)
(*   budget, whichever workers made it.                                    *)
(*                                                                         *)
(* The lemma of an action says that it keeps the types, and beside that    *)
(* what the second invariant needs of it: that it is on the way to a       *)
(* preview (Preparing), returns to one (Returning), or what else it does.  *)
(***************************************************************************)
EXTENDS Production, FiniteSetTheorems, WellFoundedInduction, TLAPS

-------------------------------------------------------------------------------

(* What a worker, a recorded call and a recorded check are.                *)

Seen   == [ parsed : BOOLEAN, failed : Nat, aspects : Nat, errors : BOOLEAN ]
Locals == [ pc : Places, next : { "down", "launch", "choose" },
            goal : { "observe", "certify" }, target : Nat, seq : Nat,
            stage : Nat \ {0}, try : Nat, round : Nat,
            class : { "none", "browser", "design" }, rejected : Nat, call : Nat,
            browser : Nat, seen : Seen, clean : BOOLEAN, passing : BOOLEAN,
            previous : Int, stalled : Nat, over : Nat, design : BOOLEAN,
            undone : BOOLEAN ]
Calls  == [ class : Classes, kind : Kinds, form : { "patch", "files" }, on : Contents ]
Checks == [ pre : TreeType, post : TreeType, served : Contents ]

\* Corrections of the browser loop are chosen at this place, or once a build is made.
Choosing(q) == \/ q.pc = "choose"
               \/ q.pc = "rebuild" /\ q.next = "choose"

\* The worker goes by what is recorded: by a procedure of the pipeline, a call that was
\* bought, a check that was made.
Stands(q) ==
  /\ q \in Locals
  /\ q.browser <= Len(checks) /\ q.over <= Len(checks) /\ q.call <= Len(bought)
  /\ q.pc \in { "procedure", "diagnose", "mend" } => q.stage <= Len(Pipeline)
  /\ q.pc \in { "mend", "repair" } => q.call # 0
  /\ (\/ q.pc \in { "judge", "repair", "rescope", "rollback", "finish" }
      \/ Choosing(q) \/ q.goal = "certify") => q.browser # 0
  /\ (Choosing(q) \/ q.pc = "repair") => q.class # "none"
  /\ q.pc = "rebuild" => q.next # "down"
  /\ q.goal = "certify" => q.pc \in { "launch", "rebuild", "certify", "down" } /\ ~Choosing(q)

\* A recorded unit is a known one, and of no check that is still to be made.
Recorded(unit) ==
  /\ StepOK(unit.step)
  /\ unit.step.procedure = "browserVerification" =>
       /\ unit.step.n \in 0..starts
       /\ p.pc = "observe" => unit.step.n # starts

UnitsAreRecorded ==
  /\ \A u \in units : Recorded(u) /\ u.status \in Results
  /\ \A b \in begun : Recorded(b)

\* Where the types come from: the invariant of the proofs.
Typed ==
  /\ mission \in { "EXECUTING", "VERIFYING", "EXHAUSTED", "FAILED" }
  /\ policy \in Policies /\ faults \in 0..MaxFaults /\ starts \in Nat
  /\ tree \in TreeType /\ built \in Contents
  /\ preview.checkpoint \in TreeType /\ preview.serves \in Contents
  /\ checks \in Seq(Checks) /\ bought \in Seq(Calls)
  /\ rejected \in [Capped -> Nat] /\ isolated \subseteq DOMAIN checks
  /\ Stands(p) /\ UnitsAreRecorded
  /\ mission = "EXECUTING" /\ p.pc = "down" => p.goal = "observe"

-------------------------------------------------------------------------------
(* What a work unit leaves, wherever it is interrupted.                    *)

Dying    == Death /\ UNCHANGED checks
Throwing == Throw /\ UNCHANGED <<fixed, checks>>
Ending(then) == \E s \in Results : Enters(then[s]) /\ UNCHANGED <<fixed, checks>>

\* The records of a step are added to, and those of no other are taken away.
Records(step) ==
  /\ \A u \in units' : u \in units \/ (u.step = step /\ u.status \in Results)
  /\ \A b \in begun' : b \in begun \/ b.step = step
  /\ \A b \in begun : b \in begun' \/ b.step = step

\* The tree and the build are those of an effect, or as they were.
Leaves(effects) ==
  \/ UNCHANGED <<tree, built>>
  \/ \E e \in effects : tree' = e.tree /\ built' = e.built

\* A unit that is executed, or cut short within.
LEMMA ExecutionLeaves ==
  ASSUME NEW request, NEW effects, NEW then, Execute(request, effects, then),
         \A e \in effects : e.status \in Results
  PROVE  /\ Records(request.step) /\ Leaves(effects)
         /\ request.step.procedure # "browserVerification" => Dying \/ Ending(then)
  <1>1. PICK e \in effects :
          \/ /\ tree' = e.tree /\ built' = e.built
             /\ units' = units \union { Outcome(request, e.status, e.tree.app) }
             /\ RecordCheck(request, e.tree)
             /\ begun' = begun \ Interrupted(request.step)
             /\ Enters(then[e.status]) /\ UNCHANGED fixed
          \/ /\ Death
             /\ \/ tree' = e.tree /\ built' = e.built
                \/ UNCHANGED <<tree, built>>
             /\ begun' = IF Interrupted(request.step) = {} THEN begun \union {request} ELSE begun
             /\ UNCHANGED <<units, checks>>
    BY DEF Execute
  <1>2. Records(request.step)
    <2>1. e.status \in Results
      OBVIOUS
    <2>2. \A u \in units' : u \in units \/ (u.step = request.step /\ u.status \in Results)
      BY <1>1, <2>1 DEF Outcome
    <2>3. \A b \in begun' : b \in begun \/ b.step = request.step
      BY <1>1 DEF Interrupted
    <2>4. \A b \in begun : b \in begun' \/ b.step = request.step
      BY <1>1 DEF Interrupted
    <2> QED
      BY <2>2, <2>3, <2>4 DEF Records
  <1> QED
    BY <1>1, <1>2 DEF Leaves, Dying, Ending, RecordCheck

\* A unit that is executed, recovered, refused, or found done.
LEMMA WorkLeaves ==
  ASSUME NEW step, NEW inputs, NEW effects, NEW then, Work(step, inputs, effects, then),
         \A e \in effects : e.status \in Results,
         step.procedure # "browserVerification"
  PROVE  /\ Records(step) /\ Leaves(effects) /\ checks' = checks
         /\ Dying \/ Throwing \/ Ending(then)
         /\ UNCHANGED <<calls, isolated, starts, preview>>
  <1>1. UNCHANGED <<calls, isolated, starts, preview>>
    BY DEF Work
  <1>2. CASE Completed(step, inputs)
    <2>1. Enters(then["SUCCEEDED"]) /\ UNCHANGED <<durable, fixed>>
      BY <1>2 DEF Work
    <2> QED
      BY <1>1, <2>1 DEF Records, Leaves, Ending, Results, durable
  <1>3. CASE ~Completed(step, inputs) /\ Interrupted(step) # {}
    <2> DEFINE before == CHOOSE b \in Interrupted(step) : TRUE
    <2>1. before \in begun /\ before.step = step
      BY <1>3 DEF Interrupted
    <2>2. \/ Throw /\ UNCHANGED <<durable, fixed>>
          \/ /\ units' = units \union { Outcome(before, "INTERRUPTED", tree.app) }
             /\ begun' = begun \ {before}
             /\ Enters(then["INTERRUPTED"])
             /\ UNCHANGED <<tree, built, checks, fixed>>
          \/ Execute(before, effects, then)
      BY <1>3 DEF Work, Recover
    <2> HIDE DEF before
    <2>3. CASE Throw /\ UNCHANGED <<durable, fixed>>
      BY <1>1, <2>3 DEF Records, Leaves, Throwing, durable
    <2>4. CASE /\ units' = units \union { Outcome(before, "INTERRUPTED", tree.app) }
               /\ begun' = begun \ {before}
               /\ Enters(then["INTERRUPTED"])
               /\ UNCHANGED <<tree, built, checks, fixed>>
      BY <1>1, <2>1, <2>4 DEF Records, Leaves, Ending, Outcome, Results
    <2>5. CASE Execute(before, effects, then)
      BY <1>1, <2>1, <2>5, ExecutionLeaves DEF Dying, Ending
    <2> QED
      BY <2>2, <2>3, <2>4, <2>5
  <1>4. CASE ~Completed(step, inputs) /\ Interrupted(step) = {}
    <2> DEFINE request == Request(step, inputs)
    <2>1. Execute(request, effects, then) /\ request.step = step
      BY <1>4 DEF Work, Request
    <2> HIDE DEF request
    <2> QED
      BY <1>1, <2>1, ExecutionLeaves DEF Dying, Ending
  <1> QED
    BY <1>2, <1>3, <1>4

\* What a work unit that is no check of the browser leaves alone.
Keeps ==
  /\ UNCHANGED <<policy, isolated, starts, preview, checks, bought, rejected>>
  /\ CheckWasCutShort => CheckWasCutShort'

\* The worker is gone, or where the outcome leads.
Goes(then) ==
  \/ p' = Worker /\ mission' \in { "EXECUTING", "FAILED" }
  \/ \E s \in Results : mission' = "EXECUTING" /\ p' = then[s].p

\* A command keeps the source; what it builds is a build of it, or none.
LEMMA CommandLeaves ==
  ASSUME Typed, NEW procedure, Leaves(Effects(procedure))
  PROVE  tree' = tree /\ built' \in Contents
  <1>1. << >> \in Contents /\ built \in Contents /\ tree.app \in Contents
    BY DEF Typed, TreeType, Contents
  <1>2. \A e \in Effects(procedure) : e.tree = tree /\ e.built \in Contents
    BY <1>1 DEF Effects, Effect
  <1> QED
    BY <1>1, <1>2 DEF Leaves

LEMMA CommandStatus ==
  ASSUME NEW procedure
  PROVE  \A e \in Effects(procedure) : e.status \in Results
  BY DEF Effects, Effect, Results

\* A file is written or not: no more.
LEMMA WriteLeaves ==
  ASSUME Typed, NEW kind \in Kinds, NEW content \in Contents, Leaves(WriteEffects(kind, content))
  PROVE  tree' \in TreeType /\ tree'.dirty = tree.dirty /\ built' = built
  BY DEF Leaves, WriteEffects, Effect, Typed, TreeType, Kinds

LEMMA WriteStatus ==
  ASSUME NEW kind, NEW content
  PROVE  \A e \in WriteEffects(kind, content) : e.status \in Results
  BY DEF WriteEffects, Effect, Results

\* A worker that dies, or is done, goes by nothing.
LEMMA NobodyStands ==
  ASSUME Typed, p' = Worker, checks' = checks, bought' \in Seq(Calls)
  PROVE  Stands(p)' /\ p'.pc # "observe" /\ p'.goal = "observe" /\ ~Choosing(p)'
  <1>1. Worker \in Locals
    <2>1. NoObservation \in Seen
      BY DEF NoObservation, Seen
    <2> HIDE DEF NoObservation
    <2> QED
      BY <2>1 DEF Worker, Locals, Places
  <1>2. /\ Worker.pc = "down" /\ Worker.goal = "observe" /\ Worker.browser = 0
        /\ Worker.over = 0 /\ Worker.call = 0
    BY DEF Worker
  <1>3. Len(checks') \in Nat /\ Len(bought') \in Nat
    BY DEF Typed
  <1> QED
    BY <1>1, <1>2, <1>3 DEF Stands, Choosing

\* A work unit that is not a check of the browser leaves the records as they should be.
LEMMA RecordsAreKept ==
  ASSUME UnitsAreRecorded, NEW step, Records(step), StepOK(step),
         step.procedure # "browserVerification", starts' = starts, p'.pc # "observe"
  PROVE  UnitsAreRecorded'
  BY DEF UnitsAreRecorded, Recorded, Records, StepOK

\* A unit that leads on to where a worker can stand, or to an end.
LEMMA WorkIsTyped ==
  ASSUME Typed, NEW step, NEW inputs, NEW effects, NEW then,
         Work(step, inputs, effects, then), \A e \in effects : e.status \in Results,
         StepOK(step), step.procedure # "browserVerification", mission = "EXECUTING",
         tree' \in TreeType, built' \in Contents,
         \A s \in Results :
           \/ then[s].mission = "FAILED" /\ then[s].p = Worker
           \/ /\ then[s].mission = "EXECUTING" /\ Stands(then[s].p)
              /\ then[s].p.pc \notin { "observe", "down" }
  PROVE  Typed' /\ Keeps /\ Goes(then)
  <1>1. /\ Records(step) /\ checks' = checks
        /\ Dying \/ Throwing \/ Ending(then)
        /\ UNCHANGED <<calls, isolated, starts, preview>>
    BY WorkLeaves
  <1>2. policy' = policy /\ faults' \in 0..MaxFaults
    BY <1>1, ProductionAssumption DEF Dying, Throwing, Ending, Death, fixed, Typed
  <1>3. \/ p' = Worker /\ mission' \in { mission, "FAILED" }
        \/ \E s \in Results : Enters(then[s])
    BY <1>1 DEF Dying, Throwing, Ending, Death, Throw, Enters, Over
  <1>4. /\ Stands(p)' /\ p'.pc # "observe" /\ (p'.pc = "down" => p'.goal = "observe")
        /\ mission' \in { mission, "EXECUTING", "FAILED" }
        /\ Goes(then)
    <2>1. CASE p' = Worker /\ mission' \in { mission, "FAILED" }
      BY <1>1, <2>1, NobodyStands DEF Typed, calls, Goes
    <2>2. CASE \E s \in Results : Enters(then[s])
      <3>1. PICK s \in Results : p' = then[s].p /\ mission' = then[s].mission
        BY <2>2 DEF Enters
      <3>2. CASE then[s].mission = "FAILED" /\ then[s].p = Worker
        BY <1>1, <3>1, <3>2, NobodyStands DEF Typed, calls, Goes
      <3>3. CASE /\ then[s].mission = "EXECUTING" /\ Stands(then[s].p)
                 /\ then[s].p.pc \notin { "observe", "down" }
        <4>1. Stands(p)'
          BY <1>1, <3>1, <3>3 DEF Stands, Choosing, calls
        <4> QED
          BY <3>1, <3>3, <4>1 DEF Goes
      <3> QED
        BY <3>1, <3>2, <3>3
    <2> QED
      BY <1>3, <2>1, <2>2
  <1>5. CheckWasCutShort => CheckWasCutShort'
    BY <1>1 DEF CheckWasCutShort, Records
  <1>6. UnitsAreRecorded'
    BY <1>1, <1>4, RecordsAreKept DEF Typed
  <1> QED
    BY <1>1, <1>2, <1>4, <1>5, <1>6 DEF Typed, calls, Keeps

-------------------------------------------------------------------------------
(* Where a worker that stands somewhere can go on.                         *)

\* All but the place of a worker, and what counts attempts.
Alike(r, q) ==
  /\ r.next = q.next /\ r.goal = q.goal /\ r.stage = q.stage /\ r.class = q.class
  /\ r.call = q.call /\ r.browser = q.browser /\ r.seen = q.seen /\ r.clean = q.clean
  /\ r.over = q.over

\* A worker at another place, or some units later, is the same worker.
LEMMA Placing ==
  ASSUME NEW q \in Locals, NEW x \in Places
  PROVE  LET r == [q EXCEPT !.pc = x] IN r \in Locals /\ r.pc = x /\ Alike(r, q)
  BY DEF Locals, Alike

LEMMA Counting ==
  ASSUME NEW q \in Locals, NEW n \in Nat
  PROVE  LET r == [q EXCEPT !.seq = n] IN r \in Locals /\ r.pc = q.pc /\ Alike(r, q)
  BY DEF Locals, Alike

LEMMA Numbers ==
  ASSUME NEW q \in Locals
  PROVE  /\ q.seq + 1 \in Nat /\ q.try + 1 \in Nat /\ q.round + 1 \in Nat
         /\ q.rejected + 1 \in Nat /\ q.stage + 1 \in Nat \ {0} /\ q.stage \in Nat \ {0}
  <1>1. q.seq \in Nat /\ q.try \in Nat /\ q.round \in Nat /\ q.rejected \in Nat /\ q.stage \in Nat \ {0}
    BY DEF Locals
  <1> QED
    BY <1>1

\* A work unit later the worker stands where it was going.
LEMMA ContinuedStands ==
  ASSUME NEW q, Stands(q), p.seq + 1 \in Nat
  PROVE  LET r == Continue(q)
         IN  /\ Stands(r.p) /\ r.p.pc = q.pc /\ Alike(r.p, q) /\ r.mission = "EXECUTING"
  <1> DEFINE r == [q EXCEPT !.seq = p.seq + 1]
  <1>1. Continue(q).p = r /\ Continue(q).mission = "EXECUTING"
    BY DEF Continue, Going
  <1>2. r \in Locals /\ r.pc = q.pc /\ Alike(r, q)
    BY Counting DEF Stands
  <1> HIDE DEF r
  <1>3. Stands(r)
    BY <1>2 DEF Stands, Choosing, Alike
  <1> QED
    BY <1>1, <1>2, <1>3

\* The entry of a stage.
LEMMA EntryStands ==
  ASSUME NEW q \in Locals, q.goal = "observe", q.browser <= Len(checks),
         q.over <= Len(checks), q.call <= Len(bought)
  PROVE  LET r == Enter(q)
         IN  Stands(r) /\ r.pc \in { "procedure", "isolate" } /\ Alike(r, q)
  <1> DEFINE x == IF q.stage <= Len(Pipeline) THEN "procedure" ELSE "isolate"
             r == [q EXCEPT !.pc = x]
  <1>1. Enter(q) = r
    BY DEF Enter
  <1>2. x \in Places
    BY DEF Places
  <1>3. r \in Locals /\ r.pc = x /\ Alike(r, q)
    BY <1>2, Placing
  <1> HIDE DEF r
  <1>4. Stands(r)
    BY <1>3 DEF Stands, Choosing, Alike
  <1> QED
    BY <1>1, <1>3, <1>4

\* The next stage, the next attempt, and the next round.
LEMMA NextStageStands ==
  ASSUME NEW q, Stands(q), q.goal = "observe"
  PROVE  LET r == NextStage(q)
         IN  Stands(r) /\ r.pc \in { "procedure", "isolate" } /\ r.goal = "observe"
  <1> DEFINE n == q.stage + 1
             r == [q EXCEPT !.stage = n, !.try = 0, !.call = 0, !.rejected = 0]
  <1>1. NextStage(q) = Enter(r)
    BY DEF NextStage
  <1>2. n \in Nat \ {0}
    BY Numbers DEF Stands
  <1> HIDE DEF n
  <1>3. /\ r \in Locals /\ r.call = 0 /\ r.goal = "observe"
        /\ r.browser = q.browser /\ r.over = q.over
    BY <1>2 DEF Stands, Locals
  <1> HIDE DEF r
  <1> QED
    BY <1>1, <1>3, EntryStands DEF Stands, Alike

LEMMA NextTryStands ==
  ASSUME NEW q, Stands(q), q.goal = "observe"
  PROVE  LET r == NextTry(q)
         IN  Stands(r) /\ r.pc \in { "procedure", "isolate" } /\ r.goal = "observe"
  <1> DEFINE n == q.try + 1
             r == [q EXCEPT !.try = n, !.call = 0, !.rejected = 0]
  <1>1. NextTry(q) = IF n < MaxTries THEN Enter(r) ELSE NextStage(q)
    BY DEF NextTry
  <1>2. n \in Nat
    BY Numbers DEF Stands
  <1> HIDE DEF n
  <1>3. /\ r \in Locals /\ r.call = 0 /\ r.goal = "observe"
        /\ r.browser = q.browser /\ r.over = q.over
    BY <1>2 DEF Stands, Locals
  <1> HIDE DEF r
  <1> QED
    BY <1>1, <1>3, EntryStands, NextStageStands DEF Stands, Alike

LEMMA NextRoundIs ==
  ASSUME NEW q \in Locals
  PROVE  LET r == NextRound(q)
         IN  /\ r \in Locals /\ r.call = 0 /\ r.browser = 0 /\ r.over = q.over
             /\ r.goal = q.goal /\ r.class = "none"
  <1> DEFINE n == q.round + 1
             r == NextRound(q)
  <1>1. n \in Nat
    BY Numbers
  <1>2. r = [q EXCEPT !.round = n, !.class = "none", !.rejected = 0, !.call = 0,
                      !.browser = 0, !.seen = NoObservation, !.clean = FALSE]
    BY DEF NextRound
  <1>3. NoObservation \in Seen
    BY DEF NoObservation, Seen
  <1> HIDE DEF n, r
  <1>4. /\ r \in Locals /\ r.call = 0 /\ r.browser = 0 /\ r.over = q.over
        /\ r.goal = q.goal /\ r.class = "none"
    <2> HIDE DEF NoObservation
    <2> QED
      BY <1>1, <1>2, <1>3 DEF Locals
  <1> QED
    BY <1>4 DEF r

LEMMA NextRoundStands ==
  ASSUME NEW q, Stands(q), q.goal = "observe"
  PROVE  LET r == [NextRound(q) EXCEPT !.pc = "launch"]
         IN  Stands(r) /\ r.pc = "launch" /\ r.goal = "observe"
  <1> DEFINE s == NextRound(q)
             r == [s EXCEPT !.pc = "launch"]
  <1>1. s \in Locals /\ s.call = 0 /\ s.browser = 0 /\ s.over = q.over /\ s.goal = "observe"
    BY NextRoundIs DEF Stands
  <1> HIDE DEF s
  <1>2. r \in Locals /\ r.pc = "launch" /\ Alike(r, s)
    BY <1>1, Placing DEF Places
  <1> HIDE DEF r
  <1>3. Stands(r)
    BY <1>1, <1>2 DEF Stands, Choosing, Alike
  <1> QED
    BY <1>1, <1>2, <1>3 DEF r, s, Alike

-------------------------------------------------------------------------------
(* The types, action by action.                                            *)

\* A step that makes no work unit.
LEMMA RestIsTyped ==
  ASSUME Typed, UNCHANGED <<policy, units, begun, starts>>,
         mission' \in { "EXECUTING", "VERIFYING", "EXHAUSTED", "FAILED" },
         faults' \in 0..MaxFaults, tree' \in TreeType, built' \in Contents,
         preview'.checkpoint \in TreeType, preview'.serves \in Contents, checks' = checks, bought' \in Seq(Calls),
         rejected' \in [Capped -> Nat], isolated' \subseteq DOMAIN checks,
         Stands(p)', p'.pc # "observe",
         mission' = "EXECUTING" /\ p'.pc = "down" => p'.goal = "observe"
  PROVE  Typed'
  BY DEF Typed, UnitsAreRecorded, Recorded

\* No build and no tree.
LEMMA NothingIsTyped == << >> \in Contents /\ NoTree \in TreeType
  <1>1. << >> \in Contents
    BY DEF Contents
  <1> QED
    BY <1>1 DEF NoTree, TreeType

\* It goes on at q, with the same checks and no fewer calls.
LEMMA GoesOn ==
  ASSUME NEW q, Stands(q), p' = q, checks' = checks, bought' \in Seq(Calls),
         Len(bought') >= Len(bought), bought \in Seq(Calls)
  PROVE  Stands(p)'
  <1>1. q.call \in Nat
    BY DEF Stands, Locals
  <1>2. q.call <= Len(bought')
    BY <1>1 DEF Stands
  <1> QED
    BY <1>2 DEF Stands, Choosing

\* It goes on at q, or ends, and nothing but itself changes, or the preview is stopped.
LEMMA GoingIsTyped ==
  ASSUME Typed, NEW q, Stands(q), q.pc \notin { "observe", "down" }, p' = q,
         mission' = "EXECUTING",
         UNCHANGED <<durable, calls, isolated, starts, fixed>>,
         preview' \in { preview, NoPreview }
  PROVE  Typed'
  <1>1. Stands(p)'
    BY GoesOn DEF Typed, calls, durable
  <1>2. preview'.checkpoint \in TreeType /\ preview'.serves \in Contents
    BY NothingIsTyped DEF Typed, NoPreview
  <1> QED
    BY <1>1, <1>2, RestIsTyped DEF Typed, durable, calls, fixed

\* The mission ends, by a failure or because something is spent.
LEMMA EndingIsTyped ==
  ASSUME Typed, Throw \/ Exhaust, UNCHANGED <<durable, isolated, starts, fixed>>,
         preview' \in { preview, NoPreview }, bought' = bought, rejected' \in [Capped -> Nat]
  PROVE  Typed'
  <1>1. p' = Worker /\ mission' \in { "EXHAUSTED", "FAILED" }
    BY DEF Throw, Exhaust, Enters, Over
  <1>2. Stands(p)' /\ p'.pc # "observe" /\ p'.goal = "observe"
    BY <1>1, NobodyStands DEF Typed, durable
  <1>3. preview'.checkpoint \in TreeType /\ preview'.serves \in Contents
    BY NothingIsTyped DEF Typed, NoPreview
  <1> QED
    BY <1>1, <1>2, <1>3, RestIsTyped DEF Typed, durable, fixed

\* What is bought is recorded; what is refused is counted.
LEMMA BuyingIsTyped ==
  ASSUME Typed, NEW class \in Classes, NEW kind \in Kinds, NEW form \in { "patch", "files" },
         Buy(class, kind, form)
  PROVE  /\ bought' \in Seq(Calls) /\ Len(bought') = Len(bought) + 1 /\ rejected' = rejected
         /\ bought'[Len(bought) + 1].class = class
  <1> DEFINE c == [class |-> class, kind |-> kind, form |-> form, on |-> tree[kind]]
  <1>1. tree[kind] \in Contents
    BY DEF Typed, TreeType, Kinds
  <1>2. c \in Calls /\ c.class = class
    BY <1>1 DEF Calls
  <1> HIDE DEF c
  <1> QED
    BY <1>2 DEF Buy, c, Typed

LEMMA RefusingIsTyped ==
  ASSUME Typed, NEW class, Refuse(class)
  PROVE  bought' = bought /\ rejected' \in [Capped -> Nat]
  BY DEF Refuse, Typed

\* Until the delivery is certified the worker is to observe.
LEMMA StillObserving ==
  ASSUME Stands(p)
  PROVE  /\ p \in Locals /\ p.seq + 1 \in Nat /\ p.goal \in { "observe", "certify" }
         /\ p.pc \notin { "launch", "rebuild", "certify", "down" } => p.goal = "observe"
  <1>1. p \in Locals /\ p.goal \in { "observe", "certify" }
    BY DEF Stands, Locals
  <1> QED
    BY <1>1, Numbers DEF Stands


\* Where a work unit leads on success, and otherwise.
LEMMA Outcomes ==
  ASSUME NEW place, NEW otherwise, NEW s \in Results
  PROVE  /\ OnSuccess(place, otherwise)[s] \in { place, otherwise }
         /\ OrThrow(place)[s] \in { place, Over("FAILED") }
         /\ Over("FAILED").mission = "FAILED" /\ Over("FAILED").p = Worker
  BY DEF OnSuccess, OrThrow, Over

\* A command that leads on to where the worker stands.
LEMMA CommandIsTyped ==
  ASSUME Typed, NEW step, NEW procedure, NEW inputs, NEW then,
         Work(step, inputs, Effects(procedure), then),
         step.procedure \in Procedures, mission = "EXECUTING",
         \A s \in Results :
           \/ then[s].mission = "FAILED" /\ then[s].p = Worker
           \/ /\ then[s].mission = "EXECUTING" /\ Stands(then[s].p)
              /\ then[s].p.pc \notin { "observe", "down" }
  PROVE  Typed' /\ tree' = tree /\ Keeps /\ Goes(then)
  <1>1. step.procedure # "browserVerification" /\ StepOK(step)
    BY DEF Procedures, StepOK
  <1>2. Leaves(Effects(procedure))
    BY <1>1, WorkLeaves, CommandStatus
  <1>3. tree' = tree /\ built' \in Contents /\ tree \in TreeType
    BY <1>2, CommandLeaves DEF Typed
  <1> QED
    BY <1>1, <1>3, WorkIsTyped, CommandStatus

\* The same of a file that is written.
LEMMA WritingIsTyped ==
  ASSUME Typed, NEW step, NEW inputs, NEW kind \in Kinds, NEW content \in Contents, NEW then,
         Work(step, inputs, WriteEffects(kind, content), then),
         step.procedure = "file", mission = "EXECUTING",
         \A s \in Results :
           \/ then[s].mission = "FAILED" /\ then[s].p = Worker
           \/ /\ then[s].mission = "EXECUTING" /\ Stands(then[s].p)
              /\ then[s].p.pc \notin { "observe", "down" }
  PROVE  Typed' /\ tree'.dirty = tree.dirty /\ Keeps /\ Goes(then)
  <1>1. step.procedure # "browserVerification" /\ StepOK(step)
    BY DEF StepOK
  <1>2. Leaves(WriteEffects(kind, content))
    BY <1>1, WorkLeaves, WriteStatus
  <1>3. tree' \in TreeType /\ built' \in Contents /\ tree'.dirty = tree.dirty
    BY <1>2, WriteLeaves DEF Typed
  <1> QED
    BY <1>1, <1>3, WorkIsTyped, WriteStatus

\* A step on the way to the first preview, or to an end.
Early == { "down", "generate", "bundle", "procedure", "diagnose", "mend", "isolate" }

Preparing ==
  /\ p'.pc \in Early /\ mission' # "VERIFYING" /\ tree'.dirty = tree.dirty
  /\ UNCHANGED <<checks, isolated>> /\ (CheckWasCutShort => CheckWasCutShort')

\* A unit that leads to such a place is such a step.
LEMMA Prepared ==
  ASSUME NEW then, Keeps, Goes(then), tree'.dirty = tree.dirty,
         \A s \in Results : then[s].p.pc \in Early
  PROVE  Preparing
  BY DEF Keeps, Goes, Preparing, Early, Worker

\* So is a step that changes nothing but the worker, its calls and the preview.
LEMMA Idling ==
  ASSUME p'.pc \in Early, mission' # "VERIFYING", UNCHANGED <<durable, isolated>>
  PROVE  Preparing
  BY DEF Preparing, durable, CheckWasCutShort

\* The end of a mission is at such a place: nobody works.
LEMMA EndIsEarly ==
  ASSUME Throw \/ Exhaust
  PROVE  p'.pc \in Early /\ mission' \in { "FAILED", "EXHAUSTED" }
  BY DEF Throw, Exhaust, Enters, Over, Worker, Early

\* A worker starts.
LEMMA ResumeIsTyped ==
  ASSUME Typed, Resume
  PROVE  Typed' /\ Preparing
  <1> DEFINE q == [p EXCEPT !.pc = "generate"]
  <1>1. q \in Locals /\ q.pc = "generate" /\ Alike(q, p) /\ p.pc = "down" /\ p.goal = "observe"
    BY Placing DEF Resume, Typed, Stands, Places
  <1>2. p' = q
    BY DEF Resume, Goto
  <1> HIDE DEF q
  <1>3. Stands(q)
    BY <1>1 DEF Typed, Stands, Alike, Choosing
  <1> QED
    BY <1>1, <1>2, <1>3, GoingIsTyped, Idling DEF Resume, Early

\* The bundle is admitted, corrected and applied.
LEMMA AdmitBundleIsTyped ==
  ASSUME Typed, AdmitBundle
  PROVE  Typed' /\ Preparing
  <1> DEFINE q == [p EXCEPT !.pc = "bundle"]
  <1>1. q \in Locals /\ q.pc = "bundle" /\ Alike(q, p) /\ p.pc = "generate"
    BY Placing DEF AdmitBundle, At, Typed, Stands, Places
  <1>2. p' = q /\ mission' = "EXECUTING"
    BY DEF AdmitBundle, Goto, At
  <1> HIDE DEF q
  <1>3. Stands(q)
    BY <1>1 DEF Typed, Stands, Alike, Choosing
  <1> QED
    BY <1>1, <1>2, <1>3, GoingIsTyped, Idling DEF AdmitBundle, Early

LEMMA CorrectBundleIsTyped ==
  ASSUME Typed, CorrectBundle
  PROVE  Typed' /\ Preparing
  <1>0. p.pc = "generate" /\ mission = "EXECUTING"
    BY DEF CorrectBundle, At
  <1>1. CASE Throw /\ UNCHANGED calls
    BY <1>1, EndingIsTyped, EndIsEarly, Idling DEF CorrectBundle, calls, Typed
  <1>2. CASE Refused("generation")
    BY <1>2, EndingIsTyped, RefusingIsTyped, EndIsEarly, Idling DEF CorrectBundle, Refused
  <1>3. CASE Buy("generation", "app", "files") /\ UNCHANGED <<mission, p>>
    <2>1. bought' \in Seq(Calls) /\ Len(bought') = Len(bought) + 1 /\ rejected' = rejected
      BY <1>3, BuyingIsTyped DEF Classes, Capped, Kinds
    <2>2. Stands(p)'
      BY <1>3, <2>1, GoesOn DEF Typed, CorrectBundle, durable
    <2> QED
      BY <1>0, <1>3, <2>1, <2>2, RestIsTyped, Idling DEF Typed, CorrectBundle, durable, fixed, Early
  <1> QED
    BY <1>1, <1>2, <1>3 DEF CorrectBundle

LEMMA BundleIsTyped ==
  ASSUME Typed, ApplyBundle
  PROVE  Typed' /\ Preparing
  <1>0. p.pc = "bundle" /\ mission = "EXECUTING" /\ p.goal = "observe" /\ p.seq + 1 \in Nat /\ Stands(p)
    BY StillObserving DEF ApplyBundle, At, Typed
  <1> DEFINE q == Enter(p)
             r == Continue(q)
  <1>1. Stands(q) /\ q.pc \in { "procedure", "isolate" }
    BY <1>0, EntryStands DEF Stands
  <1> HIDE DEF q
  <1>2. CASE p' = q /\ UNCHANGED <<mission, durable, calls, isolated, starts, preview, fixed>>
    BY <1>0, <1>1, <1>2, GoingIsTyped, Idling DEF Early
  <1>3. CASE Work(Step("file", "bundle", 0), <<0>>, WriteEffects("app", <<0>>), OrThrow(r))
    <2>1. <<0>> \in Contents /\ "app" \in Kinds
      BY DEF Contents, Kinds
    <2>2. Stands(r.p) /\ r.p.pc = q.pc /\ r.mission = "EXECUTING"
      BY <1>0, <1>1, ContinuedStands
    <2> HIDE DEF r
    <2>3. Step("file", "bundle", 0).procedure = "file"
      BY DEF Step
    <2>4. \A s \in Results : OrThrow(r)[s] \in { r, Over("FAILED") }
      BY Outcomes
    <2> QED
      <3>1. Typed' /\ tree'.dirty = tree.dirty /\ Keeps /\ Goes(OrThrow(r))
        BY <1>0, <1>1, <1>3, <2>1, <2>2, <2>3, <2>4, WritingIsTyped, Outcomes
      <3>2. \A s \in Results : OrThrow(r)[s].p.pc \in Early
        BY <1>1, <2>2, <2>4, Outcomes DEF Early, Worker
      <3> QED
        BY <3>1, <3>2, Prepared
  <1> QED
    BY <1>2, <1>3 DEF ApplyBundle, q

\* A stage of the pipeline is a procedure.
LEMMA ProcedureIsTyped ==
  ASSUME Typed, p.pc \in { "procedure", "diagnose", "mend" }
  PROVE  Procedure \in Procedures
  <1>1. p.stage \in 1..Len(Pipeline)
    BY DEF Typed, Stands, Locals
  <1> QED
    BY <1>1, ProductionAssumption DEF Procedure

\* A procedure succeeds, is tried again, or is diagnosed.
LEMMA RunProcedureIsTyped ==
  ASSUME Typed, RunProcedure
  PROVE  Typed' /\ Preparing
  <1> DEFINE diagnosing == [p EXCEPT !.pc = "diagnose"]
             then == [SUCCEEDED   |-> Continue(NextStage(p)),
                      INTERRUPTED |-> Continue(NextTry(p)),
                      FAILED      |-> Continue(diagnosing)]
             step == Step(Procedure, "attempt", p.try + 1)
  <1>1. mission = "EXECUTING" /\ p.pc = "procedure" /\ Stands(p) /\ p.goal = "observe" /\ p.seq + 1 \in Nat
    BY StillObserving DEF RunProcedure, At, Typed
  <1>2. Stands(diagnosing) /\ diagnosing.pc = "diagnose"
    <2>1. diagnosing \in Locals /\ diagnosing.pc = "diagnose" /\ Alike(diagnosing, p)
      BY <1>1, Placing DEF Stands, Places
    <2> HIDE DEF diagnosing
    <2> QED
      BY <1>1, <2>1 DEF Stands, Choosing, Alike
  <1> HIDE DEF diagnosing
  <1>3. \A s \in Results : /\ then[s].mission = "EXECUTING" /\ Stands(then[s].p)
                           /\ then[s].p.pc \in Early \ { "down" }
    <2>1. then["SUCCEEDED"] = Continue(NextStage(p)) /\ then["INTERRUPTED"] = Continue(NextTry(p))
            /\ then["FAILED"] = Continue(diagnosing)
      OBVIOUS
    <2>2. Stands(NextStage(p)) /\ NextStage(p).pc \in { "procedure", "isolate" }
      BY <1>1, NextStageStands
    <2>3. Stands(NextTry(p)) /\ NextTry(p).pc \in { "procedure", "isolate" }
      BY <1>1, NextTryStands
    <2> HIDE DEF then
    <2>4. then["SUCCEEDED"].mission = "EXECUTING" /\ Stands(then["SUCCEEDED"].p)
            /\ then["SUCCEEDED"].p.pc \in { "procedure", "isolate" }
      BY <1>1, <2>1, <2>2, ContinuedStands
    <2>5. then["INTERRUPTED"].mission = "EXECUTING" /\ Stands(then["INTERRUPTED"].p)
            /\ then["INTERRUPTED"].p.pc \in { "procedure", "isolate" }
      BY <1>1, <2>1, <2>3, ContinuedStands
    <2>6. then["FAILED"].mission = "EXECUTING" /\ Stands(then["FAILED"].p)
            /\ then["FAILED"].p.pc = "diagnose"
      BY <1>1, <1>2, <2>1, ContinuedStands
    <2> QED
      BY <2>4, <2>5, <2>6 DEF Results, Early
  <1>4. Work(step, << >>, Effects(Procedure), then) /\ step.procedure \in Procedures
    BY <1>1, ProcedureIsTyped DEF RunProcedure, Step, diagnosing
  <1> HIDE DEF then, step
  <1>5. Typed' /\ tree' = tree /\ Keeps /\ Goes(then)
    BY <1>1, <1>3, <1>4, CommandIsTyped DEF Early
  <1> QED
    BY <1>3, <1>5, Prepared

\* What a diagnosis may lead to: a new lock, dependencies, a repair, and the end.
LEMMA RelockIsTyped ==
  ASSUME Typed, Relock
  PROVE  Typed' /\ Preparing
  <1> DEFINE again == Continue(NextTry(p))
             stay == Continue(p)
             then == OnSuccess(again, stay)
             step == Step("dependencyLock", "lock-resync", 0)
  <1>1. mission = "EXECUTING" /\ p.pc = "diagnose" /\ Stands(p) /\ p.goal = "observe"
          /\ p.seq + 1 \in Nat
    BY StillObserving DEF Relock, At, Typed
  <1>2. Stands(again.p) /\ again.mission = "EXECUTING" /\ again.p.pc \in { "procedure", "isolate" }
    BY <1>1, NextTryStands, ContinuedStands
  <1>3. Stands(stay.p) /\ stay.mission = "EXECUTING" /\ stay.p.pc = "diagnose"
    BY <1>1, ContinuedStands
  <1>4. Work(step, << >>, Effects("dependencyLock"), then) /\ step.procedure \in Procedures
    BY DEF Relock, Step, Procedures
  <1>5. \A s \in Results : then[s] \in { again, stay }
    BY Outcomes
  <1> HIDE DEF again, stay, then, step
  <1>6. \A s \in Results : /\ then[s].mission = "EXECUTING" /\ Stands(then[s].p)
                           /\ then[s].p.pc \in Early \ { "down" }
    BY <1>2, <1>3, <1>5 DEF Early
  <1>7. Typed' /\ tree' = tree /\ Keeps /\ Goes(then)
    BY <1>1, <1>4, <1>6, CommandIsTyped DEF Early
  <1> QED
    BY <1>6, <1>7, Prepared

LEMMA RecoverIsTyped ==
  ASSUME Typed, RecoverDependencies
  PROVE  Typed' /\ Preparing
  <1> DEFINE again == Continue(NextTry(p))
             then == OrThrow(again)
             step == Step("install", "recovery-" \o Procedure, 0)
  <1>1. mission = "EXECUTING" /\ p.pc = "diagnose" /\ Stands(p) /\ p.goal = "observe"
          /\ p.seq + 1 \in Nat
    BY StillObserving DEF RecoverDependencies, At, Typed
  <1>2. CASE Throw /\ UNCHANGED <<durable, calls, isolated, starts, preview, fixed>>
    BY <1>2, EndingIsTyped, EndIsEarly, Idling DEF calls, Typed
  <1>3. CASE Work(step, << >>, Effects("install"), then)
    <2>1. Stands(again.p) /\ again.mission = "EXECUTING" /\ again.p.pc \in { "procedure", "isolate" }
      BY <1>1, NextTryStands, ContinuedStands
    <2>2. step.procedure \in Procedures
      BY DEF Step, Procedures
    <2>3. \A s \in Results : then[s] \in { again, Over("FAILED") }
      BY Outcomes
    <2> HIDE DEF again, then, step
    <2>4. \A s \in Results : \/ then[s].mission = "FAILED" /\ then[s].p = Worker
                             \/ /\ then[s].mission = "EXECUTING" /\ Stands(then[s].p)
                                /\ then[s].p.pc \in Early \ { "down" }
      BY <2>1, <2>3, Outcomes DEF Early
    <2>5. Typed' /\ tree' = tree /\ Keeps /\ Goes(then)
      BY <1>1, <1>3, <2>2, <2>4, CommandIsTyped DEF Early
    <2>6. \A s \in Results : then[s].p.pc \in Early
      BY <2>4 DEF Worker, Early
    <2> QED
      BY <2>5, <2>6, Prepared
  <1> QED
    BY <1>2, <1>3 DEF RecoverDependencies

LEMMA RepairProcedureIsTyped ==
  ASSUME Typed, RepairProcedure
  PROVE  Typed' /\ Preparing
  <1>1. mission = "EXECUTING" /\ p.pc = "diagnose" /\ Stands(p) /\ p.goal = "observe"
          /\ p \in Locals
    BY StillObserving DEF RepairProcedure, At, Typed
  <1>2. CASE (Throw \/ Exhaust) /\ UNCHANGED calls
    BY <1>2, EndingIsTyped, EndIsEarly, Idling DEF RepairProcedure, calls, Typed
  <1>3. CASE Refused(Procedure)
    BY <1>3, EndingIsTyped, RefusingIsTyped, EndIsEarly, Idling DEF RepairProcedure, Refused
  <1>4. CASE Rejected(Procedure)
    <2> DEFINE n == p.rejected + 1
               q == [p EXCEPT !.rejected = n]
    <2>1. n \in Nat
      BY <1>1, Numbers
    <2>2. p' = q /\ UNCHANGED mission /\ bought' = bought /\ rejected' \in [Capped -> Nat]
      BY <1>4, RefusingIsTyped DEF Rejected
    <2> HIDE DEF n
    <2>3. q \in Locals /\ q.pc = p.pc /\ Alike(q, p)
      BY <1>1, <2>1 DEF Locals, Alike
    <2> HIDE DEF q
    <2>4. Stands(q)
      BY <1>1, <2>3 DEF Stands, Choosing, Alike
    <2>5. Stands(p)'
      BY <2>2, <2>4, GoesOn DEF Typed, RepairProcedure, durable
    <2> QED
      BY <1>1, <2>2, <2>3, <2>5, RestIsTyped, Idling DEF Typed, RepairProcedure, durable, fixed, Early
  <1>5. CASE /\ Buy(Procedure, "app", "files")
             /\ p' = [p EXCEPT !.pc = "mend", !.call = Len(bought) + 1]
             /\ UNCHANGED mission
    <2> DEFINE n == Len(bought) + 1
    <2>1. bought' \in Seq(Calls) /\ Len(bought') = n /\ rejected' = rejected
      BY <1>1, <1>5, BuyingIsTyped, ProcedureIsTyped DEF Classes, Kinds
    <2>2. n \in Nat \ {0} /\ n >= Len(bought)
      BY DEF Typed
    <2> HIDE DEF n
    <2>3. /\ p' \in Locals /\ p'.pc = "mend" /\ p'.call = n /\ p'.goal = "observe"
          /\ p'.browser = p.browser /\ p'.over = p.over /\ p'.stage = p.stage /\ p'.class = p.class
      BY <1>1, <1>5, <2>2 DEF Locals, Places, n
    <2>4. Stands(p)'
      BY <1>1, <2>1, <2>2, <2>3 DEF Stands, Choosing, RepairProcedure, durable
    <2> QED
      BY <1>1, <1>5, <2>1, <2>3, <2>4, RestIsTyped, Idling
      DEF Typed, RepairProcedure, durable, fixed, Early
  <1> QED
    BY <1>2, <1>3, <1>4, <1>5 DEF RepairProcedure

\* A repair that is applied was bought.
LEMMA PatchIsTyped ==
  ASSUME Typed, p.pc \in { "mend", "repair" }
  PROVE  /\ bought[p.call].kind \in Kinds /\ Patched(p.call) \in Contents
         /\ p.call \in DOMAIN bought
  <1>1. p.call \in 1..Len(bought)
    BY DEF Typed, Stands, Locals
  <1>2. bought[p.call] \in Calls
    BY <1>1 DEF Typed
  <1>3. bought[p.call].kind \in Kinds /\ tree[bought[p.call].kind] \in Contents
    BY <1>2 DEF Calls, Kinds, Typed, TreeType
  <1>4. p.call \in Nat
    BY <1>1
  <1> QED
    BY <1>1, <1>3, <1>4 DEF Patched, Contents, Typed

\* The repair of a procedure is applied.
LEMMA MendIsTyped ==
  ASSUME Typed, MendProcedure
  PROVE  Typed' /\ Preparing
  <1> DEFINE again == Continue(NextTry(p))
             then == OrThrow(again)
             step == Step("file", "repair-" \o Procedure, 0)
  <1>1. mission = "EXECUTING" /\ p.pc = "mend" /\ Stands(p) /\ p.goal = "observe"
          /\ p.seq + 1 \in Nat
    BY StillObserving DEF MendProcedure, At, Typed
  <1>2. Stands(again.p) /\ again.mission = "EXECUTING" /\ again.p.pc \in { "procedure", "isolate" }
    BY <1>1, NextTryStands, ContinuedStands
  <1>3. /\ step.procedure = "file" /\ "app" \in Kinds
        /\ Work(step, Patched(p.call), WriteEffects("app", Patched(p.call)), then)
    BY DEF Step, Kinds, MendProcedure
  <1>4. \A s \in Results : then[s] \in { again, Over("FAILED") }
    BY Outcomes
  <1> HIDE DEF again, then, step
  <1>5. \A s \in Results : \/ then[s].mission = "FAILED" /\ then[s].p = Worker
                           \/ /\ then[s].mission = "EXECUTING" /\ Stands(then[s].p)
                              /\ then[s].p.pc \in Early \ { "down" }
    BY <1>2, <1>4, Outcomes DEF Early
  <1>6. Typed' /\ tree'.dirty = tree.dirty /\ Keeps /\ Goes(then)
    BY <1>1, <1>3, <1>5, PatchIsTyped, WritingIsTyped DEF Early
  <1>7. \A s \in Results : then[s].p.pc \in Early
    BY <1>5 DEF Worker, Early
  <1> QED
    BY <1>6, <1>7, Prepared

-------------------------------------------------------------------------------
(* The browser loop.                                                       *)

\* A step after which another preview is due, or none.
Returning ==
  /\ p'.pc \notin { "judge", "finish", "certify" } /\ ~Choosing(p)'
  /\ p'.goal = "observe" /\ mission' # "VERIFYING"
  /\ checks' = checks /\ (CheckWasCutShort => CheckWasCutShort')
  /\ tree'.dirty = tree.dirty \/ \E i \in DOMAIN checks : tree' = checks[i].pre

\* A restored checkpoint.
Restored(i, q, next) ==
  /\ tree' = checks[i].pre /\ tree' \in TreeType /\ built' \in Contents
  /\ UNCHANGED <<mission, units, checks, begun, calls, starts, fixed>>
  /\ p' \in Locals
  /\ p'.goal = q.goal /\ p'.stage = q.stage /\ p'.class = q.class /\ p'.call = q.call
  /\ p'.browser = q.browser /\ p'.seen = q.seen /\ p'.clean = q.clean /\ p'.over = q.over
  /\ \/ p'.pc = next
     \/ p'.pc = "rebuild" /\ p'.next = next

\* Restore comes to this, whether or not the build is kept.
LEMMA Restoring ==
  ASSUME Typed, NEW i \in 1..Len(checks), NEW q \in Locals, NEW next \in { "launch", "choose" },
         Restore(i, q, next)
  PROVE  Restored(i, q, next)
  <1>1. checks[i].pre \in TreeType
    <2>1. checks[i] \in Checks
      BY DEF Typed
    <2> QED
      BY <2>1 DEF Checks
  <1>2. CASE Reusable(i)
    <2> DEFINE r == [q EXCEPT !.pc = next]
    <2>1. r \in Locals /\ r.pc = next /\ Alike(r, q)
      <3>1. next \in Places
        BY DEF Places
      <3> QED
        BY <3>1, Placing
    <2>2. p' = r /\ built' = built /\ tree' = checks[i].pre
      BY <1>2 DEF Restore
    <2> HIDE DEF r
    <2> QED
      BY <1>1, <2>1, <2>2 DEF Restore, Restored, Alike, Typed
  <1>3. CASE ~Reusable(i)
    <2> DEFINE r == [q EXCEPT !.pc = "rebuild", !.next = next, !.target = i]
    <2>1. i \in Nat
      OBVIOUS
    <2>2. /\ r \in Locals /\ r.pc = "rebuild" /\ r.next = next
          /\ r.goal = q.goal /\ r.stage = q.stage /\ r.class = q.class /\ r.call = q.call
          /\ r.browser = q.browser /\ r.seen = q.seen /\ r.clean = q.clean /\ r.over = q.over
      BY <2>1 DEF Locals, Places
    <2>3. p' = r /\ built' = << >> /\ tree' = checks[i].pre
      BY <1>3 DEF Restore
    <2> HIDE DEF r
    <2> QED
      BY <1>1, <2>2, <2>3, NothingIsTyped DEF Restore, Restored
  <1> QED
    BY <1>2, <1>3

\* After a restore on the way to a further preview, or to the next correction.
LEMMA RestoredIsTyped ==
  ASSUME Typed, NEW i, NEW q, NEW next \in { "launch", "choose" }, Restored(i, q, next),
         mission = "EXECUTING", preview'.checkpoint \in TreeType, preview'.serves \in Contents,
         isolated' \subseteq DOMAIN checks,
         q.browser <= Len(checks), q.over <= Len(checks), q.call <= Len(bought),
         next = "choose" \/ q.goal = "certify" => q.browser # 0,
         next = "choose" => q.class # "none" /\ q.goal = "observe"
  PROVE  /\ Typed' /\ (next = "launch" => ~Choosing(p)') /\ (next = "choose" => Choosing(p)')
         /\ p'.pc \in { "launch", "choose", "rebuild" } /\ mission' = "EXECUTING"
         /\ CheckWasCutShort => CheckWasCutShort'
  <1>1. bought' = bought /\ checks' = checks /\ mission' = "EXECUTING"
    BY DEF Restored, calls
  <1>2. /\ next = "launch" => ~Choosing(p)'
        /\ next = "choose" => Choosing(p)'
        /\ p'.pc \in { "launch", "choose", "rebuild" }
        /\ p'.pc = "rebuild" => p'.next \in { "launch", "choose" }
    BY DEF Restored, Choosing
  <1>3. /\ p' \in Locals /\ p'.browser <= Len(checks') /\ p'.over <= Len(checks')
        /\ p'.call <= Len(bought')
    BY <1>1 DEF Restored
  <1>4. Stands(p)'
    BY <1>1, <1>2, <1>3 DEF Restored, Stands
  <1>5. CheckWasCutShort => CheckWasCutShort'
    BY DEF Restored, CheckWasCutShort
  <1> QED
    BY <1>1, <1>2, <1>4, <1>5, RestIsTyped DEF Restored, Typed, calls, fixed

\* A restore on the way to a preview is such a step.
LEMMA ReturnedByRestore ==
  ASSUME Typed, NEW i \in 1..Len(checks), NEW q, Restored(i, q, "launch"), q.goal = "observe",
         ~Choosing(p)', mission = "EXECUTING", p'.pc \in { "launch", "choose", "rebuild" }
  PROVE  Returning
  BY DEF Restored, Returning, Typed, CheckWasCutShort

\* An earlier check is undone; if it is not, it was before.
LEMMA IsolateIsTyped ==
  ASSUME Typed, Isolate
  PROVE  /\ Typed' /\ Returning
         /\ \/ tree' = tree /\ (checks = << >> \/ Len(checks) \in isolated)
            \/ tree' = checks[Len(checks)].pre /\ Len(checks) \in DOMAIN checks
  <1>1. mission = "EXECUTING" /\ p.pc = "isolate" /\ Stands(p) /\ p.goal = "observe" /\ p \in Locals
    BY StillObserving DEF Isolate, At, Typed
  <1>2. CASE checks = << >> \/ Len(checks) \in isolated
    <2> DEFINE q == [p EXCEPT !.pc = "launch"]
    <2>1. q \in Locals /\ q.pc = "launch" /\ Alike(q, p)
      BY <1>1, Placing DEF Places
    <2>2. p' = q /\ UNCHANGED <<mission, durable, calls, isolated, starts, preview, fixed>>
      BY <1>2 DEF Isolate, Goto
    <2> HIDE DEF q
    <2>3. Stands(q)
      BY <1>1, <2>1 DEF Stands, Choosing, Alike
    <2>4. Typed'
      BY <1>1, <2>1, <2>2, <2>3, GoingIsTyped
    <2>5. Returning
      BY <1>1, <2>1, <2>2 DEF Returning, Alike, Choosing, durable, CheckWasCutShort
    <2> QED
      BY <1>2, <2>2, <2>4, <2>5 DEF durable
  <1>3. CASE ~(checks = << >> \/ Len(checks) \in isolated)
    <2>1. Len(checks) \in 1..Len(checks) /\ DOMAIN checks = 1..Len(checks)
      BY <1>3 DEF Typed
    <2>2. /\ StopRuntime /\ isolated' = isolated \union { Len(checks) }
          /\ Restore(Len(checks), p, "launch")
      BY <1>3 DEF Isolate
    <2>3. Restored(Len(checks), p, "launch")
      BY <1>1, <2>1, <2>2, Restoring
    <2>4. preview'.checkpoint \in TreeType /\ preview'.serves \in Contents
      BY <2>2, NothingIsTyped DEF StopRuntime, NoPreview
    <2>5. isolated' \subseteq DOMAIN checks
      BY <2>1, <2>2 DEF Typed
    <2>6. Typed' /\ ~Choosing(p)' /\ p'.pc \in { "launch", "choose", "rebuild" }
      BY <1>1, <2>3, <2>4, <2>5, RestoredIsTyped DEF Stands
    <2>7. Returning
      BY <1>1, <2>1, <2>3, <2>6, ReturnedByRestore
    <2> QED
      BY <2>1, <2>3, <2>6, <2>7 DEF Restored
  <1> QED
    BY <1>2, <1>3

\* The source that was restored is built: the worker goes on where it was going.
LEMMA RebuildIsTyped ==
  ASSUME Typed, Rebuild
  PROVE  /\ Typed' /\ tree' = tree /\ Keeps
         /\ \/ p' = Worker /\ mission' # "VERIFYING"
            \/ /\ p.pc = "rebuild" /\ p'.pc = p.next /\ p.next \in { "launch", "choose" }
               /\ mission' = "EXECUTING" /\ p'.goal = p.goal /\ p'.class = p.class
               /\ p'.browser = p.browser /\ p'.seen = p.seen /\ p'.clean = p.clean
  <1> DEFINE q == [p EXCEPT !.pc = p.next, !.next = "down", !.target = 0]
             on == Continue(q)
             then == OrThrow(on)
             step == Step("productionBuild", "browser-restore", p.target)
  <1>1. mission = "EXECUTING" /\ p.pc = "rebuild" /\ Stands(p) /\ p \in Locals /\ p.seq + 1 \in Nat
    BY StillObserving DEF Rebuild, At, Typed
  <1>2. p.next \in { "launch", "choose" }
    BY <1>1 DEF Stands, Locals
  <1>3. /\ q \in Locals /\ q.pc = p.next /\ q.next = "down"
        /\ q.goal = p.goal /\ q.stage = p.stage /\ q.class = p.class /\ q.call = p.call
        /\ q.browser = p.browser /\ q.seen = p.seen /\ q.clean = p.clean /\ q.over = p.over
    BY <1>1, <1>2 DEF Locals, Places
  <1> HIDE DEF q
  <1>4. Stands(q)
    BY <1>1, <1>2, <1>3 DEF Stands, Choosing
  <1>5. Stands(on.p) /\ on.p.pc = p.next /\ Alike(on.p, q) /\ on.mission = "EXECUTING"
    BY <1>1, <1>3, <1>4, ContinuedStands
  <1>6. Work(step, << >>, Effects("productionBuild"), then) /\ step.procedure \in Procedures
    BY DEF Rebuild, Step, Procedures, q
  <1>7. \A s \in Results : then[s] \in { on, Over("FAILED") }
    BY Outcomes
  <1> HIDE DEF on, then, step
  <1>8. \A s \in Results : \/ then[s].mission = "FAILED" /\ then[s].p = Worker
                           \/ /\ then[s].mission = "EXECUTING" /\ Stands(then[s].p)
                              /\ then[s].p.pc \notin { "observe", "down" }
    BY <1>2, <1>5, <1>7, Outcomes
  <1>9. Typed' /\ tree' = tree /\ Keeps /\ Goes(then)
    BY <1>1, <1>6, <1>8, CommandIsTyped
  <1>10. \/ p' = Worker /\ mission' # "VERIFYING"
         \/ p' = on.p /\ mission' = "EXECUTING"
    BY <1>7, <1>9, Outcomes DEF Goes
  <1> QED
    BY <1>1, <1>2, <1>3, <1>5, <1>9, <1>10 DEF Alike

\* The next preview is numbered after all that were observed.
LEMMA NextPreview ==
  ASSUME Typed, starts' = starts + 1, UNCHANGED <<units, begun>>
  PROVE  UnitsAreRecorded' /\ starts' \in Nat
  <1>1. starts' \in Nat /\ \A n \in 0..starts : n \in 0..starts' /\ n # starts'
    BY DEF Typed
  <1> QED
    BY <1>1 DEF Typed, UnitsAreRecorded, Recorded

\* A preview is started: it is observed or certified next.
LEMMA StartIsTyped ==
  ASSUME Typed, StartRuntime
  PROVE  /\ Typed' /\ UNCHANGED <<durable, isolated>>
         /\ \/ p' = Worker /\ mission' = "FAILED"
            \/ p.pc = "launch" /\ p'.pc = p.goal /\ Alike(p', p) /\ mission' = "EXECUTING"
  <1>1. /\ mission = "EXECUTING" /\ p.pc = "launch" /\ Stands(p) /\ p \in Locals
        /\ p.goal \in { "observe", "certify" } /\ UNCHANGED <<durable, calls, isolated, fixed>>
    BY StillObserving DEF StartRuntime, At, Typed
  <1>2. UnitsAreRecorded' /\ starts' \in Nat
    BY <1>1, NextPreview DEF StartRuntime, durable
  <1>3. CASE preview' = NoPreview /\ Throw
    <2>1. p' = Worker /\ mission' = "FAILED"
      BY <1>3 DEF Throw, Enters, Over
    <2>2. Stands(p)' /\ p'.goal = "observe"
      BY <1>1, <2>1, NobodyStands DEF Typed, durable, calls
    <2>3. preview'.checkpoint \in TreeType /\ preview'.serves \in Contents
      BY <1>3, NothingIsTyped DEF NoPreview
    <2>4. Typed'
      BY <1>1, <1>2, <2>1, <2>2, <2>3 DEF Typed, durable, calls, fixed
    <2> QED
      BY <1>1, <2>1, <2>4
  <1>4. CASE /\ preview' = [live |-> TRUE, checkpoint |-> tree, serves |-> built]
             /\ Goto(p.goal) /\ UNCHANGED mission
    <2> DEFINE q == [p EXCEPT !.pc = p.goal]
    <2>1. q \in Locals /\ q.pc = p.goal /\ Alike(q, p)
      <3>1. p.goal \in Places
        BY <1>1 DEF Places
      <3> QED
        BY <1>1, <3>1, Placing
    <2>2. p' = q
      BY <1>4 DEF Goto
    <2> HIDE DEF q
    <2>3. Stands(q)
      BY <1>1, <2>1 DEF Stands, Choosing, Alike
    <2>4. Stands(p)'
      BY <1>1, <2>2, <2>3, GoesOn DEF Typed, durable, calls
    <2>5. preview'.checkpoint \in TreeType /\ preview'.serves \in Contents
      BY <1>4 DEF Typed
    <2> QED
      BY <1>1, <1>2, <1>4, <2>1, <2>2, <2>4, <2>5 DEF Typed, durable, calls, fixed
  <1> QED
    BY <1>3, <1>4 DEF StartRuntime

\* No unit recorded has the name of a check of the newest preview.
LEMMA CheckIsNew ==
  ASSUME Typed, p.pc = "observe", NEW inputs, NEW effects, NEW then,
         Work(Step("browserVerification", "runtime", starts), inputs, effects, then)
  PROVE  LET step == Step("browserVerification", "runtime", starts)
         IN  /\ Execute(Request(step, inputs), effects, then) /\ Interrupted(step) = {}
             /\ UNCHANGED <<calls, isolated, starts, preview>>
  <1> DEFINE step == Step("browserVerification", "runtime", starts)
  <1>1. step.procedure = "browserVerification" /\ step.n = starts
    BY DEF Step
  <1>2. Work(step, inputs, effects, then)
    OBVIOUS
  <1> HIDE DEF step
  <1>3. ~Completed(step, inputs)
    BY <1>1 DEF Completed, Tried, Typed, UnitsAreRecorded, Recorded
  <1>4. Interrupted(step) = {}
    BY <1>1 DEF Interrupted, Typed, UnitsAreRecorded, Recorded
  <1>5. Execute(Request(step, inputs), effects, then) /\ UNCHANGED <<calls, isolated, starts, preview>>
    BY <1>2, <1>3, <1>4 DEF Work
  <1> QED
    BY <1>4, <1>5 DEF step

\* A check of the browser: it leaves the source, and what it leaves is recorded, or it is
\* cut short.
Watching ==
  /\ mission' = "EXECUTING" /\ p'.pc = "judge" /\ p'.goal = "observe" /\ ~p'.clean
  /\ p'.browser = Len(checks) + 1
  /\ checks' = Append(checks, [pre |-> tree, post |-> tree', served |-> preview.serves])

CutShort == mission' = "EXECUTING" /\ p' = Worker /\ checks' = checks /\ CheckWasCutShort'

\* No observation changes the source.
LEMMA ObserveIsTyped ==
  ASSUME Typed, Observe
  PROVE  /\ Typed' /\ tree' \in TreeType /\ Source(tree') = Source(tree)
         /\ UNCHANGED isolated /\ (CheckWasCutShort => CheckWasCutShort')
         /\ Watching \/ CutShort
  <1>1. /\ mission = "EXECUTING" /\ p.pc = "observe" /\ Stands(p) /\ p.goal = "observe"
        /\ p \in Locals /\ p.seq + 1 \in Nat
    BY StillObserving DEF Observe, At, Typed
  <1> DEFINE step == Step("browserVerification", "runtime", starts)
             request == Request(step, << >>)
             after(d) == [tree EXCEPT !.dirty = d]
             effects == { Effect("SUCCEEDED", after(d), built) : d \in { tree.dirty, TRUE } }
             n == Len(checks) + 1
             q(o) == [p EXCEPT !.pc = "judge", !.browser = n, !.seen = o, !.clean = FALSE]
  <1>2. PICK o \in Observations : Work(step, << >>, effects, OrThrow(Continue(q(o))))
    BY DEF Observe
  <1> DEFINE then == OrThrow(Continue(q(o)))
  <1>3. /\ Execute(request, effects, then) /\ Interrupted(step) = {}
        /\ UNCHANGED <<calls, isolated, starts, preview>>
    BY <1>1, <1>2, CheckIsNew
  <1>4. /\ request.step = step /\ step.procedure = "browserVerification" /\ step.n = starts
        /\ StepOK(step)
    BY DEF Request, Step, StepOK
  <1>5. \A e \in effects : /\ e.status = "SUCCEEDED" /\ e.tree \in TreeType /\ e.built = built
                           /\ Source(e.tree) = Source(tree)
    <2>1. \A d \in { tree.dirty, TRUE } : after(d) \in TreeType /\ Source(after(d)) = Source(tree)
      BY DEF Typed, TreeType, Source
    <2> HIDE DEF after
    <2>2. \A e \in effects :
            \E d \in { tree.dirty, TRUE } : e = Effect("SUCCEEDED", after(d), built)
      OBVIOUS
    <2>3. \A t : LET e == Effect("SUCCEEDED", t, built)
                 IN  e.status = "SUCCEEDED" /\ e.tree = t /\ e.built = built
      BY DEF Effect
    <2> HIDE DEF effects
    <2> QED
      BY <2>1, <2>2, <2>3
  <1>6. n \in Nat \ {0} /\ o \in Seen
    <2>1. o \in Seen
      <3>1. \A f \in 0..1, a \in 0..MaxAspects :
              f \in Nat /\ a \in Nat
        BY ProductionAssumption
      <3>2. \/ \E f \in 0..1, a \in 0..MaxAspects :
                 o = [parsed |-> TRUE, failed |-> f, aspects |-> a, errors |-> FALSE]
            \/ o = [parsed |-> TRUE, failed |-> 0, aspects |-> 0, errors |-> TRUE]
            \/ o = [parsed |-> FALSE, failed |-> 1, aspects |-> 0, errors |-> TRUE]
        BY DEF Observations
      <3>3. \A f \in Nat, a \in Nat, b \in BOOLEAN, c \in BOOLEAN :
              [parsed |-> b, failed |-> f, aspects |-> a, errors |-> c] \in Seen
        BY DEF Seen
      <3>4. 0 \in Nat /\ 1 \in Nat /\ TRUE \in BOOLEAN /\ FALSE \in BOOLEAN
        OBVIOUS
      <3> QED
        BY <3>1, <3>2, <3>3, <3>4
    <2> QED
      BY <2>1 DEF Typed
  <1>7. /\ q(o) \in Locals /\ q(o).pc = "judge" /\ q(o).browser = n /\ ~q(o).clean
        /\ q(o).goal = "observe" /\ q(o).over = p.over /\ q(o).call = p.call
        /\ q(o).stage = p.stage /\ q(o).class = p.class /\ q(o).seen = o
    <2> HIDE DEF n
    <2> QED
      BY <1>1, <1>6 DEF Locals, Places
  <1>8. then["SUCCEEDED"] = Continue(q(o))
    BY DEF OrThrow, OnSuccess, Results
  <1> HIDE DEF request, step, effects, then, q
  <1>9. PICK e \in effects :
          \/ /\ tree' = e.tree /\ built' = e.built
             /\ units' = units \union { Outcome(request, "SUCCEEDED", e.tree.app) }
             /\ checks' = Append(checks, [pre |-> tree, post |-> e.tree, served |-> preview.serves])
             /\ begun' = begun
             /\ Enters(then["SUCCEEDED"]) /\ UNCHANGED fixed
          \/ /\ Death
             /\ \/ tree' = e.tree /\ built' = e.built
                \/ UNCHANGED <<tree, built>>
             /\ begun' = begun \union {request}
             /\ UNCHANGED <<units, checks>>
    BY <1>3, <1>4, <1>5 DEF Execute, RecordCheck
  <1>10. tree' \in TreeType /\ built' \in Contents /\ Source(tree') = Source(tree)
    BY <1>5, <1>9 DEF Typed
  <1>11. CheckWasCutShort => CheckWasCutShort'
    BY <1>9 DEF CheckWasCutShort
  <1>12. p'.pc # "observe" => UnitsAreRecorded'
    <2>1. starts \in 0..starts
      BY DEF Typed
    <2>2. \A u \in units' : u \in units \/ (u.step = step /\ u.status \in Results)
      BY <1>4, <1>9 DEF Outcome, Results
    <2>3. \A b \in begun' : b \in begun \/ b.step = step
      BY <1>4, <1>9
    <2> QED
      BY <1>3, <1>4, <2>1, <2>2, <2>3 DEF Typed, UnitsAreRecorded, Recorded
  <1>13. CASE /\ tree' = e.tree
              /\ checks' = Append(checks, [pre |-> tree, post |-> e.tree, served |-> preview.serves])
              /\ Enters(then["SUCCEEDED"]) /\ UNCHANGED fixed
    <2> DEFINE r == Continue(q(o))
    <2>1. r.p \in Locals /\ r.p.pc = "judge" /\ Alike(r.p, q(o)) /\ r.mission = "EXECUTING"
      <3> DEFINE s == [q(o) EXCEPT !.seq = p.seq + 1]
      <3>1. r.p = s /\ r.mission = "EXECUTING"
        BY DEF Continue, Going
      <3>2. s \in Locals /\ s.pc = "judge" /\ Alike(s, q(o))
        BY <1>1, <1>7, Counting
      <3> QED
        BY <3>1, <3>2
    <2>2. p' = r.p /\ mission' = "EXECUTING"
      BY <1>8, <1>13, <2>1 DEF Enters
    <2> HIDE DEF r
    <2>3. [pre |-> tree, post |-> tree', served |-> preview.serves] \in Checks
      BY <1>10 DEF Typed, Checks
    <2>4. checks' \in Seq(Checks) /\ Len(checks') = n
      BY <1>13, <2>3 DEF Typed
    <2>5. /\ p' \in Locals /\ p'.pc = "judge" /\ p'.browser = n /\ ~p'.clean
          /\ p'.goal = "observe" /\ p'.over = p.over /\ p'.call = p.call
          /\ p'.stage = p.stage /\ p'.class = p.class
      BY <1>7, <2>1, <2>2 DEF Alike
    <2>6. p.over <= n /\ n # 0 /\ Len(checks) <= n
      BY <1>1 DEF Stands, Typed, Locals
    <2>7. isolated' \subseteq DOMAIN checks'
      BY <1>3, <1>13 DEF Typed
    <2> HIDE DEF n
    <2>8. Stands(p)'
      BY <1>1, <1>3, <2>4, <2>5, <2>6 DEF Stands, Choosing, calls
    <2>9. Typed'
      BY <1>3, <1>10, <1>12, <1>13, <2>2, <2>4, <2>5, <2>7, <2>8 DEF Typed, calls, fixed
    <2> QED
      BY <1>3, <1>10, <1>11, <1>13, <2>2, <2>5, <2>9 DEF Watching, n
  <1>14. CASE Death /\ begun' = begun \union {request} /\ checks' = checks
    <2>1. p' = Worker /\ mission' = "EXECUTING" /\ faults' \in 0..MaxFaults /\ policy' = policy
      BY <1>1, <1>14, ProductionAssumption DEF Death, Typed
    <2>2. Stands(p)' /\ p'.pc # "observe" /\ p'.goal = "observe"
      BY <1>3, <1>14, <2>1, NobodyStands DEF Typed, calls
    <2>3. CheckWasCutShort'
      BY <1>4, <1>14 DEF CheckWasCutShort
    <2>4. Typed'
      BY <1>3, <1>10, <1>12, <1>14, <2>1, <2>2 DEF Typed, calls
    <2> QED
      BY <1>3, <1>10, <1>11, <1>14, <2>1, <2>3, <2>4 DEF CutShort
  <1> QED
    BY <1>9, <1>13, <1>14

\* What is judged was recorded.
LEMMA Judged ==
  ASSUME Typed, p.pc \in { "judge", "choose", "repair", "rescope", "rollback", "finish" }
  PROVE  p.browser \in 1..Len(checks) /\ p.browser \in DOMAIN checks
  <1>1. p.browser \in Nat /\ p.browser # 0 /\ p.browser <= Len(checks)
    BY DEF Typed, Stands, Choosing, Locals
  <1> QED
    BY <1>1 DEF Typed

\* A design correction is undone: an earlier tree is restored.
LEMMA UndoDesignIsTyped ==
  ASSUME Typed, UndoDesign
  PROVE  Typed' /\ Returning /\ \E i \in DOMAIN checks : tree' = checks[i].pre
  <1> DEFINE s == [p EXCEPT !.over = 0, !.design = FALSE, !.passing = FALSE, !.undone = TRUE]
             q == NextRound(s)
  <1>1. mission = "EXECUTING" /\ p.goal = "observe" /\ p \in Locals /\ Stands(p)
    BY StillObserving DEF UndoDesign, At, Typed
  <1>2. p.over \in 1..Len(checks)
    BY <1>1 DEF UndoDesign, Regressed, Stands, Locals, Typed
  <1>3. s \in Locals /\ s.goal = "observe" /\ s.over = 0
    BY <1>1 DEF Locals
  <1> HIDE DEF s
  <1>4. /\ q \in Locals /\ q.call = 0 /\ q.browser = 0 /\ q.over = 0 /\ q.goal = "observe"
    BY <1>3, NextRoundIs
  <1>5. StopRuntime /\ isolated' = isolated /\ Restore(p.over, q, "launch")
    BY DEF UndoDesign, s
  <1> HIDE DEF q
  <1>6. Restored(p.over, q, "launch")
    BY <1>2, <1>4, <1>5, Restoring
  <1>7. preview'.checkpoint \in TreeType /\ preview'.serves \in Contents
    BY <1>5, NothingIsTyped DEF StopRuntime, NoPreview
  <1>8. Typed' /\ ~Choosing(p)' /\ p'.pc \in { "launch", "choose", "rebuild" }
    BY <1>1, <1>4, <1>5, <1>6, <1>7, RestoredIsTyped DEF Typed
  <1>9. Returning
    BY <1>1, <1>2, <1>4, <1>6, <1>8, ReturnedByRestore
  <1>10. p.over \in DOMAIN checks /\ tree' = checks[p.over].pre
    BY <1>2, <1>6 DEF Restored, Typed
  <1> QED
    BY <1>8, <1>9, <1>10

\* What was observed to work is delivered.
LEMMA DeliverIsTyped ==
  ASSUME Typed, Deliver
  PROVE  /\ Typed' /\ p'.pc = "finish" /\ Alike(p', p) /\ p.pc = "judge" /\ BehaviourProven(p.seen)
         /\ mission' = "EXECUTING" /\ UNCHANGED <<durable, isolated>>
  <1> DEFINE q == [p EXCEPT !.pc = "finish"]
  <1>1. /\ mission = "EXECUTING" /\ p.pc = "judge" /\ p.goal = "observe" /\ p \in Locals /\ Stands(p)
        /\ BehaviourProven(p.seen)
        /\ UNCHANGED <<mission, durable, calls, isolated, starts, preview, fixed>>
    BY StillObserving DEF Deliver, At, Typed
  <1>2. q \in Locals /\ q.pc = "finish" /\ Alike(q, p)
    BY <1>1, Placing DEF Places
  <1>3. p' = q
    BY DEF Deliver, Goto
  <1> HIDE DEF q
  <1>4. Stands(q)
    BY <1>1, <1>2 DEF Stands, Choosing, Alike
  <1>5. Typed'
    BY <1>1, <1>2, <1>3, <1>4, GoingIsTyped
  <1> QED
    BY <1>1, <1>2, <1>3, <1>5

\* The rounds, the time or the progress are spent.
LEMMA GivingUpIsTyped ==
  ASSUME Typed, OutOfRounds \/ GiveUp
  PROVE  Typed' /\ mission' = "EXHAUSTED" /\ UNCHANGED <<durable, isolated>>
  <1>1. Exhaust /\ UNCHANGED <<durable, calls, isolated, starts, preview, fixed>>
    BY DEF OutOfRounds, GiveUp
  <1>2. Typed'
    BY <1>1, EndingIsTyped DEF calls, Typed
  <1>3. mission' = "EXHAUSTED"
    BY <1>1 DEF Exhaust, Enters, Over
  <1> QED
    BY <1>1, <1>2, <1>3

\* Before the next correction the tree is as it was before the check.
Correcting ==
  /\ mission' = "EXECUTING" /\ Choosing(p)' /\ p'.goal = "observe" /\ p'.clean
  /\ p'.pc \in { "choose", "rebuild" } /\ checks' = checks
  /\ p'.browser \in DOMAIN checks /\ tree' = checks[p'.browser].pre
  /\ p'.class = "design" => BehaviourProven(p'.seen)
  /\ CheckWasCutShort => CheckWasCutShort'

\* Another correction is chosen on the tree the observation was made of.
LEMMA CorrectIsTyped ==
  ASSUME Typed, Correct
  PROVE  Typed' /\ Correcting
  <1> DEFINE b == BehaviourProven(p.seen)
             c == IF b THEN "design" ELSE "browser"
             o == IF b THEN p.seen ELSE NoObservation
             x == IF p.seen.parsed THEN p.seen.failed = 0 ELSE p.passing
             n == Outstanding
             m == Stalled
             q == [p EXCEPT !.class = c, !.previous = n, !.stalled = m, !.clean = TRUE,
                            !.seen = o, !.passing = x]
  <1>1. mission = "EXECUTING" /\ p.pc = "judge" /\ p.goal = "observe" /\ p \in Locals /\ Stands(p)
    BY StillObserving DEF Correct, At, Typed
  <1>2. p.browser \in 1..Len(checks) /\ p.browser \in DOMAIN checks
    BY <1>1, Judged
  <1>3. StopRuntime /\ isolated' = isolated \union { p.browser } /\ Restore(p.browser, q, "choose")
    BY DEF Correct
  <1>4. c \in { "browser", "design" } /\ x \in BOOLEAN /\ n \in Int /\ m \in Nat /\ o \in Seen
    <2>1. p.seen \in Seen /\ p.passing \in BOOLEAN /\ p.previous \in Int /\ p.stalled \in Nat
      BY <1>1 DEF Locals
    <2>2. p.seen.failed \in Nat /\ p.seen.aspects \in Nat
      BY <2>1 DEF Seen
    <2>3. NoObservation \in Seen
      BY DEF NoObservation, Seen
    <2>4. o \in Seen
      BY <2>1, <2>3
    <2>5. n \in Int
      BY <2>2 DEF Outstanding
    <2>6. m \in Nat
      BY <2>1 DEF Stalled
    <2>7. x \in BOOLEAN
      BY <2>1
    <2>8. c \in { "browser", "design" }
      OBVIOUS
    <2> QED
      BY <2>4, <2>5, <2>6, <2>7, <2>8
  <1>5. c = "design" => b /\ o = p.seen
    OBVIOUS
  <1> HIDE DEF c, o, x, n, m
  <1>6. /\ q \in Locals /\ q.class = c /\ q.clean /\ q.seen = o /\ q.goal = "observe"
        /\ q.browser = p.browser /\ q.over = p.over /\ q.call = p.call
    BY <1>1, <1>4 DEF Locals
  <1> HIDE DEF q
  <1>7. Restored(p.browser, q, "choose")
    BY <1>2, <1>3, <1>6, Restoring
  <1>8. preview'.checkpoint \in TreeType /\ preview'.serves \in Contents
    BY <1>3, NothingIsTyped DEF StopRuntime, NoPreview
  <1>9. isolated' \subseteq DOMAIN checks
    BY <1>2, <1>3 DEF Typed
  <1>10. q.browser # 0 /\ q.class # "none"
    BY <1>2, <1>4, <1>6
  <1>11. /\ Typed' /\ Choosing(p)' /\ mission' = "EXECUTING"
         /\ CheckWasCutShort => CheckWasCutShort'
    BY <1>1, <1>6, <1>7, <1>8, <1>9, <1>10, RestoredIsTyped DEF Stands
  <1>12. p'.pc \in { "choose", "rebuild" }
    BY <1>7 DEF Restored
  <1> QED
    BY <1>2, <1>5, <1>6, <1>7, <1>11, <1>12 DEF Correcting, Restored

\* The worker that chooses a correction.
LEMMA Chooses ==
  ASSUME Typed, At("choose")
  PROVE  /\ mission = "EXECUTING" /\ p.pc = "choose" /\ p.goal = "observe" /\ p \in Locals
         /\ Stands(p) /\ Choosing(p) /\ p.browser \in Nat \ {0} /\ p.class \in { "browser", "design" }
  <1>1. mission = "EXECUTING" /\ p.pc = "choose" /\ p.goal = "observe" /\ p \in Locals /\ Stands(p)
    BY StillObserving DEF At, Typed
  <1>2. Choosing(p)
    BY <1>1 DEF Choosing
  <1> QED
    BY <1>1, <1>2 DEF Stands, Locals

\* The preview is started again, with no correction.
LEMMA RestartIsTyped ==
  ASSUME Typed, RestartOnly
  PROVE  Typed' /\ Returning
  <1> DEFINE q == [NextRound(p) EXCEPT !.pc = "launch"]
  <1>1. mission = "EXECUTING" /\ p.goal = "observe" /\ Stands(p)
    BY Chooses DEF RestartOnly
  <1>2. /\ p' = q
        /\ UNCHANGED <<mission, durable, calls, isolated, starts, preview, fixed>>
    BY DEF RestartOnly
  <1>3. Stands(q) /\ q.pc = "launch" /\ q.goal = "observe"
    BY <1>1, NextRoundStands
  <1> HIDE DEF q
  <1>4. Typed'
    BY <1>1, <1>2, <1>3, GoingIsTyped
  <1>5. Returning
    BY <1>1, <1>2, <1>3 DEF Returning, Choosing, durable, CheckWasCutShort
  <1> QED
    BY <1>4, <1>5

\* No correction is left: the mission ends, or what works is delivered.
LEMMA SpendBudgetIsTyped ==
  ASSUME Typed, SpendBudget
  PROVE  /\ Typed' /\ UNCHANGED <<durable, isolated>>
         /\ \/ mission' \in { "FAILED", "EXHAUSTED" }
            \/ /\ Choosing(p) /\ p.class = "design" /\ mission' = "EXECUTING"
               /\ p'.pc = "finish" /\ Alike(p', p)
  <1>1. /\ mission = "EXECUTING" /\ p.goal = "observe" /\ p \in Locals /\ Stands(p) /\ Choosing(p)
        /\ p.browser # 0
        /\ UNCHANGED <<durable, calls, isolated, starts, preview, fixed>>
    BY Chooses DEF SpendBudget
  <1>2. CASE Throw \/ Exhaust
    <2>1. Typed'
      BY <1>1, <1>2, EndingIsTyped DEF calls, Typed
    <2>2. mission' \in { "FAILED", "EXHAUSTED" }
      BY <1>2, EndIsEarly
    <2> QED
      BY <1>1, <2>1, <2>2
  <1>3. CASE p.class = "design" /\ Goto("finish") /\ UNCHANGED mission
    <2> DEFINE q == [p EXCEPT !.pc = "finish"]
    <2>1. q \in Locals /\ q.pc = "finish" /\ Alike(q, p)
      BY <1>1, Placing DEF Places
    <2>2. p' = q
      BY <1>3 DEF Goto
    <2> HIDE DEF q
    <2>3. Stands(q)
      BY <1>1, <2>1 DEF Stands, Choosing, Alike
    <2>4. Typed'
      BY <1>1, <1>3, <2>1, <2>2, <2>3, GoingIsTyped
    <2> QED
      BY <1>1, <1>3, <2>1, <2>2, <2>4
  <1> QED
    BY <1>2, <1>3 DEF SpendBudget

\* Another correction is to be chosen.
Again ==
  /\ p.pc = "choose" /\ p'.pc = "choose" /\ Alike(p', p)
  /\ mission' = "EXECUTING" /\ UNCHANGED <<durable, isolated>>

\* A proposal is rejected.
LEMMA ChoosingAgain ==
  ASSUME Typed, At("choose"), NEW n \in Nat, p' = [p EXCEPT !.rejected = n], mission' = mission,
         UNCHANGED <<durable, isolated, starts, preview, fixed>>,
         bought' = bought, rejected' \in [Capped -> Nat]
  PROVE  Typed' /\ Again
  <1> DEFINE q == [p EXCEPT !.rejected = n]
  <1>1. mission = "EXECUTING" /\ p.pc = "choose" /\ p \in Locals /\ Stands(p)
    BY Chooses
  <1>2. q \in Locals /\ q.pc = "choose" /\ Alike(q, p)
    BY <1>1 DEF Locals, Alike
  <1>3. p' = q
    OBVIOUS
  <1> HIDE DEF q
  <1>4. Stands(q)
    BY <1>1, <1>2 DEF Stands, Choosing, Alike
  <1>5. Stands(p)'
    BY <1>3, <1>4, GoesOn DEF Typed, durable
  <1>6. Typed'
    BY <1>1, <1>2, <1>3, <1>5, RestIsTyped DEF Typed, durable, fixed
  <1> QED
    BY <1>1, <1>2, <1>3, <1>6 DEF Again

\* A correction is chosen.
LEMMA RepairingIsTyped ==
  ASSUME Typed, At("choose"), NEW c \in Nat \ {0}, p' = Repairing(c), mission' = mission,
         UNCHANGED <<durable, isolated, starts, preview, fixed>>,
         bought' \in Seq(Calls), Len(bought') >= Len(bought), c <= Len(bought'),
         rejected' \in [Capped -> Nat]
  PROVE  Typed' /\ Returning
  <1> DEFINE d == p.class = "design"
             n == p.browser
             q == [p EXCEPT !.pc = "repair", !.call = c, !.over = n, !.design = d]
  <1>1. /\ mission = "EXECUTING" /\ p.pc = "choose" /\ p.goal = "observe" /\ p \in Locals
        /\ Stands(p) /\ Choosing(p) /\ n \in Nat \ {0} /\ p.class \in { "browser", "design" }
    BY Chooses
  <1>2. p' = q /\ d \in BOOLEAN
    BY DEF Repairing
  <1> HIDE DEF d
  <1>3. /\ q \in Locals /\ q.pc = "repair" /\ q.call = c /\ q.goal = "observe" /\ q.browser = n
        /\ q.class = p.class /\ q.over = n
    BY <1>1, <1>2 DEF Locals, Places
  <1> HIDE DEF q
  <1>4. n <= Len(checks)
    BY <1>1 DEF Stands
  <1>5. Stands(p)'
    BY <1>1, <1>2, <1>3, <1>4 DEF Stands, Choosing, durable
  <1>6. Typed'
    BY <1>1, <1>2, <1>3, <1>5, RestIsTyped DEF Typed, durable, fixed
  <1>7. Returning
    BY <1>1, <1>2, <1>3 DEF Returning, Choosing, durable, CheckWasCutShort
  <1> QED
    BY <1>6, <1>7

\* Of numbers up to n there is a largest.
LEMMA LargestOfSome ==
  ASSUME NEW n \in Nat, NEW S \in SUBSET (0..n), S # {}
  PROVE  Max(S) \in S
  <1> DEFINE T == { x..n : x \in S }
  <1>1. IsWellFoundedOn(StrictSubsetOrdering(Nat), FiniteSubsetsOf(Nat))
    BY FS_StrictSubsetOrderingWellFounded
  <1>2. T \subseteq FiniteSubsetsOf(Nat) /\ T # {}
    <2>1. \A x \in S : IsFiniteSet(x..n) /\ x..n \subseteq Nat
      BY FS_Interval
    <2> QED
      BY <2>1 DEF FiniteSubsetsOf
  <1>3. PICK t \in T : \A y \in T : ~(<<y, t>> \in StrictSubsetOrdering(Nat))
    <2> HIDE DEF T
    <2> QED
      BY <1>1, <1>2, WFMin
  <1>4. PICK x \in S : t = x..n
    BY <1>3
  <1>5. \A y \in S : x >= y
    <2> SUFFICES ASSUME NEW y \in S, x < y PROVE FALSE
      OBVIOUS
    <2>1. y..n \in T /\ y..n \subseteq t /\ y..n # t
      BY <1>4
    <2>2. <<y..n, t>> \in StrictSubsetOrdering(Nat)
      BY <1>4, <2>1 DEF StrictSubsetOrdering
    <2> QED
      BY <1>3, <2>1, <2>2
  <1> QED
    BY <1>5 DEF Max

\* The latest call of a class is one that was bought, or none.
LEMMA LatestWasBought ==
  ASSUME Typed, Latest # 0
  PROVE  Latest \in Bought(p.class) /\ Latest \in 1..Len(bought)
  <1> DEFINE S == Bought(p.class) \union {0}
  <1>1. Bought(p.class) \subseteq 1..Len(bought) /\ Len(bought) \in Nat
    BY DEF Bought, Typed
  <1>2. S \in SUBSET (0..Len(bought)) /\ S # {}
    BY <1>1
  <1> HIDE DEF S
  <1>3. Max(S) \in S
    BY <1>1, <1>2, LargestOfSome
  <1> QED
    BY <1>1, <1>3 DEF Latest, S

\* A correction of an earlier worker is replayed, or found not to apply.
LEMMA ReplayIsTyped ==
  ASSUME Typed, ReplayRepair
  PROVE  Typed' /\ (Returning \/ Again)
  <1>1. /\ At("choose") /\ mission' = mission
        /\ UNCHANGED <<durable, calls, isolated, starts, preview, fixed>>
    BY DEF ReplayRepair
  <1>2. bought' = bought /\ rejected' \in [Capped -> Nat]
    BY <1>1 DEF calls, Typed
  <1>3. CASE p' = Repairing(Latest)
    <2> DEFINE c == Latest
    <2>1. Latest # 0
      BY DEF ReplayRepair, MayReplay
    <2>2. c \in 1..Len(bought) /\ p' = Repairing(c)
      BY <1>3, <2>1, LatestWasBought
    <2> HIDE DEF c
    <2>3. c \in Nat \ {0} /\ c <= Len(bought') /\ bought' \in Seq(Calls) /\ Len(bought') >= Len(bought)
      BY <1>2, <2>2 DEF Typed
    <2> QED
      BY <1>1, <1>2, <2>2, <2>3, RepairingIsTyped
  <1>4. CASE p' = [p EXCEPT !.rejected = 1]
    <2>1. 1 \in Nat
      OBVIOUS
    <2> QED
      BY <1>1, <1>2, <1>4, <2>1, ChoosingAgain
  <1> QED
    BY <1>3, <1>4 DEF ReplayRepair

\* A correction is bought, rejected or refused.
LEMMA BuyRepairIsTyped ==
  ASSUME Typed, BuyRepair
  PROVE  /\ Typed' /\ UNCHANGED <<durable, isolated>>
         /\ Returning \/ Again \/ mission' = "FAILED"
  <1>1. At("choose") /\ UNCHANGED <<durable, isolated, starts, preview, fixed>>
    BY DEF BuyRepair
  <1>2. CASE (Throw /\ UNCHANGED calls) \/ Refused(p.class)
    <2>1. Throw /\ bought' = bought /\ rejected' \in [Capped -> Nat]
      BY <1>2, RefusingIsTyped DEF Refused, calls, Typed
    <2>2. Typed'
      BY <1>1, <2>1, EndingIsTyped
    <2>3. mission' = "FAILED"
      BY <2>1 DEF Throw, Enters, Over
    <2> QED
      BY <1>1, <2>2, <2>3
  <1>3. CASE Rejected(p.class)
    <2> DEFINE n == p.rejected + 1
    <2>1. n \in Nat
      BY <1>1, Chooses, Numbers
    <2>2. p' = [p EXCEPT !.rejected = n] /\ mission' = mission
      BY <1>3 DEF Rejected
    <2>3. bought' = bought /\ rejected' \in [Capped -> Nat]
      BY <1>3, RefusingIsTyped DEF Rejected
    <2> HIDE DEF n
    <2> QED
      BY <1>1, <2>1, <2>2, <2>3, ChoosingAgain
  <1>4. CASE /\ \E kind \in Kinds : Buy(p.class, kind, Form)
             /\ p' = Repairing(Len(bought) + 1) /\ UNCHANGED mission
    <2> DEFINE c == Len(bought) + 1
    <2>1. p.class \in Classes /\ Form \in { "patch", "files" }
      BY <1>1, Chooses DEF Classes, Capped, Form
    <2>2. bought' \in Seq(Calls) /\ Len(bought') = c /\ rejected' = rejected
      BY <1>4, <2>1, BuyingIsTyped
    <2>3. c \in Nat \ {0} /\ c >= Len(bought)
      BY DEF Typed
    <2>4. rejected' \in [Capped -> Nat] /\ c <= Len(bought') /\ Len(bought') >= Len(bought)
      BY <2>2, <2>3 DEF Typed
    <2>5. p' = Repairing(c)
      BY <1>4
    <2> HIDE DEF c
    <2> QED
      BY <1>1, <1>4, <2>2, <2>3, <2>4, <2>5, RepairingIsTyped
  <1> QED
    BY <1>2, <1>3, <1>4 DEF BuyRepair

\* A unit on the way to the next preview is such a step.
LEMMA ReturnedByWork ==
  ASSUME NEW then, Keeps, Goes(then), tree'.dirty = tree.dirty,
         \A s \in Results : /\ then[s].p.pc \in { "rescope", "rollback", "launch", "down" }
                            /\ then[s].p.goal = "observe"
  PROVE  Returning
  <1>1. p'.pc \in { "rescope", "rollback", "launch", "down" } /\ p'.goal = "observe"
          /\ mission' # "VERIFYING"
    BY DEF Goes, Worker
  <1> QED
    BY <1>1 DEF Keeps, Returning, Choosing

\* A correction is applied, built, and taken back if it does not build.
LEMMA ApplyIsTyped ==
  ASSUME Typed, ApplyRepair
  PROVE  Typed' /\ Returning
  <1> DEFINE kind == bought[p.call].kind
             content == Patched(p.call)
             building == [p EXCEPT !.pc = "rescope"]
             q == IF kind = "app" THEN building ELSE Restarting(p)
             on == Continue(q)
             then == OrThrow(on)
             step == Step("file", "repair-" \o kind, 0)
  <1>1. mission = "EXECUTING" /\ p.pc = "repair" /\ Stands(p) /\ p.goal = "observe"
          /\ p.seq + 1 \in Nat /\ p \in Locals
    BY StillObserving DEF ApplyRepair, At, Typed
  <1>2. kind \in Kinds /\ content \in Contents
    BY <1>1, PatchIsTyped
  <1>3. step.procedure = "file" /\ Work(step, content, WriteEffects(kind, content), then)
    BY DEF Step, ApplyRepair
  <1>4. Stands(q) /\ q.pc \in { "rescope", "launch" } /\ q.goal = "observe"
    <2>1. building \in Locals /\ building.pc = "rescope" /\ Alike(building, p)
      BY <1>1, Placing DEF Places
    <2> HIDE DEF building
    <2>2. Stands(building) /\ building.goal = "observe"
      BY <1>1, <2>1 DEF Stands, Choosing, Alike
    <2>3. Stands(Restarting(p)) /\ Restarting(p).pc = "launch" /\ Restarting(p).goal = "observe"
      BY <1>1, NextRoundStands DEF Restarting
    <2> QED
      BY <2>1, <2>2, <2>3
  <1> HIDE DEF q, kind, content
  <1>5. Stands(on.p) /\ on.mission = "EXECUTING" /\ on.p.pc \in { "rescope", "launch" }
          /\ on.p.goal = "observe"
    BY <1>1, <1>4, ContinuedStands DEF Alike
  <1>6. \A s \in Results : then[s] \in { on, Over("FAILED") }
    BY Outcomes
  <1> HIDE DEF on, then, step
  <1>7. \A s \in Results : \/ then[s].mission = "FAILED" /\ then[s].p = Worker
                           \/ /\ then[s].mission = "EXECUTING" /\ Stands(then[s].p)
                              /\ then[s].p.pc \notin { "observe", "down" }
    BY <1>5, <1>6, Outcomes
  <1>8. Typed' /\ tree'.dirty = tree.dirty /\ Keeps /\ Goes(then)
    BY <1>1, <1>2, <1>3, <1>7, WritingIsTyped
  <1>9. \A s \in Results : /\ then[s].p.pc \in { "rescope", "rollback", "launch", "down" }
                           /\ then[s].p.goal = "observe"
    BY <1>5, <1>6, Outcomes DEF Worker
  <1> QED
    BY <1>8, <1>9, ReturnedByWork

LEMMA RescopeIsTyped ==
  ASSUME Typed, Rescope
  PROVE  Typed' /\ Returning
  <1> DEFINE back == [p EXCEPT !.pc = "rollback"]
             on == Continue(Restarting(p))
             off == Continue(back)
             then == OnSuccess(on, off)
             step == Step("productionBuild", "scoped", 0)
  <1>1. mission = "EXECUTING" /\ p.pc = "rescope" /\ Stands(p) /\ p.goal = "observe"
          /\ p.seq + 1 \in Nat /\ p \in Locals
    BY StillObserving DEF Rescope, At, Typed
  <1>2. Stands(back) /\ back.pc = "rollback" /\ back.goal = "observe"
    <2>1. back \in Locals /\ back.pc = "rollback" /\ Alike(back, p)
      BY <1>1, Placing DEF Places
    <2> HIDE DEF back
    <2> QED
      BY <1>1, <2>1 DEF Stands, Choosing, Alike
  <1>3. Stands(Restarting(p)) /\ Restarting(p).pc = "launch" /\ Restarting(p).goal = "observe"
    BY <1>1, NextRoundStands DEF Restarting
  <1>4. Work(step, << >>, Effects("productionBuild"), then) /\ step.procedure \in Procedures
    BY DEF Rescope, Step, Procedures
  <1> HIDE DEF back
  <1>5. /\ Stands(on.p) /\ on.mission = "EXECUTING" /\ on.p.pc = "launch" /\ on.p.goal = "observe"
    BY <1>1, <1>3, ContinuedStands DEF Alike
  <1>6. Stands(off.p) /\ off.mission = "EXECUTING" /\ off.p.pc = "rollback"
          /\ off.p.goal = "observe"
    BY <1>1, <1>2, ContinuedStands DEF Alike
  <1>7. \A s \in Results : then[s] \in { on, off }
    BY Outcomes
  <1> HIDE DEF on, off, then, step
  <1>8. \A s \in Results : /\ then[s].mission = "EXECUTING" /\ Stands(then[s].p)
                           /\ then[s].p.pc \in { "launch", "rollback" } /\ then[s].p.goal = "observe"
    BY <1>5, <1>6, <1>7
  <1>9. Typed' /\ tree' = tree /\ Keeps /\ Goes(then)
    BY <1>1, <1>4, <1>8, CommandIsTyped
  <1> QED
    BY <1>8, <1>9, ReturnedByWork

LEMMA RollbackIsTyped ==
  ASSUME Typed, Rollback
  PROVE  Typed' /\ Returning
  <1> DEFINE q == NextRound(p)
             i == p.browser
  <1>1. /\ mission = "EXECUTING" /\ p.goal = "observe" /\ p \in Locals /\ Stands(p)
        /\ i \in 1..Len(checks)
    BY StillObserving, Judged DEF Rollback, At, Typed
  <1>2. q \in Locals /\ q.call = 0 /\ q.browser = 0 /\ q.over = p.over /\ q.goal = "observe"
    BY <1>1, NextRoundIs
  <1>3. isolated' = isolated /\ preview' = preview /\ Restore(i, q, "launch")
    BY DEF Rollback
  <1> HIDE DEF q, i
  <1>4. Restored(i, q, "launch")
    BY <1>1, <1>2, <1>3, Restoring
  <1>5. Typed' /\ ~Choosing(p)' /\ p'.pc \in { "launch", "choose", "rebuild" }
    BY <1>1, <1>2, <1>3, <1>4, RestoredIsTyped DEF Typed, Stands
  <1> QED
    BY <1>1, <1>2, <1>4, <1>5, ReturnedByRestore

\* What was observed is to be certified, from the tree it was observed in.
Finishing ==
  /\ mission' = "EXECUTING" /\ p'.goal = "certify" /\ p'.pc \in { "launch", "rebuild" }
  /\ ~Choosing(p)' /\ p'.browser = p.browser /\ p'.seen = p.seen /\ checks' = checks
  /\ IF p.clean THEN tree' = tree ELSE tree' = checks[p.browser].pre
  /\ CheckWasCutShort => CheckWasCutShort'

\* The tree of the observation is restored, if it is not there.
LEMMA FinishIsTyped ==
  ASSUME Typed, Finish
  PROVE  Typed' /\ Finishing /\ p.pc = "finish" /\ p.browser \in DOMAIN checks
  <1> DEFINE q == [p EXCEPT !.goal = "certify"]
             i == p.browser
  <1>1. /\ mission = "EXECUTING" /\ p.pc = "finish" /\ p \in Locals /\ Stands(p)
        /\ i \in 1..Len(checks) /\ i \in DOMAIN checks
    BY StillObserving, Judged DEF Finish, At, Typed
  <1>2. /\ q \in Locals /\ q.goal = "certify" /\ q.browser = i /\ q.over = p.over
        /\ q.call = p.call /\ q.seen = p.seen
    BY <1>1 DEF Locals
  <1>3. StopRuntime /\ isolated' = isolated
    BY DEF Finish
  <1>4. preview'.checkpoint \in TreeType /\ preview'.serves \in Contents
    BY <1>3, NothingIsTyped DEF StopRuntime, NoPreview
  <1>5. CASE p.clean
    <2> DEFINE r == [q EXCEPT !.pc = "launch"]
    <2>1. p' = r /\ UNCHANGED <<mission, durable, calls, starts, fixed>>
      BY <1>5 DEF Finish
    <2> HIDE DEF q
    <2>2. r \in Locals /\ r.pc = "launch" /\ Alike(r, q)
      BY <1>2, Placing DEF Places
    <2> HIDE DEF r
    <2>3. Stands(r)
      BY <1>1, <1>2, <2>2 DEF Stands, Choosing, Alike
    <2>4. Typed'
      BY <1>1, <1>3, <2>1, <2>2, <2>3, GoingIsTyped DEF StopRuntime
    <2>5. Finishing
      BY <1>1, <1>2, <1>5, <2>1, <2>2 DEF Finishing, Alike, Choosing, durable, CheckWasCutShort
    <2> QED
      BY <1>1, <2>4, <2>5
  <1>6. CASE ~p.clean
    <2>1. Restore(i, q, "launch")
      BY <1>6 DEF Finish
    <2> HIDE DEF q
    <2>2. Restored(i, q, "launch")
      BY <1>1, <1>2, <2>1, Restoring
    <2>3. i # 0 /\ isolated' \subseteq DOMAIN checks
      BY <1>1, <1>3 DEF Typed
    <2>4. /\ Typed' /\ ~Choosing(p)' /\ mission' = "EXECUTING"
          /\ CheckWasCutShort => CheckWasCutShort'
      BY <1>1, <1>2, <1>4, <2>2, <2>3, RestoredIsTyped DEF Stands
    <2>5. Finishing
      BY <1>1, <1>2, <1>6, <2>2, <2>4 DEF Finishing, Restored
    <2> QED
      BY <1>1, <2>4, <2>5
  <1> QED
    BY <1>5, <1>6

\* Verification is entered, or the mission fails.
LEMMA CertifyIsTyped ==
  ASSUME Typed, Certify
  PROVE  /\ Typed' /\ UNCHANGED <<durable, isolated>>
         /\ \/ mission' = "FAILED"
            \/ mission' = "VERIFYING" /\ p.pc = "certify" /\ Alike(p', p) /\ p.browser \in Nat
  <1>1. /\ mission = "EXECUTING" /\ p.pc = "certify" /\ p \in Locals /\ Stands(p)
        /\ UNCHANGED <<durable, calls, isolated, starts, preview, fixed>>
    BY StillObserving DEF Certify, At, Typed
  <1>2. CASE Throw
    <2>1. Typed'
      BY <1>1, <1>2, EndingIsTyped DEF calls, Typed
    <2> QED
      BY <1>1, <1>2, <2>1 DEF Throw, Enters, Over
  <1>3. CASE mission' = "VERIFYING" /\ p' = [p EXCEPT !.pc = "down"]
    <2> DEFINE q == [p EXCEPT !.pc = "down"]
    <2>1. q \in Locals /\ q.pc = "down" /\ Alike(q, p)
      BY <1>1, Placing DEF Places
    <2>2. p' = q /\ mission' = "VERIFYING"
      BY <1>3
    <2> HIDE DEF q
    <2>3. Stands(q)
      BY <1>1, <2>1 DEF Stands, Choosing, Alike
    <2>4. Stands(p)'
      BY <1>1, <2>2, <2>3, GoesOn DEF Typed, durable, calls
    <2>5. Typed'
      BY <1>1, <2>1, <2>2, <2>4, RestIsTyped DEF Typed, durable, calls, fixed
    <2> QED
      BY <1>1, <2>1, <2>2, <2>5 DEF Locals
  <1> QED
    BY <1>2, <1>3 DEF Certify

\* A worker that dies between two units leaves everything as it is.
LEMMA DeathIsTyped ==
  ASSUME Typed, Dies
  PROVE  Typed' /\ Preparing
  <1>1. /\ p' = Worker /\ mission' = "EXECUTING" /\ faults' \in 0..MaxFaults
        /\ UNCHANGED <<policy, durable, calls, isolated, starts, preview>>
    BY ProductionAssumption DEF Dies, Death, Typed
  <1>2. Stands(p)' /\ p'.pc # "observe" /\ p'.goal = "observe"
    BY <1>1, NobodyStands DEF Typed, durable, calls
  <1>3. Typed'
    BY <1>1, <1>2, RestIsTyped DEF Typed, durable, calls
  <1>4. p'.pc \in Early
    BY <1>1 DEF Worker, Early
  <1> QED
    BY <1>1, <1>3, <1>4, Idling

\* The types hold at the start, and every step keeps them.
LEMMA InitIsTyped ==
  ASSUME Init
  PROVE  Typed
  <1>1. << >> \in Contents /\ NoTree \in TreeType
    BY NothingIsTyped
  <1>2. /\ checks = << >> /\ bought = << >> /\ checks \in Seq(Checks) /\ bought \in Seq(Calls)
        /\ Len(checks) = 0 /\ Len(bought) = 0
    BY DEF Init
  <1>3. p = Worker /\ Worker \in Locals
    BY DEF Init, Worker, Locals, Places, Seen, NoObservation
  <1>4. Stands(p)
    BY <1>2, <1>3 DEF Stands, Choosing, Worker
  <1>5. UnitsAreRecorded
    BY DEF Init, UnitsAreRecorded
  <1>6. rejected \in [Capped -> Nat] /\ isolated \subseteq DOMAIN checks
    BY DEF Init
  <1>7. preview.checkpoint \in TreeType /\ preview.serves \in Contents
    BY <1>1 DEF Init, NoPreview
  <1>8. p.goal = "observe"
    BY <1>3 DEF Worker
  <1> QED
    BY <1>1, <1>2, <1>4, <1>5, <1>6, <1>7, <1>8, ProductionAssumption DEF Init, Typed

LEMMA NextIsTyped ==
  ASSUME Typed, Next
  PROVE  Typed'
  <1>1. CASE Resume \/ AdmitBundle \/ CorrectBundle \/ ApplyBundle
    BY <1>1, ResumeIsTyped, AdmitBundleIsTyped, CorrectBundleIsTyped, BundleIsTyped
  <1>2. CASE \/ RunProcedure \/ Relock \/ RecoverDependencies
             \/ RepairProcedure \/ MendProcedure
    BY <1>2, RunProcedureIsTyped, RelockIsTyped, RecoverIsTyped, RepairProcedureIsTyped,
       MendIsTyped
  <1>3. CASE Isolate \/ Rebuild \/ StartRuntime \/ Observe \/ OutOfRounds
    BY <1>3, IsolateIsTyped, RebuildIsTyped, StartIsTyped, ObserveIsTyped, GivingUpIsTyped
  <1>4. CASE UndoDesign \/ Deliver \/ GiveUp \/ Correct
    BY <1>4, UndoDesignIsTyped, DeliverIsTyped, GivingUpIsTyped, CorrectIsTyped
  <1>5. CASE RestartOnly \/ SpendBudget \/ ReplayRepair \/ BuyRepair
    BY <1>5, RestartIsTyped, SpendBudgetIsTyped, ReplayIsTyped, BuyRepairIsTyped
  <1>6. CASE ApplyRepair \/ Rescope \/ Rollback \/ Finish \/ Certify \/ Dies
    BY <1>6, ApplyIsTyped, RescopeIsTyped, RollbackIsTyped, FinishIsTyped, CertifyIsTyped,
       DeathIsTyped
  <1> QED
    BY <1>1, <1>2, <1>3, <1>4, <1>5, <1>6 DEF Next, Progress

LEMMA StutterIsTyped ==
  ASSUME Typed, UNCHANGED vars
  PROVE  Typed'
  BY DEF Typed, Stands, Choosing, UnitsAreRecorded, Recorded, vars, durable, calls, fixed

LEMMA TypingHolds == Spec => []Typed
  <1>1. Init => Typed
    BY InitIsTyped
  <1>2. Typed /\ [Next]_vars => Typed'
    BY NextIsTyped, StutterIsTyped
  <1> QED
    BY <1>1, <1>2, PTL DEF Spec

\* Whatever commands, models and browsers answer and whoever dies, the variables have their
\* types: execute() goes by calls and checks that are recorded.
THEOREM ProductionTypes == Spec => []TypeOK
  <1>1. Typed => TypeOK
    <2> SUFFICES ASSUME Typed PROVE TypeOK
      OBVIOUS
    <2>1. /\ \A i \in DOMAIN checks : checks[i].pre \in TreeType /\ checks[i].post \in TreeType
          /\ \A c \in DOMAIN bought : bought[c].class \in Classes /\ bought[c].kind \in Kinds
      <3>1. /\ \A i \in DOMAIN checks : checks[i] \in Checks
            /\ \A c \in DOMAIN bought : bought[c] \in Calls
        BY DEF Typed
      <3> QED
        BY <3>1 DEF Checks, Calls
    <2>2. /\ p.pc \in Places /\ p.browser \in 0..Len(checks) /\ p.over \in 0..Len(checks)
          /\ p.call \in 0..Len(bought)
      <3>1. p.pc \in Places /\ p.browser \in Nat /\ p.over \in Nat /\ p.call \in Nat
        BY DEF Typed, Stands, Locals
      <3> QED
        BY <3>1 DEF Typed, Stands
    <2>3. /\ \A u \in units : StepOK(u.step) /\ u.status \in Results
          /\ \A b \in begun : StepOK(b.step)
      BY DEF Typed, UnitsAreRecorded, Recorded
    <2> QED
      BY <2>1, <2>2, <2>3 DEF Typed, TypeOK
  <1> QED
    BY <1>1, TypingHolds, PTL

-------------------------------------------------------------------------------
\* Data of a check are in the tree only if a check was cut short.
Clean(t) == t.dirty => CheckWasCutShort

\* Checks were made of trees without data, and left the source.
ChecksAreClean ==
  \A i \in DOMAIN checks : Clean(checks[i].pre) /\ Source(checks[i].pre) = Source(checks[i].post)

\* Before the next preview the data of a check may still be in the tree.
BeforePreview == { "down", "generate", "bundle", "procedure", "diagnose", "mend", "isolate",
                   "judge", "finish" }

\* The tree is without data, or the last check is still to be undone.
TreeIsClean ==
  mission = "EXECUTING" =>
    \/ Clean(tree)
    \/ p.pc \in BeforePreview /\ checks # << >> /\ Len(checks) \notin isolated

\* The place of a worker says what tree it stands on and what was seen of it.
Watched ==
  mission = "EXECUTING" =>
    /\ p.pc = "judge" => p.browser = Len(checks) /\ ~p.clean /\ Source(tree) = Source(checks[p.browser].pre)
    /\ p.pc = "finish" => /\ BehaviourProven(p.seen) /\ Source(tree) = Source(checks[p.browser].pre)
                          /\ p.clean => tree = checks[p.browser].pre
    /\ Choosing(p) => /\ p.clean /\ tree = checks[p.browser].pre
                      /\ p.class = "design" => BehaviourProven(p.seen)
    /\ p.goal = "certify" => /\ p.pc \in { "launch", "rebuild", "certify" } /\ ~Choosing(p)
                             /\ BehaviourProven(p.seen) /\ tree = checks[p.browser].pre
    /\ p.pc = "certify" => p.goal = "certify"

\* The checkpoint that is delivered is one at which the workflows were proved.
CheckpointWasObserved ==
  mission = "VERIFYING" =>
    /\ p.browser \in DOMAIN checks /\ BehaviourProven(p.seen)
    /\ Source(checks[p.browser].pre) = Source(tree)
    /\ tree.dirty => CheckWasCutShort

\* Together: the invariant of the delivery.
DeliveryIInv == ChecksAreClean /\ TreeIsClean /\ Watched /\ CheckpointWasObserved

\* While checks stay and no cut is forgotten, what was clean is clean.
LEMMA CleanStays ==
  ASSUME checks' = checks, CheckWasCutShort => CheckWasCutShort', ChecksAreClean
  PROVE  ChecksAreClean' /\ \A i \in DOMAIN checks : Clean(checks[i].pre)'
  BY DEF ChecksAreClean, Clean

\* An action of the worker is one of a mission that is executed.
LEMMA OthersDeliver ==
  ASSUME ChecksAreClean', mission' \notin { "EXECUTING", "VERIFYING" }
  PROVE  DeliveryIInv'
  BY DEF DeliveryIInv, TreeIsClean, Watched, CheckpointWasObserved

\* A mission that ends without delivery owes nothing.
LEMMA EndDelivers ==
  ASSUME DeliveryIInv, mission' \in { "EXHAUSTED", "FAILED" }, UNCHANGED durable
  PROVE  DeliveryIInv'
  <1>1. ChecksAreClean'
    BY CleanStays DEF DeliveryIInv, durable, CheckWasCutShort
  <1> QED
    BY <1>1, OthersDeliver

\* On the way to a preview nothing is owed but that a check be undone.
LEMMA PreparingDelivers ==
  ASSUME Typed', DeliveryIInv, mission = "EXECUTING", p.pc \in BeforePreview \/ p'.pc = "down", Preparing
  PROVE  DeliveryIInv'
  <1>1. ChecksAreClean'
    BY CleanStays DEF DeliveryIInv, Preparing
  <1>2. TreeIsClean'
    BY DEF DeliveryIInv, Preparing, Early, TreeIsClean, BeforePreview, Clean
  <1>3. mission' = "EXECUTING" => p'.goal = "observe"
    BY DEF Typed, Stands, Preparing, Early, Locals
  <1>4. Watched'
    BY <1>3 DEF Preparing, Early, Watched, Choosing
  <1> QED
    BY <1>1, <1>2, <1>4 DEF DeliveryIInv, CheckpointWasObserved, Preparing

\* Back at a preview the tree is without data.
LEMMA ReturningDelivers ==
  ASSUME DeliveryIInv, Returning, Clean(tree) \/ \E i \in DOMAIN checks : tree' = checks[i].pre
  PROVE  DeliveryIInv'
  <1>1. ChecksAreClean' /\ \A i \in DOMAIN checks : Clean(checks[i].pre)'
    BY CleanStays DEF DeliveryIInv, Returning
  <1>2. Clean(tree)'
    BY <1>1 DEF Returning, Clean, DeliveryIInv
  <1>3. TreeIsClean'
    BY <1>2 DEF TreeIsClean
  <1>4. Watched'
    BY DEF Returning, Watched
  <1> QED
    BY <1>1, <1>3, <1>4 DEF DeliveryIInv, CheckpointWasObserved, Returning

\* In the browser loop the tree is clean unless a check was just made.
LEMMA LoopIsClean ==
  ASSUME DeliveryIInv, mission = "EXECUTING", p.pc \notin BeforePreview
  PROVE  Clean(tree)
  BY DEF DeliveryIInv, TreeIsClean

\* Isolation undoes the last check, unless that was done.
LEMMA IsolateDelivers ==
  ASSUME Typed, DeliveryIInv, Isolate
  PROVE  DeliveryIInv'
  <1>1. /\ mission = "EXECUTING" /\ Returning
        /\ \/ tree' = tree /\ (checks = << >> \/ Len(checks) \in isolated)
           \/ tree' = checks[Len(checks)].pre /\ Len(checks) \in DOMAIN checks
    BY IsolateIsTyped DEF Isolate, At
  <1>2. Clean(tree) \/ \E i \in DOMAIN checks : tree' = checks[i].pre
    BY <1>1 DEF DeliveryIInv, TreeIsClean
  <1> QED
    BY <1>1, <1>2, ReturningDelivers

\* A build of the restored source leaves the tree.
LEMMA RebuildDelivers ==
  ASSUME Typed, DeliveryIInv, Rebuild
  PROVE  DeliveryIInv'
  <1>1. mission = "EXECUTING" /\ p.pc = "rebuild"
    BY DEF Rebuild, At
  <1>2. Typed' /\ tree' = tree /\ Keeps
    BY RebuildIsTyped
  <1>3. CASE p' = Worker /\ mission' # "VERIFYING"
    <2>1. Preparing /\ p'.pc = "down"
      BY <1>2, <1>3 DEF Preparing, Keeps, Worker, Early
    <2> QED
      BY <1>1, <1>2, <2>1, PreparingDelivers
  <1>4. CASE /\ p'.pc = p.next /\ p.next \in { "launch", "choose" }
             /\ mission' = "EXECUTING" /\ p'.goal = p.goal /\ p'.class = p.class
             /\ p'.browser = p.browser /\ p'.seen = p.seen /\ p'.clean = p.clean
    <2>1. Clean(tree)'
      BY <1>1, <1>2, LoopIsClean DEF BeforePreview, Clean, Keeps
    <2>2. ChecksAreClean'
      BY <1>2, CleanStays DEF DeliveryIInv, Keeps
    <2>3. TreeIsClean'
      BY <2>1 DEF TreeIsClean
    <2>4. checks' = checks /\ Watched
      BY <1>2 DEF Keeps, DeliveryIInv
    <2>5. CASE p.next = "launch"
      <3>1. p'.pc = "launch" /\ ~Choosing(p)'
        BY <1>4, <2>5 DEF Choosing
      <3> QED
        <4>1. Watched'
          BY <1>1, <1>2, <1>4, <2>4, <3>1 DEF Watched
        <4> QED
          BY <1>4, <2>2, <2>3, <4>1 DEF DeliveryIInv, CheckpointWasObserved
    <2>6. CASE p.next = "choose"
      <3>1. Choosing(p) /\ p'.pc = "choose" /\ p'.goal # "certify"
        BY <1>1, <1>4, <2>6 DEF Choosing, Typed, Stands
      <3>2. Watched'
        BY <1>1, <1>2, <1>4, <2>4, <3>1 DEF Watched
      <3> QED
        BY <1>4, <2>2, <2>3, <3>2 DEF DeliveryIInv, CheckpointWasObserved
    <2> QED
      BY <1>4, <2>5, <2>6
  <1> QED
    BY <1>3, <1>4, RebuildIsTyped

\* A preview starts on the tree as it is.
LEMMA StartDelivers ==
  ASSUME Typed, DeliveryIInv, StartRuntime
  PROVE  DeliveryIInv'
  <1>1. mission = "EXECUTING" /\ p.pc = "launch" /\ UNCHANGED durable /\ p.goal \in { "observe", "certify" }
    BY StartIsTyped, StillObserving DEF StartRuntime, At, Typed
  <1>2. CASE mission' = "FAILED"
    BY <1>1, <1>2, EndDelivers
  <1>3. CASE p'.pc = p.goal /\ Alike(p', p) /\ mission' = "EXECUTING"
    <2>1. checks' = checks /\ tree' = tree /\ (CheckWasCutShort => CheckWasCutShort')
      BY <1>1 DEF durable, CheckWasCutShort
    <2>2. Clean(tree)'
      BY <1>1, <2>1, LoopIsClean DEF BeforePreview, Clean
    <2>3. ChecksAreClean' /\ TreeIsClean'
      BY <2>1, <2>2, CleanStays DEF DeliveryIInv, TreeIsClean
    <2>4. ~Choosing(p)'
      BY <1>1, <1>3 DEF Choosing
    <2>5. Watched'
      BY <1>1, <1>3, <2>1, <2>4 DEF DeliveryIInv, Watched, Alike
    <2> QED
      BY <1>3, <2>3, <2>5 DEF DeliveryIInv, CheckpointWasObserved
  <1> QED
    BY <1>2, <1>3, StartIsTyped

\* A check is made of a tree without data; what it leaves is marked.
LEMMA ObserveDelivers ==
  ASSUME Typed, DeliveryIInv, Observe
  PROVE  DeliveryIInv'
  <1>1. mission = "EXECUTING" /\ p.pc = "observe"
    BY DEF Observe, At
  <1>2. /\ tree' \in TreeType /\ Source(tree') = Source(tree) /\ UNCHANGED isolated
        /\ CheckWasCutShort => CheckWasCutShort'
    BY ObserveIsTyped
  <1>3. Clean(tree)
    BY <1>1, LoopIsClean DEF BeforePreview
  <1>4. CASE CutShort
    <2>1. ChecksAreClean' /\ Clean(tree)'
      BY <1>2, <1>4, CleanStays DEF CutShort, DeliveryIInv, Clean
    <2>2. TreeIsClean'
      BY <2>1 DEF TreeIsClean
    <2>3. Watched'
      BY <1>4 DEF CutShort, Watched, Worker, Choosing
    <2> QED
      BY <1>4, <2>1, <2>2, <2>3 DEF DeliveryIInv, CheckpointWasObserved, CutShort
  <1>5. CASE Watching
    <2> DEFINE n == Len(checks) + 1
               c == [pre |-> tree, post |-> tree', served |-> preview.serves]
    <2>1. /\ checks' = Append(checks, c) /\ checks \in Seq(Checks) /\ n \in Nat
          /\ p'.browser = n
      BY <1>5 DEF Watching, Typed
    <2>2. /\ c.pre = tree /\ c.post = tree' /\ c \in Checks
      BY <1>2 DEF Typed, Checks
    <2> HIDE DEF c
    <2>3. /\ Len(checks') = n /\ DOMAIN checks' = 1..n /\ checks'[n] = c
          /\ \A i \in DOMAIN checks' : i = n \/ (i \in DOMAIN checks /\ checks'[i] = checks[i])
      BY <2>1, <2>2
    <2>4. n \notin isolated' /\ checks' # << >>
      BY <1>2, <2>1, <2>3 DEF Typed
    <2> HIDE DEF n
    <2>5. ChecksAreClean'
      <3> SUFFICES ASSUME NEW i \in DOMAIN checks'
                   PROVE  /\ Clean(checks[i].pre)'
                          /\ Source(checks'[i].pre) = Source(checks'[i].post)
        BY DEF ChecksAreClean, Source
      <3>1. CASE i = n
        BY <1>2, <1>3, <2>2, <2>3, <3>1 DEF Clean
      <3>2. CASE i \in DOMAIN checks /\ checks'[i] = checks[i]
        BY <1>2, <3>2 DEF DeliveryIInv, ChecksAreClean, Clean
      <3> QED
        BY <2>3, <3>1, <3>2
    <2>6. TreeIsClean'
      BY <1>5, <2>3, <2>4 DEF TreeIsClean, Watching, BeforePreview
    <2>7. p'.pc = "judge" /\ p'.goal = "observe" /\ ~p'.clean /\ ~Choosing(p)'
      BY <1>5 DEF Watching, Choosing
    <2>8. Source(tree') = Source(checks'[p'.browser].pre)
      BY <1>2, <2>1, <2>2, <2>3
    <2>9. Watched'
      BY <2>1, <2>3, <2>7, <2>8 DEF Watched, Source
    <2> QED
      BY <1>5, <2>5, <2>6, <2>9 DEF DeliveryIInv, CheckpointWasObserved, Watching
  <1> QED
    BY <1>4, <1>5, ObserveIsTyped

\* The steps on what was observed: deliver, correct, reject, spend, finish, certify.
LEMMA DeliverDelivers ==
  ASSUME Typed, DeliveryIInv, Deliver
  PROVE  DeliveryIInv'
  <1>1. mission = "EXECUTING" /\ p.pc = "judge"
    BY DEF Deliver, At
  <1>2. /\ p'.pc = "finish" /\ Alike(p', p) /\ BehaviourProven(p.seen) /\ mission' = "EXECUTING"
        /\ tree' = tree /\ checks' = checks /\ isolated' = isolated
        /\ CheckWasCutShort' = CheckWasCutShort /\ p.goal = "observe"
    BY <1>1, DeliverIsTyped, StillObserving DEF durable, CheckWasCutShort, Typed
  <1>3. ChecksAreClean'
    BY <1>2, CleanStays DEF DeliveryIInv
  <1>4. TreeIsClean'
    BY <1>1, <1>2 DEF DeliveryIInv, TreeIsClean, BeforePreview, Clean
  <1>5. Watched'
    BY <1>1, <1>2 DEF DeliveryIInv, Watched, Alike, Choosing, Source
  <1> QED
    BY <1>2, <1>3, <1>4, <1>5 DEF DeliveryIInv, CheckpointWasObserved

LEMMA CorrectDelivers ==
  ASSUME Typed, DeliveryIInv, Correct
  PROVE  DeliveryIInv'
  <1>1. Correcting
    BY CorrectIsTyped
  <1>2. ChecksAreClean' /\ Clean(tree)'
    <2>1. ChecksAreClean' /\ \A i \in DOMAIN checks : Clean(checks[i].pre)'
      BY <1>1, CleanStays DEF Correcting, DeliveryIInv
    <2> QED
      BY <1>1, <2>1 DEF Correcting, Clean
  <1>3. TreeIsClean'
    BY <1>2 DEF TreeIsClean
  <1>4. Watched'
    BY <1>1 DEF Correcting, Watched
  <1> QED
    BY <1>1, <1>2, <1>3, <1>4 DEF DeliveryIInv, CheckpointWasObserved, Correcting

LEMMA AgainDelivers ==
  ASSUME Typed, DeliveryIInv, Again, mission = "EXECUTING"
  PROVE  DeliveryIInv'
  <1>1. Clean(tree) /\ p.goal = "observe"
    BY LoopIsClean, StillObserving DEF Again, BeforePreview, Typed
  <1>2. checks' = checks /\ tree' = tree /\ CheckWasCutShort' = CheckWasCutShort
    BY DEF Again, durable, CheckWasCutShort
  <1>3. ChecksAreClean' /\ TreeIsClean'
    BY <1>1, <1>2, CleanStays DEF DeliveryIInv, TreeIsClean, Clean
  <1>4. Watched'
    BY <1>1, <1>2 DEF DeliveryIInv, Watched, Again, Alike, Choosing
  <1> QED
    BY <1>3, <1>4 DEF DeliveryIInv, CheckpointWasObserved, Again

LEMMA SpendBudgetDelivers ==
  ASSUME Typed, DeliveryIInv, SpendBudget
  PROVE  DeliveryIInv'
  <1>1. /\ mission = "EXECUTING" /\ p.pc = "choose" /\ p.goal = "observe" /\ Choosing(p)
        /\ UNCHANGED durable
    BY Chooses, SpendBudgetIsTyped DEF SpendBudget
  <1>2. CASE mission' \in { "FAILED", "EXHAUSTED" }
    BY <1>1, <1>2, EndDelivers
  <1>3. CASE p.class = "design" /\ mission' = "EXECUTING" /\ p'.pc = "finish" /\ Alike(p', p)
    <2>1. checks' = checks /\ tree' = tree /\ CheckWasCutShort' = CheckWasCutShort
      BY <1>1 DEF durable, CheckWasCutShort
    <2>2. Clean(tree)
      BY <1>1, LoopIsClean DEF BeforePreview
    <2>3. ChecksAreClean' /\ TreeIsClean'
      BY <2>1, <2>2, CleanStays DEF DeliveryIInv, TreeIsClean, Clean
    <2>4. Watched'
      <3>1. BehaviourProven(p.seen) /\ tree = checks[p.browser].pre
        BY <1>1, <1>3 DEF DeliveryIInv, Watched
      <3>2. /\ BehaviourProven(p'.seen) /\ tree' = checks'[p'.browser].pre
            /\ ~Choosing(p)' /\ p'.goal = "observe"
        BY <1>1, <1>3, <2>1, <3>1 DEF Alike, Choosing
      <3> QED
        BY <1>3, <3>2 DEF Watched, Source
    <2> QED
      BY <1>3, <2>3, <2>4 DEF DeliveryIInv, CheckpointWasObserved
  <1> QED
    BY <1>2, <1>3, SpendBudgetIsTyped

\* A correction that is chosen starts on the tree of the observation.
LEMMA ChoosingDelivers ==
  ASSUME Typed, DeliveryIInv, RestartOnly \/ ReplayRepair \/ BuyRepair
  PROVE  DeliveryIInv'
  <1>1. mission = "EXECUTING" /\ p.pc = "choose"
    BY DEF RestartOnly, ReplayRepair, BuyRepair, At
  <1>2. Clean(tree)
    BY <1>1, LoopIsClean DEF BeforePreview
  <1>3. \/ Returning \/ Again
        \/ mission' = "FAILED" /\ UNCHANGED durable
    BY RestartIsTyped, ReplayIsTyped, BuyRepairIsTyped
  <1> QED
    BY <1>1, <1>2, <1>3, ReturningDelivers, AgainDelivers, EndDelivers

\* A correction changes the source, and a further observation is due.
LEMMA RepairingDelivers ==
  ASSUME Typed, DeliveryIInv, ApplyRepair \/ Rescope \/ Rollback
  PROVE  DeliveryIInv'
  <1>1. mission = "EXECUTING" /\ p.pc \in { "repair", "rescope", "rollback" }
    BY DEF ApplyRepair, Rescope, Rollback, At
  <1>2. Clean(tree) /\ Returning
    BY <1>1, LoopIsClean, ApplyIsTyped, RescopeIsTyped, RollbackIsTyped DEF BeforePreview
  <1> QED
    BY <1>2, ReturningDelivers

\* The tree that is certified is the one before the observation.
LEMMA FinishDelivers ==
  ASSUME Typed, DeliveryIInv, Finish
  PROVE  DeliveryIInv'
  <1>1. Finishing /\ p.pc = "finish" /\ mission = "EXECUTING" /\ p.browser \in DOMAIN checks
    BY FinishIsTyped DEF Finish, At
  <1>2. BehaviourProven(p.seen) /\ (p.clean => tree = checks[p.browser].pre)
    BY <1>1 DEF DeliveryIInv, Watched
  <1>3. tree' = checks[p.browser].pre
    BY <1>1, <1>2 DEF Finishing
  <1>4. ChecksAreClean' /\ Clean(tree)'
    <2>1. ChecksAreClean' /\ \A i \in DOMAIN checks : Clean(checks[i].pre)'
      BY <1>1, CleanStays DEF Finishing, DeliveryIInv
    <2> QED
      BY <1>1, <1>3, <2>1 DEF Clean, Finishing
  <1>5. TreeIsClean'
    BY <1>4 DEF TreeIsClean
  <1>6. Watched'
    BY <1>1, <1>2, <1>3 DEF Finishing, Watched
  <1> QED
    BY <1>1, <1>4, <1>5, <1>6 DEF DeliveryIInv, CheckpointWasObserved, Finishing

\* What is certified was observed, and is without data.
LEMMA CertifyDelivers ==
  ASSUME Typed, DeliveryIInv, Certify
  PROVE  DeliveryIInv'
  <1>1. /\ mission = "EXECUTING" /\ p.pc = "certify" /\ UNCHANGED durable
        /\ \/ mission' = "FAILED"
           \/ mission' = "VERIFYING" /\ Alike(p', p)
    BY CertifyIsTyped DEF Certify, At
  <1>2. CASE mission' = "FAILED"
    BY <1>1, <1>2, EndDelivers
  <1>3. CASE mission' = "VERIFYING" /\ Alike(p', p)
    <2>1. /\ checks' = checks /\ tree' = tree /\ CheckWasCutShort' = CheckWasCutShort
      BY <1>1 DEF durable, CheckWasCutShort
    <2>2. Clean(tree) /\ p.goal = "certify"
      BY <1>1, LoopIsClean DEF BeforePreview, DeliveryIInv, Watched
    <2>3. BehaviourProven(p.seen) /\ tree = checks[p.browser].pre
      BY <1>1, <2>2 DEF DeliveryIInv, Watched
    <2>4. p.browser \in DOMAIN checks
      <3>1. p.browser \in Nat /\ p.browser # 0 /\ p.browser <= Len(checks)
        BY <2>2 DEF Typed, Stands, Locals
      <3> QED
        BY <3>1 DEF Typed
    <2>5. CheckpointWasObserved'
      BY <1>3, <2>1, <2>2, <2>3, <2>4 DEF CheckpointWasObserved, Alike, Clean, Source
    <2>6. ChecksAreClean'
      BY <2>1, CleanStays DEF DeliveryIInv
    <2> QED
      BY <1>3, <2>5, <2>6 DEF DeliveryIInv, TreeIsClean, Watched
  <1> QED
    BY <1>1, <1>2, <1>3

\* Every step keeps the invariant of the delivery.
LEMMA NextDelivers ==
  ASSUME Typed, DeliveryIInv, Next
  PROVE  DeliveryIInv'
  <1>0. mission = "EXECUTING" /\ Typed'
    BY NextIsTyped
    DEF Next, Progress, Resume, AdmitBundle, CorrectBundle, ApplyBundle, RunProcedure, Relock,
        RecoverDependencies, RepairProcedure, MendProcedure, Isolate, Rebuild, StartRuntime,
        Observe, OutOfRounds, UndoDesign, Deliver, GiveUp, Correct, RestartOnly, SpendBudget,
        ReplayRepair, BuyRepair, ApplyRepair, Rescope, Rollback, Finish, Certify, Dies, At
  <1>1. CASE Resume \/ AdmitBundle \/ CorrectBundle \/ ApplyBundle
    <2>1. Preparing
      BY <1>1, ResumeIsTyped, AdmitBundleIsTyped, CorrectBundleIsTyped, BundleIsTyped
    <2>2. p.pc \in BeforePreview
      BY <1>1 DEF Resume, AdmitBundle, CorrectBundle, ApplyBundle, At, BeforePreview
    <2> QED
      BY <1>0, <2>1, <2>2, PreparingDelivers
  <1>2. CASE \/ RunProcedure \/ Relock \/ RecoverDependencies
             \/ RepairProcedure \/ MendProcedure
    <2>1. Preparing
      BY <1>2, RunProcedureIsTyped, RelockIsTyped, RecoverIsTyped, RepairProcedureIsTyped,
         MendIsTyped
    <2>2. p.pc \in BeforePreview
      BY <1>2 DEF RunProcedure, Relock, RecoverDependencies, RepairProcedure, MendProcedure, At,
                  BeforePreview
    <2> QED
      BY <1>0, <2>1, <2>2, PreparingDelivers
  <1>3. CASE Isolate \/ Rebuild \/ StartRuntime \/ Observe
    BY <1>3, IsolateDelivers, RebuildDelivers, StartDelivers, ObserveDelivers
  <1>4. CASE OutOfRounds \/ GiveUp
    BY <1>4, GivingUpIsTyped, EndDelivers
  <1>5. CASE UndoDesign
    BY <1>5, UndoDesignIsTyped, ReturningDelivers
  <1>6. CASE Deliver \/ Correct \/ SpendBudget \/ Finish \/ Certify
    BY <1>6, DeliverDelivers, CorrectDelivers, SpendBudgetDelivers, FinishDelivers,
       CertifyDelivers
  <1>7. CASE RestartOnly \/ ReplayRepair \/ BuyRepair
    BY <1>7, ChoosingDelivers
  <1>8. CASE ApplyRepair \/ Rescope \/ Rollback
    BY <1>8, RepairingDelivers
  <1>9. CASE Dies
    <2>1. Preparing /\ p'.pc = "down"
      BY <1>9, DeathIsTyped DEF Dies, Death, Worker
    <2> QED
      BY <1>0, <2>1, PreparingDelivers
  <1> QED
    BY <1>1, <1>2, <1>3, <1>4, <1>5, <1>6, <1>7, <1>8, <1>9 DEF Next, Progress

LEMMA DeliveryHolds == Spec => []DeliveryIInv
  <1>1. Init => DeliveryIInv
    <2> SUFFICES ASSUME Init PROVE DeliveryIInv
      OBVIOUS
    <2>1. /\ mission = "EXECUTING" /\ DOMAIN checks = {} /\ ~tree.dirty /\ p.pc = "down"
          /\ p.goal = "observe"
      BY DEF Init, NoTree, Worker
    <2> QED
      BY <2>1 DEF DeliveryIInv, ChecksAreClean, TreeIsClean, Watched, CheckpointWasObserved,
                  Clean, Choosing
  <1>2. Typed /\ Typed' /\ DeliveryIInv /\ [Next]_vars => DeliveryIInv'
    <2>1. ASSUME UNCHANGED vars, DeliveryIInv PROVE DeliveryIInv'
      BY <2>1 DEF vars, durable, DeliveryIInv, ChecksAreClean, TreeIsClean, Watched,
                  CheckpointWasObserved, Clean, Choosing, CheckWasCutShort
    <2> QED
      BY <2>1, NextDelivers
  <1> QED
    BY <1>1, <1>2, TypingHolds, PTL DEF Spec

-------------------------------------------------------------------------------
(* The build that is served, in the first worker, while no correction of   *)
(* the design was taken back.                                              *)

Calm == faults = 0 /\ ~p.undone

\* No unit was begun and left, and none is made under a name that was used.
Fresh == begun = {} /\ \A u \in units : u.seq \in 0..p.seq

\* The build is one of the tree, or of the tree of the last check while a correction of it
\* is built; what a browser saw was built from the source that is corrected or certified.
Served ==
  /\ Fresh
  /\ p.pc \in Early => checks = << >>
  /\ p.pc \in Early \ { "isolate" } => built = << >>
  /\ p.pc \in { "isolate", "launch", "observe", "judge", "choose", "repair", "finish", "certify" } =>
       built \in { << >>, tree.app }
  /\ p.pc \in { "rescope", "rollback" } => built \in { << >>, checks[p.browser].pre.app }
  /\ p.pc = "repair" => tree.app = checks[p.browser].pre.app
  /\ p.pc \in { "observe", "judge", "certify" } => preview.serves = tree.app
  /\ (p.pc \in { "judge", "finish" } \/ Choosing(p) \/ p.goal = "certify") =>
       checks[p.browser].served = tree.app

ServedIInv ==
  Calm => /\ mission = "EXECUTING" => Served
          /\ mission = "VERIFYING" => /\ checks[p.browser].served = tree.app
                                      /\ preview.serves = tree.app

\* A mission that ends otherwise owes nothing.
LEMMA OthersServe ==
  ASSUME mission' \in { "EXHAUSTED", "FAILED" }
  PROVE  ServedIInv'
  BY DEF ServedIInv

\* Without a death a unit runs to its end, or its request is refused.
LEMMA UndisturbedWork ==
  ASSUME NEW step, NEW inputs, NEW effects, NEW then, Work(step, inputs, effects, then),
         faults \in Nat, faults' = 0, \A e \in effects : e.status \in Results
  PROVE  /\ faults = 0 /\ preview' = preview
         /\ mission' = "FAILED" \/ \E s \in Results : mission' = then[s].mission /\ p' = then[s].p
  <1>1. ~Death
    BY DEF Death
  <1>2. ASSUME NEW request, Execute(request, effects, then)
        PROVE  faults' = faults /\ \E s \in Results : Enters(then[s])
    BY <1>1, <1>2 DEF Execute, fixed
  <1>3. CASE Completed(step, inputs)
    BY <1>3 DEF Work, Enters, Results, fixed
  <1>4. CASE ~Completed(step, inputs) /\ Interrupted(step) # {}
    <2>1. Recover(step, inputs, effects, then)
      BY <1>4 DEF Work
    <2>2. faults' = faults /\ (Throw \/ \E s \in Results : Enters(then[s]))
      BY <1>2, <2>1 DEF Recover, fixed, Results
    <2> QED
      BY <2>2 DEF Work, Enters, Throw, Over
  <1>5. CASE ~Completed(step, inputs) /\ Interrupted(step) = {}
    BY <1>2, <1>5 DEF Work, Enters
  <1> QED
    BY <1>3, <1>4, <1>5 DEF Work

\* If none was made under its name either, it has its effect.
LEMMA FreshWork ==
  ASSUME NEW step, NEW inputs, NEW effects, NEW then, Work(step, inputs, effects, then),
         faults = 0, faults' = 0, Fresh, p.seq \in Nat
  PROVE  \E e \in effects :
           /\ tree' = e.tree /\ built' = e.built
           /\ mission' = then[e.status].mission /\ p' = then[e.status].p
           /\ begun' = {} /\ \A u \in units' : u.seq \in 0..p.seq + 1
           /\ RecordCheck(Request(step, inputs), e.tree)
  <1>1. ~Death
    BY DEF Death
  <1>2. Tried(step) = {}
    BY DEF Fresh, Tried
  <1>3. Interrupted(step) = {} /\ ~Completed(step, inputs)
    BY <1>2 DEF Fresh, Interrupted, Completed
  <1> DEFINE request == Request(step, inputs)
  <1>4. Execute(request, effects, then)
    BY <1>3 DEF Work
  <1>5. request.seq = p.seq + 1
    BY DEF Request
  <1> HIDE DEF request
  <1>6. PICK e \in effects :
          /\ tree' = e.tree /\ built' = e.built
          /\ units' = units \union { Outcome(request, e.status, e.tree.app) }
          /\ RecordCheck(request, e.tree)
          /\ begun' = begun \ Interrupted(request.step)
          /\ Enters(then[e.status])
    BY <1>1, <1>4 DEF Execute
  <1>7. begun' = {}
    BY <1>6 DEF Fresh
  <1>8. \A u \in units' : u.seq \in 0..p.seq + 1
    BY <1>5, <1>6 DEF Fresh, Outcome
  <1> QED
    BY <1>6, <1>7, <1>8 DEF Enters, request

\* Together: a unit of a calm worker that is no check of the browser.
LEMMA CalmWork ==
  ASSUME Typed, ServedIInv, mission = "EXECUTING", Calm',
         NEW step, NEW inputs, NEW effects, NEW then, Work(step, inputs, effects, then),
         step.procedure # "browserVerification", \A e \in effects : e.status \in Results,
         \A s \in Results : \/ then[s].mission = "FAILED"
                            \/ /\ then[s].mission = "EXECUTING" /\ then[s].p.seq = p.seq + 1
                               /\ then[s].p.undone = p.undone
  PROVE  \/ mission' = "FAILED"
         \/ /\ mission' = "EXECUTING" /\ Served /\ Fresh' /\ UNCHANGED <<checks, preview>>
            /\ \E e \in effects : /\ tree' = e.tree /\ built' = e.built
                                  /\ then[e.status].mission = "EXECUTING" /\ p' = then[e.status].p
  <1>1. p.seq \in Nat /\ faults \in Nat /\ faults' = 0
    BY ProductionAssumption DEF Typed, Stands, Locals, Calm
  <1>2. /\ faults = 0 /\ preview' = preview
        /\ mission' = "FAILED" \/ \E s \in Results : mission' = then[s].mission /\ p' = then[s].p
    BY <1>1, UndisturbedWork
  <1> SUFFICES ASSUME mission' # "FAILED"
               PROVE  /\ mission' = "EXECUTING" /\ Served /\ Fresh' /\ UNCHANGED <<checks, preview>>
                      /\ \E e \in effects :
                           /\ tree' = e.tree /\ built' = e.built
                           /\ then[e.status].mission = "EXECUTING" /\ p' = then[e.status].p
    OBVIOUS
  <1>3. ~p.undone
    BY <1>2 DEF Calm
  <1>4. Served
    BY <1>2, <1>3 DEF ServedIInv, Calm
  <1>5. PICK e \in effects :
          /\ tree' = e.tree /\ built' = e.built
          /\ mission' = then[e.status].mission /\ p' = then[e.status].p
          /\ begun' = {} /\ \A u \in units' : u.seq \in 0..p.seq + 1
          /\ RecordCheck(Request(step, inputs), e.tree)
    BY <1>1, <1>2, <1>4, FreshWork DEF Served
  <1>6. p'.seq = p.seq + 1
    BY <1>5
  <1>7. checks' = checks
    BY <1>5 DEF RecordCheck, Request
  <1> QED
    BY <1>2, <1>4, <1>5, <1>6, <1>7 DEF Fresh

\* A worker that goes on is the same, a unit later.
LEMMA Onward ==
  ASSUME NEW q \in Locals, p.seq + 1 \in Nat
  PROVE  LET r == Continue(q)
         IN  /\ r.mission = "EXECUTING" /\ r.p.seq = p.seq + 1 /\ r.p.pc = q.pc
             /\ r.p.undone = q.undone /\ r.p.next = q.next /\ r.p.goal = q.goal
             /\ r.p.browser = q.browser /\ r.p \in Locals
  <1> DEFINE r == [q EXCEPT !.seq = p.seq + 1]
  <1>1. Continue(q).p = r /\ Continue(q).mission = "EXECUTING"
    BY DEF Continue, Going
  <1>2. /\ r.seq = p.seq + 1 /\ r.pc = q.pc /\ r.undone = q.undone /\ r.next = q.next
        /\ r.goal = q.goal /\ r.browser = q.browser /\ r \in Locals
    BY DEF Locals
  <1> QED
    BY <1>1, <1>2

\* The entry of a stage, the next stage and the next attempt.
LEMMA Entered ==
  ASSUME NEW q \in Locals
  PROVE  /\ Enter(q) \in Locals /\ Enter(q).undone = q.undone /\ Enter(q).goal = q.goal
         /\ Enter(q).seq = q.seq
         /\ Enter(q).pc \in { "procedure", "isolate" }
         /\ q.stage = Len(Pipeline) + 1 => Enter(q).pc = "isolate"
  <1>1. q.stage \in Nat /\ Len(Pipeline) \in Nat
    BY ProductionAssumption DEF Locals
  <1>2. ~(Len(Pipeline) + 1 <= Len(Pipeline))
    BY <1>1
  <1> QED
    BY <1>1, <1>2 DEF Enter, Locals, Places

LEMMA StageEntered ==
  ASSUME NEW q \in Locals
  PROVE  /\ NextStage(q) \in Locals /\ NextStage(q).undone = q.undone
         /\ NextStage(q).goal = q.goal /\ NextStage(q).pc \in { "procedure", "isolate" }
         /\ q.stage = Len(Pipeline) => NextStage(q).pc = "isolate"
  <1> DEFINE n == q.stage + 1
             r == [q EXCEPT !.stage = n, !.try = 0, !.call = 0, !.rejected = 0]
  <1>1. n \in Nat \ {0}
    BY Numbers
  <1> HIDE DEF n
  <1>2. r \in Locals /\ r.undone = q.undone /\ r.goal = q.goal /\ r.stage = n
    BY <1>1 DEF Locals
  <1>3. NextStage(q) = Enter(r)
    BY DEF NextStage, n
  <1> HIDE DEF r
  <1> QED
    BY <1>2, <1>3, Entered DEF n

LEMMA TryEntered ==
  ASSUME NEW q \in Locals
  PROVE  /\ NextTry(q) \in Locals /\ NextTry(q).undone = q.undone
         /\ NextTry(q).goal = q.goal /\ NextTry(q).pc \in { "procedure", "isolate" }
  <1> DEFINE n == q.try + 1
             r == [q EXCEPT !.try = n, !.call = 0, !.rejected = 0]
  <1>1. n \in Nat
    BY Numbers
  <1>2. NextTry(q) = IF n < MaxTries THEN Enter(r) ELSE NextStage(q)
    BY DEF NextTry
  <1> HIDE DEF n
  <1>3. r \in Locals /\ r.undone = q.undone /\ r.goal = q.goal
    BY <1>1 DEF Locals
  <1> HIDE DEF r
  <1> QED
    BY <1>2, <1>3, Entered, StageEntered

LEMMA RoundEntered ==
  ASSUME NEW q \in Locals
  PROVE  /\ NextRound(q) \in Locals /\ NextRound(q).undone = q.undone
         /\ NextRound(q).goal = q.goal /\ NextRound(q).seq = q.seq
         /\ Restarting(q) \in Locals /\ Restarting(q).undone = q.undone
         /\ Restarting(q).goal = q.goal /\ Restarting(q).seq = q.seq
         /\ Restarting(q).pc = "launch"
  <1> DEFINE n == q.round + 1
             r == NextRound(q)
  <1>1. n \in Nat
    BY Numbers
  <1>2. r = [q EXCEPT !.round = n, !.class = "none", !.rejected = 0, !.call = 0,
                      !.browser = 0, !.seen = NoObservation, !.clean = FALSE]
    BY DEF NextRound
  <1>3. NoObservation \in Seen
    BY DEF NoObservation, Seen
  <1> HIDE DEF n, r
  <1>4. r \in Locals /\ r.undone = q.undone /\ r.goal = q.goal /\ r.seq = q.seq
    <2> HIDE DEF NoObservation
    <2> QED
      BY <1>1, <1>2, <1>3 DEF Locals
  <1>5. LET x == [r EXCEPT !.pc = "launch"]
        IN  x \in Locals /\ x.undone = q.undone /\ x.goal = q.goal /\ x.seq = q.seq /\ x.pc = "launch"
    BY <1>4 DEF Locals, Places
  <1> QED
    BY <1>4, <1>5 DEF r, Restarting

\* A step that is no unit and no restore.
LEMMA CalmStill ==
  ASSUME ServedIInv, mission = "EXECUTING", Calm', UNCHANGED <<durable, fixed>>,
         p'.seq = p.seq, p'.undone = p.undone
  PROVE  Served /\ Fresh' /\ UNCHANGED <<tree, built, checks>>
  BY DEF ServedIInv, Calm, durable, fixed, Served, Fresh

\* On the way to the first check there is no build but that of the last procedure.
LEMMA EarlyServes ==
  ASSUME mission' = "EXECUTING", Fresh', checks' = << >>, p'.pc \in Early, p'.goal = "observe",
         built' = << >> \/ (p'.pc = "isolate" /\ built' = tree'.app)
  PROVE  ServedIInv'
  BY DEF ServedIInv, Served, Early, Choosing

\* The worker starts, and the bundle is admitted.
LEMMA StartingServes ==
  ASSUME Typed, ServedIInv, Calm', Resume \/ AdmitBundle
  PROVE  ServedIInv'
  <1>1. /\ mission = "EXECUTING" /\ mission' = "EXECUTING" /\ p \in Locals /\ p.goal = "observe"
        /\ p.pc \in { "down", "generate" } /\ UNCHANGED <<durable, fixed>>
        /\ p' = [p EXCEPT !.pc = "generate"] \/ p' = [p EXCEPT !.pc = "bundle"]
    BY StillObserving DEF Resume, AdmitBundle, At, Goto, Typed
  <1>2. /\ p'.seq = p.seq /\ p'.undone = p.undone /\ p'.goal = "observe"
        /\ p'.pc \in { "generate", "bundle" }
    BY <1>1 DEF Locals
  <1>3. Served /\ Fresh' /\ UNCHANGED <<tree, built, checks>>
    BY <1>1, <1>2, CalmStill
  <1>4. built' = << >> /\ checks' = << >>
    BY <1>1, <1>3 DEF Served, Early
  <1> QED
    BY <1>1, <1>2, <1>3, <1>4, EarlyServes DEF Early

LEMMA CorrectBundleServes ==
  ASSUME Typed, ServedIInv, Calm', CorrectBundle
  PROVE  ServedIInv'
  <1>1. /\ mission = "EXECUTING" /\ p.pc = "generate" /\ p.goal = "observe"
        /\ UNCHANGED <<durable, fixed>>
        /\ mission' = "FAILED" \/ (p' = p /\ mission' = mission)
    BY StillObserving DEF CorrectBundle, At, Typed, Throw, Enters, Over, Refused
  <1>2. CASE p' = p /\ mission' = mission
    <2>1. Served /\ Fresh' /\ UNCHANGED <<tree, built, checks>>
      BY <1>1, <1>2, CalmStill
    <2>2. built' = << >> /\ checks' = << >>
      BY <1>1, <2>1 DEF Served, Early
    <2> QED
      BY <1>1, <1>2, <2>1, <2>2, EarlyServes DEF Early
  <1> QED
    BY <1>1, <1>2, OthersServe

\* The bundle is written: there is no build yet.
LEMMA BundleServes ==
  ASSUME Typed, ServedIInv, Calm', ApplyBundle
  PROVE  ServedIInv'
  <1>1. mission = "EXECUTING" /\ p.pc = "bundle" /\ p \in Locals /\ p.goal = "observe"
          /\ p.seq + 1 \in Nat
    BY StillObserving DEF ApplyBundle, At, Typed
  <1>2. /\ Enter(p) \in Locals /\ Enter(p).undone = p.undone /\ Enter(p).goal = "observe"
        /\ Enter(p).seq = p.seq /\ Enter(p).pc \in { "procedure", "isolate" }
    BY <1>1, Entered
  <1>3. CASE p' = Enter(p) /\ UNCHANGED <<mission, durable, calls, isolated, starts, preview, fixed>>
    <2>1. Served /\ Fresh' /\ UNCHANGED <<tree, built, checks>>
      BY <1>1, <1>2, <1>3, CalmStill
    <2>2. built' = << >> /\ checks' = << >>
      BY <1>1, <2>1 DEF Served, Early
    <2> QED
      BY <1>1, <1>2, <1>3, <2>1, <2>2, EarlyServes DEF Early
  <1>4. CASE Work(Step("file", "bundle", 0), <<0>>, WriteEffects("app", <<0>>),
                  OrThrow(Continue(Enter(p))))
    <2> DEFINE step == Step("file", "bundle", 0)
               effects == WriteEffects("app", <<0>>)
               on == Continue(Enter(p))
               then == OrThrow(on)
    <2>1. /\ on.mission = "EXECUTING" /\ on.p.seq = p.seq + 1 /\ on.p.undone = p.undone
          /\ on.p.pc \in { "procedure", "isolate" } /\ on.p.goal = "observe"
      BY <1>1, <1>2, Onward
    <2>2. \A s \in Results : then[s] \in { on, Over("FAILED") }
      BY Outcomes
    <2>3. step.procedure # "browserVerification" /\ \A e \in effects : e.status \in Results /\ e.built = built
      BY DEF Step, WriteEffects, Effect, Results
    <2> HIDE DEF step, effects, on, then
    <2>4. \A s \in Results :
            \/ then[s].mission = "FAILED"
            \/ /\ then[s].mission = "EXECUTING" /\ then[s].p.seq = p.seq + 1
               /\ then[s].p.undone = p.undone
      BY <2>1, <2>2, Outcomes
    <2>5. \/ mission' = "FAILED"
          \/ /\ mission' = "EXECUTING" /\ Served /\ Fresh' /\ UNCHANGED <<checks, preview>>
             /\ \E e \in effects : /\ tree' = e.tree /\ built' = e.built
                                   /\ then[e.status].mission = "EXECUTING" /\ p' = then[e.status].p
      BY <1>1, <1>4, <2>3, <2>4, CalmWork DEF step, effects, then, on
    <2>6. CASE mission' = "EXECUTING" /\ Served /\ Fresh' /\ checks' = checks /\ built' = built
               /\ p' = on.p
      <3>1. built' = << >> /\ checks' = << >>
        BY <1>1, <2>6 DEF Served, Early
      <3> QED
        BY <2>1, <2>6, <3>1, EarlyServes DEF Early
    <2> QED
      BY <2>2, <2>3, <2>5, <2>6, Outcomes, OthersServe
  <1> QED
    BY <1>3, <1>4 DEF ApplyBundle

\* What a command does to the build.
LEMMA EffectsAre ==
  ASSUME NEW procedure, NEW e \in Effects(procedure)
  PROVE  /\ e.status \in { "SUCCEEDED", "FAILED" } /\ e.status \in Results /\ e.tree = tree
         /\ procedure # "productionBuild" => e.built = built
         /\ e.status = "FAILED" => e.built \in { built, << >> }
         /\ e.status = "SUCCEEDED" /\ procedure = "productionBuild" => e.built = tree.app
  BY DEF Effects, Effect, Results

\* A unit on the way to the first check.
LEMMA EarlyWork ==
  ASSUME Typed, ServedIInv, mission = "EXECUTING", Calm', p.pc \in Early \ { "isolate" },
         NEW step, NEW inputs, NEW effects, NEW then, Work(step, inputs, effects, then),
         step.procedure # "browserVerification",
         \A e \in effects :
           /\ e.status \in Results
           /\ \/ e.built \in { built, << >> }
              \/ e.built = e.tree.app /\ then[e.status].p.pc = "isolate",
         \A s \in Results : \/ then[s].mission = "FAILED"
                            \/ /\ then[s].mission = "EXECUTING" /\ then[s].p.seq = p.seq + 1
                               /\ then[s].p.undone = p.undone /\ then[s].p.goal = "observe"
                               /\ then[s].p.pc \in Early
  PROVE  ServedIInv'
  <1>1. CASE mission' = "FAILED"
    BY <1>1, OthersServe
  <1>2. CASE /\ mission' = "EXECUTING" /\ Served /\ Fresh' /\ UNCHANGED <<checks, preview>>
             /\ \E e \in effects : /\ tree' = e.tree /\ built' = e.built
                                   /\ then[e.status].mission = "EXECUTING" /\ p' = then[e.status].p
    <2>1. PICK e \in effects : /\ tree' = e.tree /\ built' = e.built
                               /\ then[e.status].mission = "EXECUTING" /\ p' = then[e.status].p
      BY <1>2
    <2>2. p'.pc \in Early /\ p'.goal = "observe"
      BY <2>1
    <2>3. built = << >> /\ checks' = << >>
      BY <1>2 DEF Served, Early
    <2>4. built' = << >> \/ (p'.pc = "isolate" /\ built' = tree'.app)
      BY <2>1, <2>3
    <2> QED
      BY <1>2, <2>2, <2>3, <2>4, EarlyServes
  <1> QED
    BY <1>1, <1>2, CalmWork

\* A worker by a procedure: where it is, and what comes after it.
LEMMA ByProcedure ==
  ASSUME Typed, mission = "EXECUTING", p.pc \in { "procedure", "diagnose", "mend" }
  PROVE  /\ p \in Locals /\ p.goal = "observe" /\ p.seq + 1 \in Nat
         /\ p.pc \in Early \ { "isolate" } /\ Procedure \in Procedures
         /\ Procedure = "productionBuild" => NextStage(p).pc = "isolate"
         /\ LET r == Continue(NextTry(p))
            IN  /\ r.mission = "EXECUTING" /\ r.p.seq = p.seq + 1 /\ r.p.undone = p.undone
                /\ r.p.goal = "observe" /\ r.p.pc \in Early
  <1>1. p \in Locals /\ p.goal = "observe" /\ p.seq + 1 \in Nat
    BY StillObserving DEF Typed
  <1>2. NextTry(p) \in Locals /\ NextTry(p).undone = p.undone /\ NextTry(p).goal = "observe"
          /\ NextTry(p).pc \in { "procedure", "isolate" }
    BY <1>1, TryEntered
  <1>3. ASSUME Procedure = "productionBuild" PROVE NextStage(p).pc = "isolate"
    <2>1. p.stage \in DOMAIN Pipeline
      <3>1. p.stage \in 1..Len(Pipeline)
        BY DEF Typed, Stands, Locals
      <3> QED
        BY <3>1, ProductionAssumption
    <2>2. p.stage = Len(Pipeline)
      BY <1>3, <2>1, ProductionAssumption DEF Procedure
    <2> QED
      BY <1>1, <2>2, StageEntered
  <1> QED
    BY <1>1, <1>2, <1>3, Onward, ProcedureIsTyped DEF Early

\* Only the last procedure builds.
LEMMA RunProcedureServes ==
  ASSUME Typed, ServedIInv, Calm', RunProcedure
  PROVE  ServedIInv'
  <1> DEFINE failing == [p EXCEPT !.pc = "diagnose"]
             stage == Continue(NextStage(p))
             again == Continue(NextTry(p))
             mending == Continue(failing)
             then == [SUCCEEDED |-> stage, INTERRUPTED |-> again, FAILED |-> mending]
             step == Step(Procedure, "attempt", p.try + 1)
  <1>1. mission = "EXECUTING" /\ p.pc = "procedure"
    BY DEF RunProcedure, At
  <1>2. /\ p \in Locals /\ p.goal = "observe" /\ p.seq + 1 \in Nat
        /\ p.pc \in Early \ { "isolate" } /\ Procedure \in Procedures
        /\ Procedure = "productionBuild" => NextStage(p).pc = "isolate"
        /\ again.mission = "EXECUTING" /\ again.p.seq = p.seq + 1 /\ again.p.undone = p.undone
        /\ again.p.goal = "observe" /\ again.p.pc \in Early
    BY <1>1, ByProcedure
  <1>3. /\ stage.mission = "EXECUTING" /\ stage.p.seq = p.seq + 1 /\ stage.p.undone = p.undone
        /\ stage.p.goal = "observe" /\ stage.p.pc \in Early
        /\ Procedure = "productionBuild" => stage.p.pc = "isolate"
    BY <1>2, StageEntered, Onward DEF Early
  <1>4. /\ mending.mission = "EXECUTING" /\ mending.p.seq = p.seq + 1
        /\ mending.p.undone = p.undone /\ mending.p.goal = "observe" /\ mending.p.pc \in Early
    <2>1. failing \in Locals /\ failing.pc = "diagnose" /\ failing.undone = p.undone
            /\ failing.goal = "observe"
      BY <1>2 DEF Locals, Places
    <2> HIDE DEF failing
    <2> QED
      BY <1>2, <2>1, Onward DEF Early
  <1>5. then["SUCCEEDED"] = stage /\ then["INTERRUPTED"] = again /\ then["FAILED"] = mending
    OBVIOUS
  <1>6. Work(step, << >>, Effects(Procedure), then)
    BY DEF RunProcedure
  <1>7. step.procedure # "browserVerification"
    BY <1>2 DEF Step, Procedures
  <1> HIDE DEF then, stage, again, mending, step
  <1>8. \A s \in Results : /\ then[s].mission = "EXECUTING" /\ then[s].p.seq = p.seq + 1
                           /\ then[s].p.undone = p.undone /\ then[s].p.goal = "observe"
                           /\ then[s].p.pc \in Early
    BY <1>2, <1>3, <1>4, <1>5 DEF Results
  <1>9. ASSUME NEW e \in Effects(Procedure)
        PROVE  /\ e.status \in Results
               /\ \/ e.built \in { built, << >> }
                  \/ e.built = e.tree.app /\ then[e.status].p.pc = "isolate"
    BY <1>3, <1>5, EffectsAre
  <1> QED
    BY <1>1, <1>2, <1>6, <1>7, <1>8, <1>9, EarlyWork

\* The lock and the dependencies are no build, and no file that is written is.
LEMMA MendingServes ==
  ASSUME Typed, ServedIInv, Calm', Relock \/ RecoverDependencies \/ MendProcedure
  PROVE  ServedIInv'
  <1> DEFINE again == Continue(NextTry(p))
             here == Continue(p)
  <1>1. mission = "EXECUTING" /\ p.pc \in { "diagnose", "mend" }
    BY DEF Relock, RecoverDependencies, MendProcedure, At
  <1>2. /\ p \in Locals /\ p.goal = "observe" /\ p.seq + 1 \in Nat
        /\ p.pc \in Early \ { "isolate" }
        /\ again.mission = "EXECUTING" /\ again.p.seq = p.seq + 1 /\ again.p.undone = p.undone
        /\ again.p.goal = "observe" /\ again.p.pc \in Early
    BY <1>1, ByProcedure
  <1>3. /\ here.mission = "EXECUTING" /\ here.p.seq = p.seq + 1 /\ here.p.undone = p.undone
        /\ here.p.goal = "observe" /\ here.p.pc \in Early
    BY <1>2, Onward
  <1> HIDE DEF again, here
  <1>4. CASE Throw
    BY <1>4, OthersServe DEF Throw, Enters, Over
  <1>5. ASSUME NEW step, NEW inputs, NEW procedure, procedure # "productionBuild",
               NEW then, Work(step, inputs, Effects(procedure), then),
               step.procedure # "browserVerification",
               \A s \in Results : then[s] \in { again, here, Over("FAILED") }
        PROVE  ServedIInv'
    <2>1. \A e \in Effects(procedure) : e.status \in Results /\ e.built \in { built, << >> }
      BY <1>5, EffectsAre
    <2>2. \A s \in Results : \/ then[s].mission = "FAILED"
                             \/ /\ then[s].mission = "EXECUTING" /\ then[s].p.seq = p.seq + 1
                                /\ then[s].p.undone = p.undone /\ then[s].p.goal = "observe"
                                /\ then[s].p.pc \in Early
      BY <1>2, <1>3, <1>5, Outcomes
    <2> QED
      BY <1>1, <1>2, <1>5, <2>1, <2>2, EarlyWork
  <1>6. CASE Relock
    <2> DEFINE step == Step("dependencyLock", "lock-resync", 0)
               then == OnSuccess(again, here)
    <2>1. Work(step, << >>, Effects("dependencyLock"), then)
      BY <1>6 DEF Relock, again, here
    <2>2. step.procedure # "browserVerification" /\ \A s \in Results : then[s] \in { again, here }
      BY Outcomes DEF Step
    <2> HIDE DEF step, then
    <2> QED
      BY <1>5, <2>1, <2>2
  <1>7. CASE RecoverDependencies
    <2> DEFINE step == Step("install", "recovery-" \o Procedure, 0)
               then == OrThrow(again)
    <2>1. Throw \/ Work(step, << >>, Effects("install"), then)
      BY <1>7 DEF RecoverDependencies, again
    <2>2. /\ step.procedure # "browserVerification"
          /\ \A s \in Results : then[s] \in { again, Over("FAILED") }
      BY Outcomes DEF Step
    <2> HIDE DEF step, then
    <2> QED
      BY <1>4, <1>5, <2>1, <2>2
  <1>8. CASE MendProcedure
    <2> DEFINE step == Step("file", "repair-" \o Procedure, 0)
               effects == WriteEffects("app", Patched(p.call))
               then == OrThrow(again)
    <2>1. Work(step, Patched(p.call), effects, then)
      BY <1>8 DEF MendProcedure, again
    <2>2. /\ step.procedure # "browserVerification"
          /\ \A s \in Results : then[s] \in { again, Over("FAILED") }
      BY Outcomes DEF Step
    <2>3. \A e \in effects : e.status \in Results /\ e.built \in { built, << >> }
      BY DEF WriteEffects, Effect, Results
    <2> HIDE DEF step, effects, then
    <2>4. \A s \in Results : \/ then[s].mission = "FAILED"
                             \/ /\ then[s].mission = "EXECUTING" /\ then[s].p.seq = p.seq + 1
                                /\ then[s].p.undone = p.undone /\ then[s].p.goal = "observe"
                                /\ then[s].p.pc \in Early
      BY <1>2, <2>2, Outcomes
    <2> QED
      BY <1>1, <1>2, <2>1, <2>2, <2>3, <2>4, EarlyWork
  <1> QED
    BY <1>6, <1>7, <1>8

\* A repair is bought, or not: nothing is built.
LEMMA RepairProcedureServes ==
  ASSUME Typed, ServedIInv, Calm', RepairProcedure
  PROVE  ServedIInv'
  <1>1. /\ mission = "EXECUTING" /\ p.pc = "diagnose" /\ p \in Locals /\ p.goal = "observe"
        /\ UNCHANGED <<durable, fixed>>
    BY StillObserving DEF RepairProcedure, At, Typed
  <1>2. \/ mission' \in { "EXHAUSTED", "FAILED" }
        \/ mission' = mission /\ p' = [p EXCEPT !.pc = "mend", !.call = Len(bought) + 1]
        \/ mission' = mission /\ p' = [p EXCEPT !.rejected = @ + 1]
    BY DEF RepairProcedure, Throw, Exhaust, Enters, Over, Rejected, Refused
  <1>3. CASE /\ mission' = mission
             /\ \/ p' = [p EXCEPT !.pc = "mend", !.call = Len(bought) + 1]
                \/ p' = [p EXCEPT !.rejected = @ + 1]
    <2>1. /\ p'.seq = p.seq /\ p'.undone = p.undone /\ p'.goal = "observe"
          /\ p'.pc \in { "mend", "diagnose" }
      BY <1>1, <1>3 DEF Locals
    <2>2. Served /\ Fresh' /\ UNCHANGED <<tree, built, checks>>
      BY <1>1, <2>1, CalmStill
    <2>3. built' = << >> /\ checks' = << >>
      BY <1>1, <2>2 DEF Served, Early
    <2> QED
      BY <1>1, <1>3, <2>1, <2>2, <2>3, EarlyServes DEF Early
  <1> QED
    BY <1>2, <1>3, OthersServe

\* A restored tree is that of the build that is kept.
LEMMA RestoreServes ==
  ASSUME ServedIInv, Calm', mission = "EXECUTING",
         NEW i \in DOMAIN checks, NEW q \in Locals, q.seq = p.seq, q.undone = p.undone,
         NEW next \in { "launch", "choose" }, Restore(i, q, next),
         Served => built \in { << >>, checks[i].pre.app },
         Served /\ (next = "choose" \/ q.goal = "certify") =>
           checks[q.browser].served = checks[i].pre.app
  PROVE  ServedIInv'
  <1>1. /\ tree' = checks[i].pre /\ UNCHANGED <<mission, units, checks, begun, faults>>
        /\ \/ built' = built /\ p' = [q EXCEPT !.pc = next]
           \/ built' = << >> /\ p' = [q EXCEPT !.pc = "rebuild", !.next = next, !.target = i]
    BY DEF Restore, fixed
  <1>2. /\ p'.seq = p.seq /\ p'.undone = p.undone /\ p'.goal = q.goal /\ p'.browser = q.browser
        /\ \/ built' = built /\ p'.pc = next
           \/ built' = << >> /\ p'.pc = "rebuild" /\ p'.next = next
    BY <1>1 DEF Locals
  <1>3. Served
    BY <1>1, <1>2 DEF ServedIInv, Calm
  <1>4. Fresh'
    BY <1>1, <1>2, <1>3 DEF Served, Fresh
  <1>5. Choosing(p)' => next = "choose"
    BY <1>2 DEF Choosing
  <1>6. Served'
    BY <1>1, <1>2, <1>3, <1>4, <1>5 DEF Served, Early
  <1> QED
    BY <1>1, <1>6 DEF ServedIInv

\* There is nothing to isolate: a first worker made no check before.
LEMMA IsolateServes ==
  ASSUME Typed, ServedIInv, Calm', Isolate
  PROVE  ServedIInv'
  <1>1. mission = "EXECUTING" /\ p.pc = "isolate" /\ p \in Locals /\ p.goal = "observe"
    BY StillObserving DEF Isolate, At, Typed
  <1>2. CASE checks = << >> \/ Len(checks) \in isolated
    <2>1. p' = [p EXCEPT !.pc = "launch"] /\ UNCHANGED <<mission, durable, fixed>>
      BY <1>2 DEF Isolate, Goto
    <2>2. p'.pc = "launch" /\ p'.seq = p.seq /\ p'.undone = p.undone /\ p'.goal = "observe"
      BY <1>1, <2>1 DEF Locals
    <2>3. Served /\ Fresh' /\ UNCHANGED <<tree, built, checks>>
      BY <1>1, <2>1, <2>2, CalmStill
    <2>4. Served'
      BY <1>1, <2>2, <2>3 DEF Served, Early, Choosing
    <2> QED
      BY <1>1, <2>1, <2>4 DEF ServedIInv
  <1>3. CASE ~(checks = << >> \/ Len(checks) \in isolated)
    <2>1. /\ p' = [p EXCEPT !.pc = "launch"] \/
             p' = [p EXCEPT !.pc = "rebuild", !.next = "launch", !.target = Len(checks)]
          /\ faults' = faults
      BY <1>3 DEF Isolate, Restore, fixed
    <2>2. p'.undone = p.undone
      BY <1>1, <2>1 DEF Locals
    <2>3. Served
      BY <1>1, <2>1, <2>2 DEF ServedIInv, Calm
    <2> QED
      BY <1>1, <1>3, <2>3 DEF Served, Early
  <1> QED
    BY <1>2, <1>3

\* What is rebuilt is the tree.
LEMMA RebuildServes ==
  ASSUME Typed, ServedIInv, Calm', Rebuild
  PROVE  ServedIInv'
  <1> DEFINE q == [p EXCEPT !.pc = p.next, !.next = "down", !.target = 0]
             on == Continue(q)
             then == OrThrow(on)
             step == Step("productionBuild", "browser-restore", p.target)
  <1>1. mission = "EXECUTING" /\ p.pc = "rebuild" /\ p \in Locals /\ p.seq + 1 \in Nat
          /\ p.next \in { "launch", "choose" }
    BY StillObserving DEF Rebuild, At, Typed, Stands, Locals
  <1>2. /\ q \in Locals /\ q.pc = p.next /\ q.next = "down" /\ q.goal = p.goal
        /\ q.browser = p.browser /\ q.undone = p.undone
    BY <1>1 DEF Locals, Places
  <1>3. Work(step, << >>, Effects("productionBuild"), then)
          /\ step.procedure # "browserVerification"
    BY DEF Rebuild, Step
  <1> HIDE DEF q
  <1>4. /\ on.mission = "EXECUTING" /\ on.p.seq = p.seq + 1 /\ on.p.undone = p.undone
        /\ on.p.pc = p.next /\ on.p.next = "down" /\ on.p.goal = p.goal
        /\ on.p.browser = p.browser
    BY <1>1, <1>2, Onward
  <1>5. then["FAILED"] = Over("FAILED") /\ then["SUCCEEDED"] = on
          /\ \A s \in Results : then[s] \in { on, Over("FAILED") }
    BY Outcomes DEF OrThrow, OnSuccess, Results
  <1> HIDE DEF on, then, step
  <1>6. \A s \in Results : \/ then[s].mission = "FAILED"
                           \/ /\ then[s].mission = "EXECUTING" /\ then[s].p.seq = p.seq + 1
                              /\ then[s].p.undone = p.undone
    BY <1>4, <1>5, Outcomes
  <1>7. \/ mission' = "FAILED"
        \/ /\ mission' = "EXECUTING" /\ Served /\ Fresh' /\ UNCHANGED <<checks, preview>>
           /\ \E e \in Effects("productionBuild") :
                /\ tree' = e.tree /\ built' = e.built
                /\ then[e.status].mission = "EXECUTING" /\ p' = then[e.status].p
    BY <1>1, <1>3, <1>6, EffectsAre, CalmWork
  <1>8. CASE /\ mission' = "EXECUTING" /\ Served /\ Fresh' /\ UNCHANGED <<checks, preview>>
             /\ \E e \in Effects("productionBuild") :
                  /\ tree' = e.tree /\ built' = e.built
                  /\ then[e.status].mission = "EXECUTING" /\ p' = then[e.status].p
    <2>1. tree' = tree /\ built' = tree.app /\ p' = on.p
      <3>1. PICK e \in Effects("productionBuild") :
              /\ tree' = e.tree /\ built' = e.built
              /\ then[e.status].mission = "EXECUTING" /\ p' = then[e.status].p
        BY <1>8
      <3>2. e.status = "SUCCEEDED"
        BY <1>5, <3>1, EffectsAre DEF Over
      <3> QED
        BY <1>5, <3>1, <3>2, EffectsAre
    <2>2. Choosing(p)' => Choosing(p)
      BY <1>1, <1>4, <2>1 DEF Choosing
    <2>3. Served'
      BY <1>1, <1>4, <1>8, <2>1, <2>2 DEF Served, Early
    <2> QED
      BY <1>8, <2>3 DEF ServedIInv
  <1> QED
    BY <1>7, <1>8, OthersServe

\* What is started serves the build.
LEMMA StartServes ==
  ASSUME Typed, ServedIInv, Calm', StartRuntime
  PROVE  ServedIInv'
  <1>1. /\ mission = "EXECUTING" /\ p.pc = "launch" /\ p \in Locals
        /\ p.goal \in { "observe", "certify" } /\ UNCHANGED <<durable, fixed>>
    BY StillObserving DEF StartRuntime, At, Typed
  <1>2. CASE Throw
    BY <1>2, OthersServe DEF Throw, Enters, Over
  <1>3. CASE /\ built # << >> /\ preview' = [live |-> TRUE, checkpoint |-> tree, serves |-> built]
             /\ Goto(p.goal) /\ UNCHANGED mission
    <2>1. /\ p'.pc = p.goal /\ p'.seq = p.seq /\ p'.undone = p.undone /\ p'.goal = p.goal
          /\ p'.browser = p.browser
      BY <1>1, <1>3 DEF Goto, Locals
    <2>2. Served /\ Fresh' /\ UNCHANGED <<tree, built, checks>>
      BY <1>1, <2>1, CalmStill
    <2>3. preview'.serves = tree.app /\ built = tree.app
      BY <1>1, <1>3, <2>2 DEF Served
    <2>4. Served'
      BY <1>1, <2>1, <2>2, <2>3 DEF Served, Early, Choosing
    <2> QED
      BY <1>1, <1>3, <2>4 DEF ServedIInv
  <1> QED
    BY <1>2, <1>3 DEF StartRuntime

\* What the browser sees is what the preview serves.
LEMMA ObserveServes ==
  ASSUME Typed, ServedIInv, Calm', Observe
  PROVE  ServedIInv'
  <1> DEFINE step == Step("browserVerification", "runtime", starts)
             n == Len(checks) + 1
             effects == { Effect("SUCCEEDED", [tree EXCEPT !.dirty = d], built) :
                            d \in { tree.dirty, TRUE } }
             q(o) == [p EXCEPT !.pc = "judge", !.browser = n, !.seen = o, !.clean = FALSE]
  <1>1. mission = "EXECUTING" /\ p.pc = "observe" /\ p \in Locals /\ p.goal = "observe"
          /\ p.seq \in Nat /\ faults \in Nat /\ faults' = 0
    BY StillObserving, ProductionAssumption DEF Observe, At, Typed, Locals, Calm
  <1>2. PICK o \in Observations : Work(step, << >>, effects, OrThrow(Continue(q(o))))
    BY DEF Observe
  <1> DEFINE on == Continue(q(o))
             then == OrThrow(on)
  <1>3. /\ on.mission = "EXECUTING" /\ on.p.seq = p.seq + 1 /\ on.p.undone = p.undone
        /\ on.p.pc = "judge" /\ on.p.goal = "observe" /\ on.p.browser = n
    <2> DEFINE r == [q(o) EXCEPT !.seq = p.seq + 1]
    <2>1. on.p = r /\ on.mission = "EXECUTING"
      BY DEF Continue, Going
    <2>2. r.seq = p.seq + 1 /\ r.undone = p.undone /\ r.pc = "judge" /\ r.goal = "observe"
            /\ r.browser = n
      BY <1>1 DEF Locals
    <2> QED
      BY <2>1, <2>2
  <1>4. \A s \in Results : then[s] \in { on, Over("FAILED") }
    BY Outcomes
  <1>5. step.procedure = "browserVerification"
    BY DEF Step
  <1>6. \A e \in effects : /\ e.status = "SUCCEEDED" /\ e.status \in Results
                           /\ e.built = built /\ e.tree.app = tree.app
    BY DEF Effect, Typed, TreeType, Results
  <1>7. n \in Nat /\ checks \in Seq(Checks)
    BY DEF Typed
  <1> HIDE DEF step, effects, on, then, q
  <1>8. /\ faults = 0 /\ preview' = preview
        /\ mission' = "FAILED" \/ \E s \in Results : mission' = then[s].mission /\ p' = then[s].p
    BY <1>1, <1>2, <1>6, UndisturbedWork DEF then, on
  <1>9. CASE mission' = "FAILED"
    BY <1>9, OthersServe
  <1>10. CASE mission' = "EXECUTING" /\ p' = on.p
    <2>1. Served
      BY <1>1, <1>3, <1>8, <1>10 DEF ServedIInv, Calm
    <2>2. PICK e \in effects :
            /\ tree' = e.tree /\ built' = e.built
            /\ begun' = {} /\ \A u \in units' : u.seq \in 0..p.seq + 1
            /\ RecordCheck(Request(step, << >>), e.tree)
      BY <1>1, <1>2, <1>8, <2>1, FreshWork DEF Served, then, on
    <2>3. checks' = Append(checks, [pre |-> tree, post |-> e.tree, served |-> preview.serves])
      BY <1>5, <2>2 DEF RecordCheck, Request
    <2>4. checks'[n].served = preview.serves
      <3> DEFINE c == [pre |-> tree, post |-> e.tree, served |-> preview.serves]
      <3>1. c.served = preview.serves
        OBVIOUS
      <3> HIDE DEF c
      <3>2. Append(checks, c)[n] = c
        BY <1>7 DEF n
      <3> QED
        BY <2>3, <3>1, <3>2 DEF c
    <2>5. preview.serves = tree.app /\ built \in { << >>, tree.app }
      BY <1>1, <2>1 DEF Served
    <2>6. tree'.app = tree.app /\ built' = built /\ Fresh'
      BY <1>3, <1>6, <1>10, <2>2 DEF Fresh
    <2>7. Served'
      BY <1>3, <1>8, <1>10, <2>4, <2>5, <2>6 DEF Served, Early, Choosing
    <2> QED
      BY <1>10, <2>7 DEF ServedIInv
  <1> QED
    BY <1>3, <1>4, <1>8, <1>9, <1>10, Outcomes

\* What was observed is delivered, or corrected on the tree it was observed in.
LEMMA DeliverServes ==
  ASSUME Typed, ServedIInv, Calm', Deliver
  PROVE  ServedIInv'
  <1>1. /\ mission = "EXECUTING" /\ p.pc = "judge" /\ p \in Locals /\ p.goal = "observe"
        /\ UNCHANGED <<mission, durable, fixed>> /\ p' = [p EXCEPT !.pc = "finish"]
    BY StillObserving DEF Deliver, At, Goto, Typed
  <1>2. /\ p'.pc = "finish" /\ p'.seq = p.seq /\ p'.undone = p.undone /\ p'.goal = "observe"
        /\ p'.browser = p.browser
    BY <1>1 DEF Locals
  <1>3. Served /\ Fresh' /\ UNCHANGED <<tree, built, checks>>
    BY <1>1, <1>2, CalmStill
  <1>4. Served'
    BY <1>1, <1>2, <1>3 DEF Served, Early, Choosing
  <1> QED
    BY <1>1, <1>4 DEF ServedIInv

LEMMA CorrectServes ==
  ASSUME Typed, DeliveryIInv, ServedIInv, Calm', Correct
  PROVE  ServedIInv'
  <1> DEFINE b == BehaviourProven(p.seen)
             c == IF b THEN "design" ELSE "browser"
             o == IF b THEN p.seen ELSE NoObservation
             x == IF p.seen.parsed THEN p.seen.failed = 0 ELSE p.passing
             n == Outstanding
             m == Stalled
             q == [p EXCEPT !.class = c, !.previous = n, !.stalled = m, !.clean = TRUE,
                            !.seen = o, !.passing = x]
  <1>1. mission = "EXECUTING" /\ p.pc = "judge" /\ p.goal = "observe" /\ p \in Locals /\ Stands(p)
    BY StillObserving DEF Correct, At, Typed
  <1>2. p.browser \in DOMAIN checks /\ Source(tree) = Source(checks[p.browser].pre)
    BY <1>1, Judged DEF DeliveryIInv, Watched
  <1>3. Restore(p.browser, q, "choose")
    BY DEF Correct
  <1>4. c \in { "browser", "design" } /\ x \in BOOLEAN /\ n \in Int /\ m \in Nat /\ o \in Seen
    <2>1. p.seen \in Seen /\ p.passing \in BOOLEAN /\ p.previous \in Int /\ p.stalled \in Nat
      BY <1>1 DEF Locals
    <2>2. p.seen.failed \in Nat /\ p.seen.aspects \in Nat
      BY <2>1 DEF Seen
    <2>3. o \in Seen
      BY <2>1 DEF NoObservation, Seen
    <2>4. n \in Int /\ m \in Nat
      BY <2>1, <2>2 DEF Outstanding, Stalled
    <2> QED
      BY <2>1, <2>3, <2>4
  <1> HIDE DEF c, o, x, n, m
  <1>5. q \in Locals /\ q.seq = p.seq /\ q.undone = p.undone /\ q.browser = p.browser
    BY <1>1, <1>4 DEF Locals
  <1> HIDE DEF q
  <1>6. tree.app = checks[p.browser].pre.app
    BY <1>2 DEF Source
  <1>7. Served => /\ built \in { << >>, checks[p.browser].pre.app }
                  /\ checks[q.browser].served = checks[p.browser].pre.app
    BY <1>1, <1>5, <1>6 DEF Served
  <1> QED
    BY <1>1, <1>2, <1>3, <1>5, <1>7, RestoreServes

\* Whoever chooses stands on the source that was observed.
LEMMA ChoosingServes ==
  ASSUME Typed, DeliveryIInv, ServedIInv, Calm',
         RestartOnly \/ SpendBudget \/ ReplayRepair \/ BuyRepair
  PROVE  ServedIInv'
  <1>1. /\ mission = "EXECUTING" /\ p.pc = "choose" /\ p \in Locals /\ p.goal = "observe"
        /\ Choosing(p) /\ UNCHANGED <<durable, fixed>>
    BY Chooses DEF RestartOnly, SpendBudget, ReplayRepair, BuyRepair, At
  <1>2. tree = checks[p.browser].pre
    BY <1>1 DEF DeliveryIInv, Watched
  <1>3. \/ mission' \in { "FAILED", "EXHAUSTED" }
        \/ mission' = mission /\ p' = Restarting(p)
        \/ mission' = mission /\ p' = [p EXCEPT !.pc = "finish"]
        \/ mission' = mission /\ \E c : p' = Repairing(c)
        \/ mission' = mission /\ \E n : p' = [p EXCEPT !.rejected = n]
    BY DEF RestartOnly, SpendBudget, ReplayRepair, BuyRepair, Throw, Exhaust, Enters, Over, Goto,
           Restarting, Rejected, Refused
  <1>4. CASE mission' = mission /\ p' = Restarting(p)
    <2>1. p'.pc = "launch" /\ p'.goal = "observe" /\ p'.seq = p.seq /\ p'.undone = p.undone
      BY <1>1, <1>4, RoundEntered
    <2>2. Served /\ Fresh' /\ UNCHANGED <<tree, built, checks>>
      BY <1>1, <2>1, CalmStill
    <2>3. Served'
      BY <1>1, <2>1, <2>2 DEF Served, Early, Choosing
    <2> QED
      BY <1>1, <1>4, <2>3 DEF ServedIInv
  <1>5. CASE /\ mission' = mission
             /\ \/ p' = [p EXCEPT !.pc = "finish"]
                \/ \E c : p' = Repairing(c)
                \/ \E n : p' = [p EXCEPT !.rejected = n]
    <2>1. /\ p'.pc \in { "finish", "repair", "choose" } /\ p'.goal = "observe"
          /\ p'.seq = p.seq /\ p'.undone = p.undone /\ p'.browser = p.browser
      BY <1>1, <1>5 DEF Repairing, Locals
    <2>2. Served /\ Fresh' /\ UNCHANGED <<tree, built, checks>>
      BY <1>1, <2>1, CalmStill
    <2>3. Served'
      BY <1>1, <1>2, <2>1, <2>2 DEF Served, Early, Choosing
    <2> QED
      BY <1>1, <1>5, <2>3 DEF ServedIInv
  <1> QED
    BY <1>3, <1>4, <1>5, OthersServe

\* A correction of the application is built before the next preview; one of the tests
\* leaves the application as it was built.
LEMMA ApplyServes ==
  ASSUME Typed, ServedIInv, Calm', ApplyRepair
  PROVE  ServedIInv'
  <1> DEFINE kind == bought[p.call].kind
             content == Patched(p.call)
             building == [p EXCEPT !.pc = "rescope"]
             q == IF kind = "app" THEN building ELSE Restarting(p)
             on == Continue(q)
             then == OrThrow(on)
             effects == WriteEffects(kind, content)
             step == Step("file", "repair-" \o kind, 0)
  <1>1. mission = "EXECUTING" /\ p.pc = "repair" /\ p.goal = "observe" /\ p.seq + 1 \in Nat
          /\ p \in Locals
    BY StillObserving DEF ApplyRepair, At, Typed
  <1>2. kind \in Kinds
    BY <1>1, PatchIsTyped
  <1>3. Work(step, content, effects, then) /\ step.procedure # "browserVerification"
    BY DEF Step, ApplyRepair
  <1>4. /\ q \in Locals /\ q.goal = "observe" /\ q.undone = p.undone
        /\ \/ kind = "app" /\ q.pc = "rescope" /\ q.browser = p.browser
           \/ kind = "test" /\ q.pc = "launch"
    <2>1. /\ building \in Locals /\ building.pc = "rescope" /\ building.goal = "observe"
          /\ building.undone = p.undone /\ building.browser = p.browser
      BY <1>1 DEF Locals, Places
    <2> HIDE DEF building, kind
    <2> QED
      BY <1>1, <1>2, <2>1, RoundEntered DEF Kinds
  <1>5. \A e \in effects : /\ e.status \in Results /\ e.built = built
                           /\ kind = "test" => e.tree.app = tree.app
    BY DEF WriteEffects, Effect, Results, Typed, TreeType
  <1> HIDE DEF q, kind, content
  <1>6. /\ on.mission = "EXECUTING" /\ on.p.seq = p.seq + 1 /\ on.p.undone = p.undone
        /\ on.p.pc = q.pc /\ on.p.goal = "observe" /\ on.p.browser = q.browser
    BY <1>1, <1>4, Onward
  <1>7. \A s \in Results : then[s] \in { on, Over("FAILED") }
    BY Outcomes
  <1> HIDE DEF on, then, step, effects
  <1>8. \A s \in Results : \/ then[s].mission = "FAILED"
                           \/ /\ then[s].mission = "EXECUTING" /\ then[s].p.seq = p.seq + 1
                              /\ then[s].p.undone = p.undone
    BY <1>6, <1>7, Outcomes
  <1>9. \/ mission' = "FAILED"
        \/ /\ mission' = "EXECUTING" /\ Served /\ Fresh' /\ UNCHANGED <<checks, preview>>
           /\ \E e \in effects :
                /\ tree' = e.tree /\ built' = e.built
                /\ then[e.status].mission = "EXECUTING" /\ p' = then[e.status].p
    BY <1>1, <1>3, <1>5, <1>8, CalmWork
  <1>10. CASE /\ mission' = "EXECUTING" /\ Served /\ Fresh' /\ UNCHANGED <<checks, preview>>
              /\ \E e \in effects :
                   /\ tree' = e.tree /\ built' = e.built
                   /\ then[e.status].mission = "EXECUTING" /\ p' = then[e.status].p
    <2>1. PICK e \in effects :
            /\ tree' = e.tree /\ built' = e.built
            /\ then[e.status].mission = "EXECUTING" /\ p' = then[e.status].p
      BY <1>10
    <2>2. built' = built /\ (kind = "test" => tree'.app = tree.app)
      BY <1>5, <2>1
    <2>3. p' = on.p
      BY <1>5, <1>7, <2>1 DEF Over
    <2>4. built \in { << >>, tree.app } /\ tree.app = checks[p.browser].pre.app
      BY <1>1, <1>10 DEF Served
    <2>5. Served'
      BY <1>4, <1>6, <1>10, <2>2, <2>3, <2>4 DEF Served, Early, Choosing
    <2> QED
      BY <1>10, <2>5 DEF ServedIInv
  <1> QED
    BY <1>9, <1>10, OthersServe

\* A build that fails leaves the build before it, or none.
LEMMA RescopeServes ==
  ASSUME Typed, ServedIInv, Calm', Rescope
  PROVE  ServedIInv'
  <1> DEFINE back == [p EXCEPT !.pc = "rollback"]
             on == Continue(Restarting(p))
             off == Continue(back)
             then == OnSuccess(on, off)
             step == Step("productionBuild", "scoped", 0)
  <1>1. mission = "EXECUTING" /\ p.pc = "rescope" /\ p.goal = "observe"
          /\ p.seq + 1 \in Nat /\ p \in Locals
    BY StillObserving DEF Rescope, At, Typed
  <1>2. /\ back \in Locals /\ back.pc = "rollback" /\ back.goal = "observe"
        /\ back.undone = p.undone /\ back.browser = p.browser
    BY <1>1 DEF Locals, Places
  <1>3. Work(step, << >>, Effects("productionBuild"), then)
          /\ step.procedure # "browserVerification"
    BY DEF Rescope, Step
  <1> HIDE DEF back
  <1>4. /\ on.mission = "EXECUTING" /\ on.p.seq = p.seq + 1 /\ on.p.undone = p.undone
        /\ on.p.pc = "launch" /\ on.p.goal = "observe"
    BY <1>1, RoundEntered, Onward
  <1>5. /\ off.mission = "EXECUTING" /\ off.p.seq = p.seq + 1 /\ off.p.undone = p.undone
        /\ off.p.pc = "rollback" /\ off.p.goal = "observe" /\ off.p.browser = p.browser
    BY <1>1, <1>2, Onward
  <1>6. then["FAILED"] = off /\ then["SUCCEEDED"] = on
          /\ \A s \in Results : then[s] \in { on, off }
    BY Outcomes DEF OnSuccess, Results
  <1> HIDE DEF on, off, then, step
  <1>7. \A s \in Results : /\ then[s].mission = "EXECUTING" /\ then[s].p.seq = p.seq + 1
                           /\ then[s].p.undone = p.undone
    BY <1>4, <1>5, <1>6
  <1>8. \/ mission' = "FAILED"
        \/ /\ mission' = "EXECUTING" /\ Served /\ Fresh' /\ UNCHANGED <<checks, preview>>
           /\ \E e \in Effects("productionBuild") :
                /\ tree' = e.tree /\ built' = e.built
                /\ then[e.status].mission = "EXECUTING" /\ p' = then[e.status].p
    BY <1>1, <1>3, <1>7, EffectsAre, CalmWork
  <1>9. CASE /\ mission' = "EXECUTING" /\ Served /\ Fresh' /\ UNCHANGED <<checks, preview>>
             /\ \E e \in Effects("productionBuild") :
                  /\ tree' = e.tree /\ built' = e.built
                  /\ then[e.status].mission = "EXECUTING" /\ p' = then[e.status].p
    <2>1. PICK e \in Effects("productionBuild") :
            /\ tree' = e.tree /\ built' = e.built
            /\ then[e.status].mission = "EXECUTING" /\ p' = then[e.status].p
      BY <1>9
    <2>2. CASE e.status = "SUCCEEDED"
      <3>1. built' = tree'.app /\ p' = on.p
        BY <1>6, <2>1, <2>2, EffectsAre
      <3>2. Served'
        BY <1>4, <1>9, <3>1 DEF Served, Early, Choosing
      <3> QED
        BY <1>9, <3>2 DEF ServedIInv
    <2>3. CASE e.status = "FAILED"
      <3>1. built' \in { built, << >> } /\ p' = off.p
        BY <1>6, <2>1, <2>3, EffectsAre
      <3>2. built \in { << >>, checks[p.browser].pre.app }
        BY <1>1, <1>9 DEF Served
      <3>3. Served'
        BY <1>5, <1>9, <3>1, <3>2 DEF Served, Early, Choosing
      <3> QED
        BY <1>9, <3>3 DEF ServedIInv
    <2> QED
      BY <2>2, <2>3, EffectsAre
  <1> QED
    BY <1>8, <1>9, OthersServe

LEMMA RollbackServes ==
  ASSUME Typed, ServedIInv, Calm', Rollback
  PROVE  ServedIInv'
  <1> DEFINE q == NextRound(p)
  <1>1. /\ mission = "EXECUTING" /\ p.pc = "rollback" /\ p.goal = "observe" /\ p \in Locals
        /\ p.browser \in DOMAIN checks
    BY StillObserving, Judged DEF Rollback, At, Typed
  <1>2. q \in Locals /\ q.seq = p.seq /\ q.undone = p.undone /\ q.goal = "observe"
    BY <1>1, RoundEntered
  <1>3. Restore(p.browser, q, "launch")
    BY DEF Rollback
  <1> HIDE DEF q
  <1>4. Served => built \in { << >>, checks[p.browser].pre.app }
    BY <1>1 DEF Served
  <1> QED
    BY <1>1, <1>2, <1>3, <1>4, RestoreServes

\* What is taken back is excepted from here on.
LEMMA UndoIsExcepted ==
  ASSUME Typed, UndoDesign
  PROVE  ~Calm'
  <1> DEFINE s == [p EXCEPT !.over = 0, !.design = FALSE, !.passing = FALSE, !.undone = TRUE]
             q == NextRound(s)
  <1>1. p \in Locals
    BY DEF Typed, Stands
  <1>2. s \in Locals /\ s.undone
    BY <1>1 DEF Locals
  <1>3. Restore(p.over, q, "launch")
    BY DEF UndoDesign
  <1> HIDE DEF s
  <1>4. q \in Locals /\ q.undone
    BY <1>2, RoundEntered
  <1> HIDE DEF q
  <1>5. p'.undone
    BY <1>3, <1>4 DEF Restore, Locals
  <1> QED
    BY <1>5 DEF Calm

\* The delivery is prepared on the source that was observed, and certified on it.
LEMMA FinishServes ==
  ASSUME Typed, DeliveryIInv, ServedIInv, Calm', Finish
  PROVE  ServedIInv'
  <1> DEFINE q == [p EXCEPT !.goal = "certify"]
  <1>1. mission = "EXECUTING" /\ p.pc = "finish" /\ p \in Locals /\ p.browser \in DOMAIN checks
    BY StillObserving, Judged DEF Finish, At, Typed
  <1>2. q \in Locals /\ q.seq = p.seq /\ q.undone = p.undone /\ q.browser = p.browser
          /\ q.goal = "certify"
    BY <1>1 DEF Locals
  <1>3. tree.app = checks[p.browser].pre.app
    BY <1>1 DEF DeliveryIInv, Watched, Source
  <1>4. Served => built \in { << >>, tree.app } /\ checks[p.browser].served = tree.app
    BY <1>1 DEF Served
  <1>5. CASE p.clean
    <2> DEFINE r == [q EXCEPT !.pc = "launch"]
    <2>1. p' = r /\ UNCHANGED <<mission, durable, fixed>>
      BY <1>5 DEF Finish
    <2>2. r.pc = "launch" /\ r.seq = p.seq /\ r.undone = p.undone /\ r.browser = p.browser
      BY <1>2 DEF Locals
    <2> HIDE DEF r, q
    <2>3. Served /\ Fresh' /\ UNCHANGED <<tree, built, checks>>
      BY <1>1, <2>1, <2>2, CalmStill
    <2>4. Served'
      BY <1>4, <2>1, <2>2, <2>3 DEF Served, Early, Choosing
    <2> QED
      BY <1>1, <2>1, <2>4 DEF ServedIInv
  <1>6. CASE ~p.clean
    <2>1. Restore(p.browser, q, "launch")
      BY <1>6 DEF Finish
    <2> HIDE DEF q
    <2> QED
      BY <1>1, <1>2, <1>3, <1>4, <2>1, RestoreServes
  <1> QED
    BY <1>5, <1>6

LEMMA CertifyServes ==
  ASSUME Typed, DeliveryIInv, ServedIInv, Calm', Certify
  PROVE  ServedIInv'
  <1>1. /\ mission = "EXECUTING" /\ p.pc = "certify" /\ p \in Locals /\ p.goal = "certify"
        /\ UNCHANGED <<durable, preview, fixed>>
    BY StillObserving DEF Certify, At, Typed, DeliveryIInv, Watched
  <1>2. CASE mission' = "VERIFYING" /\ p' = [p EXCEPT !.pc = "down"]
    <2>1. p'.undone = p.undone /\ p'.browser = p.browser /\ faults' = faults
      BY <1>1, <1>2 DEF Locals, fixed
    <2>2. Served
      BY <1>1, <2>1 DEF ServedIInv, Calm
    <2>3. preview.serves = tree.app /\ checks[p.browser].served = tree.app
      BY <1>1, <2>2 DEF Served
    <2> QED
      BY <1>1, <1>2, <2>1, <2>3 DEF ServedIInv, durable
  <1> QED
    BY <1>2, OthersServe DEF Certify, Throw, Enters, Over

\* Every step keeps the invariant of the build.
LEMMA NextServes ==
  ASSUME Typed, DeliveryIInv, ServedIInv, Next
  PROVE  ServedIInv'
  <1> SUFFICES ASSUME Calm' PROVE ServedIInv'
    BY DEF ServedIInv
  <1>1. CASE Resume \/ AdmitBundle \/ CorrectBundle \/ ApplyBundle
    BY <1>1, StartingServes, CorrectBundleServes, BundleServes
  <1>2. CASE \/ RunProcedure \/ Relock \/ RecoverDependencies
             \/ RepairProcedure \/ MendProcedure
    BY <1>2, RunProcedureServes, MendingServes, RepairProcedureServes
  <1>3. CASE Isolate \/ Rebuild \/ StartRuntime \/ Observe
    BY <1>3, IsolateServes, RebuildServes, StartServes, ObserveServes
  <1>4. CASE OutOfRounds \/ GiveUp
    BY <1>4, GivingUpIsTyped, OthersServe
  <1>5. CASE UndoDesign
    BY <1>5, UndoIsExcepted
  <1>6. CASE Deliver \/ Correct \/ Finish \/ Certify
    BY <1>6, DeliverServes, CorrectServes, FinishServes, CertifyServes
  <1>7. CASE RestartOnly \/ SpendBudget \/ ReplayRepair \/ BuyRepair
    BY <1>7, ChoosingServes
  <1>8. CASE ApplyRepair \/ Rescope \/ Rollback
    BY <1>8, ApplyServes, RescopeServes, RollbackServes
  <1>9. CASE Dies
    <2>1. faults \in Nat /\ faults' = faults + 1
      BY <1>9, ProductionAssumption DEF Dies, Death, Typed
    <2> QED
      BY <2>1 DEF Calm
  <1> QED
    BY <1>1, <1>2, <1>3, <1>4, <1>5, <1>6, <1>7, <1>8, <1>9 DEF Next, Progress

LEMMA ServingHolds == Spec => []ServedIInv
  <1>1. Init => ServedIInv
    BY DEF Init, ServedIInv, Served, Fresh, Early, Choosing, Worker
  <1>2. Typed /\ DeliveryIInv /\ ServedIInv /\ [Next]_vars => ServedIInv'
    <2>1. ASSUME UNCHANGED vars, ServedIInv PROVE ServedIInv'
      BY <2>1 DEF vars, durable, fixed, ServedIInv, Served, Fresh, Calm, Choosing
    <2> QED
      BY <2>1, NextServes
  <1> QED
    BY <1>1, <1>2, TypingHolds, DeliveryHolds, PTL DEF Spec

\* What goes to verification is the checkpoint from which a browser check proved the
\* workflows, without the data of its checks unless a worker died within one: through
\* corrections, replayed repairs, rollbacks, undone designs, kept builds and deaths.  What
\* that browser saw, and what the certified preview serves, was built from that source if
\* no worker died and no design correction was taken back.
THEOREM DeliveredAsObserved == Spec => []DeliveryWasObserved
  <1>1. DeliveryIInv /\ ServedIInv => DeliveryWasObserved
    BY DEF DeliveryIInv, CheckpointWasObserved, ServedIInv, Calm, DeliveryWasObserved
  <1> QED
    BY <1>1, DeliveryHolds, ServingHolds, PTL

-------------------------------------------------------------------------------
(* The repairs that are bought.                                            *)

\* No unit and no other step but three buys or refuses anything.
LEMMA WorkBuysNothing ==
  ASSUME NEW step, NEW inputs, NEW effects, NEW then, Work(step, inputs, effects, then)
  PROVE  UNCHANGED <<policy, bought, rejected>>
  <1>1. UNCHANGED <<bought, rejected>>
    BY DEF Work, calls
  <1>2. ASSUME NEW request, Execute(request, effects, then)
        PROVE  policy' = policy
    BY <1>2 DEF Execute, Death, fixed
  <1>3. policy' = policy
    BY <1>2 DEF Work, Recover, fixed
  <1> QED
    BY <1>1, <1>3

LEMMA OthersBuyNothing ==
  ASSUME Next, ~CorrectBundle, ~RepairProcedure, ~BuyRepair
  PROVE  UNCHANGED <<policy, bought, rejected>>
  <1>1. CASE Resume \/ AdmitBundle \/ Isolate \/ StartRuntime \/ OutOfRounds
    BY <1>1 DEF Resume, AdmitBundle, Isolate, Restore, StartRuntime, OutOfRounds, calls, fixed
  <1>2. CASE UndoDesign \/ Deliver \/ GiveUp \/ Correct
    BY <1>2 DEF UndoDesign, Deliver, GiveUp, Correct, Restore, calls, fixed
  <1>3. CASE RestartOnly \/ SpendBudget \/ ReplayRepair \/ Rollback \/ Finish \/ Certify
    BY <1>3 DEF RestartOnly, SpendBudget, ReplayRepair, Rollback, Finish, Certify, Restore,
                calls, fixed
  <1>4. CASE Dies
    BY <1>4 DEF Dies, Death, calls
  <1>5. CASE ApplyBundle
    BY <1>5, WorkBuysNothing DEF ApplyBundle, calls, fixed
  <1>6. CASE RunProcedure \/ Relock \/ MendProcedure \/ Rebuild
    BY <1>6, WorkBuysNothing DEF RunProcedure, Relock, MendProcedure, Rebuild
  <1>7. CASE RecoverDependencies
    BY <1>7, WorkBuysNothing DEF RecoverDependencies, calls, fixed
  <1>8. CASE Observe \/ ApplyRepair \/ Rescope
    BY <1>8, WorkBuysNothing DEF Observe, ApplyRepair, Rescope
  <1> QED
    BY <1>1, <1>2, <1>3, <1>4, <1>5, <1>6, <1>7, <1>8 DEF Next, Progress

\* What was bought can be counted.
LEMMA BoughtIsFinite ==
  ASSUME Typed, NEW class
  PROVE  IsFiniteSet(Bought(class)) /\ Cardinality(Bought(class)) \in Nat
  <1>1. Bought(class) \subseteq 1..Len(bought) /\ Len(bought) \in Nat
    BY DEF Bought, Typed
  <1>2. IsFiniteSet(1..Len(bought))
    BY <1>1, FS_Interval
  <1>3. IsFiniteSet(Bought(class))
    BY <1>1, <1>2, FS_Subset
  <1> QED
    BY <1>3, FS_CardinalityType

\* A repair that is bought counts for its class alone.
LEMMA BuyingCounts ==
  ASSUME Typed, NEW class, NEW kind, NEW form, Buy(class, kind, form), NEW other
  PROVE  Cardinality(Bought(other)') =
           IF other = class THEN Cardinality(Bought(other)) + 1 ELSE Cardinality(Bought(other))
  <1> DEFINE n == Len(bought) + 1
             c == [class |-> class, kind |-> kind, form |-> form, on |-> tree[kind]]
  <1>1. bought' = Append(bought, c) /\ c.class = class
    BY DEF Buy
  <1>2. bought \in Seq(Calls) /\ Len(bought) \in Nat
    BY DEF Typed
  <1> HIDE DEF c
  <1>3. /\ DOMAIN bought' = (DOMAIN bought) \union {n} /\ bought'[n] = c
        /\ n \notin DOMAIN bought /\ \A i \in DOMAIN bought : bought'[i] = bought[i]
    BY <1>1, <1>2
  <1> HIDE DEF n
  <1>4. Bought(other)' = IF other = class THEN Bought(other) \union {n} ELSE Bought(other)
    BY <1>1, <1>3 DEF Bought
  <1>5. n \notin Bought(other)
    BY <1>3 DEF Bought
  <1> QED
    BY <1>4, <1>5, BoughtIsFinite, FS_AddElement

\* A budget is a number.
LEMMA BudgetsAreNumbers ==
  ASSUME Typed, NEW class \in Classes
  PROVE  /\ BudgetOf(class) \in Nat
         /\ class \in Capped => BudgetOf(class) = policy[class] /\ policy[class] \in Nat
         /\ class \in Capped => rejected[class] \in Nat
  <1>1. policy \in Budgets
    BY ProductionAssumption DEF Typed
  <1>2. class \in Capped => rejected[class] \in Nat
    BY DEF Typed
  <1>3. class \in Capped => class \in DOMAIN policy
    BY <1>1 DEF Budgets, Capped
  <1>4. \A field \in DOMAIN policy : policy[field] \in Nat
    BY <1>1 DEF Budgets
  <1>5. policy.procedure \in Nat
    BY <1>1 DEF Budgets
  <1> QED
    BY <1>2, <1>3, <1>4, <1>5 DEF BudgetOf

\* Within the budgets one more may be bought, where one is left.
LEMMA BuyingIsBudgeted ==
  ASSUME Typed, RepairsAreBudgeted, policy' = policy,
         NEW class \in Classes, NEW kind, NEW form, Buy(class, kind, form),
         CallsLeft(class),
         class \in Capped \ { "generation" } => CallsOf(class) < policy[class] * MaxProposals
  PROVE  RepairsAreBudgeted'
  <1>1. rejected' = rejected
    BY DEF Buy
  <1>2. ASSUME NEW other \in Classes
        PROVE  Cardinality(Bought(other)') <= BudgetOf(other)'
    <2>1. BudgetOf(other)' = BudgetOf(other) /\ BudgetOf(other) \in Nat
      <3>1. BudgetOf(other)' = BudgetOf(other)
        BY DEF BudgetOf
      <3> QED
        BY <3>1, BudgetsAreNumbers
    <2>2. Cardinality(Bought(other)) <= BudgetOf(other) /\ Cardinality(Bought(other)) \in Nat
      BY BoughtIsFinite DEF RepairsAreBudgeted
    <2>3. other = class => Cardinality(Bought(other)) < BudgetOf(other)
      BY DEF CallsLeft
    <2>4. Cardinality(Bought(other)') =
            IF other = class THEN Cardinality(Bought(other)) + 1 ELSE Cardinality(Bought(other))
      BY BuyingCounts
    <2> QED
      BY <2>1, <2>2, <2>3, <2>4
  <1>3. ASSUME NEW other \in Capped \ { "generation" }
        PROVE  CallsOf(other)' <= policy'[other] * MaxProposals
    <2> DEFINE n == Cardinality(Bought(other))
               b == policy[other]
               r == rejected[other]
    <2>1. n \in Nat /\ b \in Nat /\ r \in Nat
      BY BoughtIsFinite, BudgetsAreNumbers DEF Classes
    <2>2. n + r <= b * 3
      BY DEF RepairsAreBudgeted, CallsOf, MaxProposals
    <2>3. other = class => n + r < b * 3
      BY DEF CallsOf, MaxProposals
    <2>4. Cardinality(Bought(other)') = IF other = class THEN n + 1 ELSE n
      BY BuyingCounts
    <2>5. CallsOf(other)' = Cardinality(Bought(other)') + r
      BY <1>1 DEF CallsOf
    <2> HIDE DEF n, b, r
    <2>6. Cardinality(Bought(other)') + r <= b * 3
      BY <2>1, <2>2, <2>3, <2>4
    <2> QED
      BY <2>5, <2>6 DEF b, MaxProposals
  <1> QED
    BY <1>2, <1>3 DEF RepairsAreBudgeted

\* A proposal that is refused counts for its class, where calls that fail are counted.
LEMMA RefusingIsBudgeted ==
  ASSUME Typed, RepairsAreBudgeted, policy' = policy, NEW class, Refuse(class),
         class \in Capped \ { "generation" } => CallsOf(class) < policy[class] * MaxProposals
  PROVE  RepairsAreBudgeted'
  <1>1. bought' = bought
    BY DEF Refuse
  <1>2. ASSUME NEW other \in Classes
        PROVE  Cardinality(Bought(other)') <= BudgetOf(other)'
    BY <1>1 DEF RepairsAreBudgeted, Bought, BudgetOf
  <1>3. ASSUME NEW other \in Capped \ { "generation" }
        PROVE  CallsOf(other)' <= policy'[other] * MaxProposals
    <2> DEFINE n == Cardinality(Bought(other))
               b == policy[other]
               r == rejected[other]
    <2>1. n \in Nat /\ b \in Nat /\ r \in Nat
      BY BoughtIsFinite, BudgetsAreNumbers DEF Classes
    <2>2. n + r <= b * 3
      BY DEF RepairsAreBudgeted, CallsOf, MaxProposals
    <2>3. other = class => n + r < b * 3
      BY DEF CallsOf, MaxProposals
    <2>4. rejected'[other] = IF other = class THEN r + 1 ELSE r
      BY DEF Refuse, Typed
    <2>5. CallsOf(other)' = n + rejected'[other]
      BY <1>1 DEF CallsOf, Bought
    <2> HIDE DEF n, b, r
    <2>6. n + rejected'[other] <= b * 3
      BY <2>1, <2>2, <2>3, <2>4
    <2> QED
      BY <2>5, <2>6 DEF b, MaxProposals
  <1> QED
    BY <1>2, <1>3 DEF RepairsAreBudgeted

\* Where nothing is bought no budget is touched.
LEMMA NothingIsBudgeted ==
  ASSUME RepairsAreBudgeted, UNCHANGED <<policy, bought, rejected>>
  PROVE  RepairsAreBudgeted'
  BY DEF RepairsAreBudgeted, Bought, BudgetOf, CallsOf

\* The three that buy look at the budget first.
LEMMA NextIsBudgeted ==
  ASSUME Typed, RepairsAreBudgeted, Next
  PROVE  RepairsAreBudgeted'
  <1>1. CASE CorrectBundle
    <2>1. policy' = policy /\ "generation" \in Classes /\ "generation" \in Capped
      BY <1>1 DEF CorrectBundle, fixed, Classes, Capped
    <2>2. CASE UNCHANGED calls
      BY <2>1, <2>2, NothingIsBudgeted DEF calls
    <2>3. CASE Refused("generation")
      BY <2>1, <2>3, RefusingIsBudgeted DEF Refused
    <2>4. CASE CallsOf("generation") < policy.generation /\ Buy("generation", "app", "files")
      <3>1. /\ Cardinality(Bought("generation")) \in Nat /\ rejected["generation"] \in Nat
            /\ BudgetOf("generation") = policy.generation /\ policy.generation \in Nat
        BY <2>1, BoughtIsFinite, BudgetsAreNumbers
      <3>2. CallsLeft("generation")
        BY <2>4, <3>1 DEF CallsOf, CallsLeft
      <3> QED
        BY <2>1, <2>4, <3>2, BuyingIsBudgeted
    <2>5. CallsOf("generation") >= policy.generation \/ CallsOf("generation") < policy.generation
      <3>1. /\ Cardinality(Bought("generation")) \in Nat /\ rejected["generation"] \in Nat
            /\ policy.generation \in Nat
        BY <2>1, BoughtIsFinite, BudgetsAreNumbers
      <3> QED
        BY <3>1 DEF CallsOf
    <2> QED
      BY <1>1, <2>2, <2>3, <2>4, <2>5 DEF CorrectBundle
  <1>2. CASE RepairProcedure
    <2>1. policy' = policy /\ Procedure \in Classes /\ Procedure \notin Capped
      BY <1>2, ProcedureIsTyped DEF RepairProcedure, At, fixed, Classes, Capped, Procedures
    <2>2. CASE UNCHANGED calls
      BY <2>1, <2>2, NothingIsBudgeted DEF calls
    <2>3. CASE Refuse(Procedure)
      BY <2>1, <2>3, RefusingIsBudgeted
    <2>4. CASE CallsLeft(Procedure) /\ Buy(Procedure, "app", "files")
      BY <2>1, <2>4, BuyingIsBudgeted
    <2> QED
      BY <1>2, <2>2, <2>3, <2>4 DEF RepairProcedure, Refused, Rejected
  <1>3. CASE BuyRepair
    <2>1. policy' = policy /\ p.class \in Classes /\ p.class \in Capped \ { "generation" }
      BY <1>3, Chooses DEF BuyRepair, fixed, Classes, Capped
    <2>2. CASE UNCHANGED calls
      BY <2>1, <2>2, NothingIsBudgeted DEF calls
    <2>3. CASE ~(CallsOf(p.class) >= policy[p.class] * MaxProposals)
      <3>1. CallsOf(p.class) < policy[p.class] * MaxProposals
        <4>1. /\ Cardinality(Bought(p.class)) \in Nat /\ rejected[p.class] \in Nat
              /\ policy[p.class] \in Nat
          BY <2>1, BoughtIsFinite, BudgetsAreNumbers
        <4> QED
          BY <2>3, <4>1 DEF CallsOf, MaxProposals
      <3>2. CASE Refuse(p.class)
        BY <2>1, <3>1, <3>2, RefusingIsBudgeted
      <3>3. CASE \E kind \in Kinds : Buy(p.class, kind, Form)
        BY <1>3, <2>1, <3>1, <3>3, BuyingIsBudgeted DEF BuyRepair, RepairsLeft
      <3> QED
        BY <1>3, <2>3, <3>2, <3>3 DEF BuyRepair, Refused, Rejected
    <2> QED
      BY <1>3, <2>2, <2>3 DEF BuyRepair
  <1>4. CASE ~CorrectBundle /\ ~RepairProcedure /\ ~BuyRepair
    BY <1>4, OthersBuyNothing, NothingIsBudgeted
  <1> QED
    BY <1>1, <1>2, <1>3, <1>4

\* All workers together buy no more repairs of a class than its budget, and ask for no more
\* proposals of a browser or design correction than three for each.
THEOREM RepairsStayInBudget == Spec => []RepairsAreBudgeted
  <1>1. Init => RepairsAreBudgeted
    <2> SUFFICES ASSUME Init PROVE RepairsAreBudgeted
      OBVIOUS
    <2>1. Typed /\ \A class \in Capped : rejected[class] = 0
      BY InitIsTyped DEF Init
    <2>2. \A class : Bought(class) = {}
      BY DEF Init, Bought
    <2>3. \A class : Cardinality(Bought(class)) = 0
      BY <2>2, FS_EmptySet
    <2>4. \A class \in Classes : BudgetOf(class) \in Nat /\ BudgetOf(class) >= 0
      BY <2>1, BudgetsAreNumbers
    <2>5. \A class \in Capped : policy[class] \in Nat /\ CallsOf(class) = 0
      BY <2>1, <2>3, BudgetsAreNumbers DEF CallsOf, Classes
    <2> QED
      BY <2>3, <2>4, <2>5 DEF RepairsAreBudgeted, MaxProposals
  <1>2. Typed /\ RepairsAreBudgeted /\ [Next]_vars => RepairsAreBudgeted'
    <2>1. ASSUME UNCHANGED vars, RepairsAreBudgeted PROVE RepairsAreBudgeted'
      BY <2>1, NothingIsBudgeted DEF vars, calls, fixed
    <2> QED
      BY <2>1, NextIsBudgeted
  <1> QED
    BY <1>1, <1>2, TypingHolds, PTL DEF Spec

-------------------------------------------------------------------------------
(* The last check before verification.                                     *)

\* What is about to be certified is what the newest preview was started on.
NewestPreview == At("certify") => preview.checkpoint = tree

\* The comparison of checkpoints at the end of execute never fails a mission.
CertificationPasses == At("certify") => SameSource

\* Only a preview that is started leads to certification.
LEMMA NextIsPreviewed ==
  ASSUME Typed, NewestPreview, Next
  PROVE  NewestPreview'
  <1> SUFFICES ASSUME p'.pc = "certify", mission' = "EXECUTING"
               PROVE  preview'.checkpoint = tree'
    BY DEF NewestPreview, At
  <1>1. ~Preparing /\ ~Returning
    BY DEF Preparing, Returning, Early
  <1>2. ~(Resume \/ AdmitBundle \/ CorrectBundle \/ ApplyBundle)
    BY <1>1, ResumeIsTyped, AdmitBundleIsTyped, CorrectBundleIsTyped, BundleIsTyped
  <1>3. ~(RunProcedure \/ Relock \/ RecoverDependencies \/ RepairProcedure \/ MendProcedure)
    BY <1>1, RunProcedureIsTyped, RelockIsTyped, RecoverIsTyped, RepairProcedureIsTyped,
       MendIsTyped
  <1>4. ~(Isolate \/ UndoDesign \/ RestartOnly \/ ApplyRepair \/ Rescope \/ Rollback \/ Dies)
    BY <1>1, IsolateIsTyped, UndoDesignIsTyped, RestartIsTyped, ApplyIsTyped, RescopeIsTyped,
       RollbackIsTyped, DeathIsTyped
  <1>5. ~Rebuild
    BY RebuildIsTyped DEF Worker
  <1>6. ~Observe
    BY ObserveIsTyped DEF Watching, CutShort, Worker
  <1>7. ~(OutOfRounds \/ Deliver \/ GiveUp \/ Correct)
    BY DeliverIsTyped, GivingUpIsTyped, CorrectIsTyped DEF Correcting
  <1>8. ~(SpendBudget \/ ReplayRepair \/ BuyRepair)
    BY <1>1, SpendBudgetIsTyped, ReplayIsTyped, BuyRepairIsTyped DEF Again
  <1>9. ~(Finish \/ Certify)
    BY FinishIsTyped, CertifyIsTyped DEF Finishing
  <1>10. StartRuntime
    BY <1>2, <1>3, <1>4, <1>5, <1>6, <1>7, <1>8, <1>9 DEF Next, Progress
  <1>11. preview'.checkpoint = tree /\ tree' = tree
    BY <1>10 DEF StartRuntime, Throw, Enters, Over, durable
  <1> QED
    BY <1>11

LEMMA PreviewIsNewest == Spec => []NewestPreview
  <1>1. Init => NewestPreview
    BY DEF Init, NewestPreview, At, Worker
  <1>2. Typed /\ NewestPreview /\ [Next]_vars => NewestPreview'
    <2>1. ASSUME UNCHANGED vars, NewestPreview PROVE NewestPreview'
      BY <2>1 DEF vars, durable, NewestPreview, At
    <2> QED
      BY <2>1, NextIsPreviewed
  <1> QED
    BY <1>1, <1>2, TypingHolds, PTL DEF Spec

\* captureBrowserVerification compares the sources of the preview, the observation and the
\* tree: what execute() brings there always agrees, so that no mission whose workflows were
\* seen to hold fails by it.
THEOREM NothingFailsCertification == Spec => []CertificationPasses
  <1>1. Typed /\ DeliveryIInv /\ NewestPreview => CertificationPasses
    <2> SUFFICES ASSUME Typed, DeliveryIInv, NewestPreview, At("certify") PROVE SameSource
      BY DEF CertificationPasses
    <2>1. p.goal = "certify" /\ mission = "EXECUTING"
      BY DEF At, DeliveryIInv, Watched
    <2>2. tree = checks[p.browser].pre
      BY <2>1 DEF DeliveryIInv, Watched
    <2>3. p.browser \in DOMAIN checks
      <3>1. p.browser \in Nat /\ p.browser # 0 /\ p.browser <= Len(checks)
        BY <2>1 DEF Typed, Stands, Locals
      <3> QED
        BY <3>1 DEF Typed
    <2>4. Source(tree) = Source(checks[p.browser].post)
      BY <2>2, <2>3 DEF DeliveryIInv, ChecksAreClean
    <2> QED
      BY <2>4 DEF NewestPreview, SameSource, Source
  <1> QED
    BY <1>1, TypingHolds, DeliveryHolds, PreviewIsNewest, PTL

===============================================================================
