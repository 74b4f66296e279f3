------------------------------ MODULE Production ------------------------------
(***************************************************************************)
(* From EXECUTING to VERIFYING: the execute() of src/work-plane/           *)
(* production-mission-service.js, with the commands it runs, the repairs   *)
(* it buys and the browser rounds it goes through, in one worker after     *)
(* another.                                                                *)
(*                                                                         *)
(* A worker that dies leaves the Ledger, the tree and the build directory; *)
(* the next one starts execute() from its first line and finds its place   *)
(* by the work units, model calls, restores and sessions recorded.  Work   *)
(* units are named by their place in the sequence of the process that      *)
(* makes them, so what a resumed worker takes for done is part of what is  *)
(* checked here.                                                           *)
(*                                                                         *)
(* The source is told apart by the repairs applied to it: repair c is the  *)
(* recorded model call c, and 0 is the generated bundle.  What commands,   *)
(* models and browsers answer is arbitrary.  One file per kind of repair   *)
(* and one functional check stand for several; dependencies are installed  *)
(* but their versions are not told apart.                                  *)
(***************************************************************************)
EXTENDS Integers, Sequences, FiniteSets, FiniteSetsExt, Functions

CONSTANTS
  Pipeline,   \* the initial command pipeline, a sequence of procedures
  MaxTries,   \* attempts at one of them, 7 in the code
  Policies,   \* the performance policies and repair budgets a contract may have
  MaxAspects, \* bound: failed fidelity aspects that are told apart
  MaxFaults   \* bound: deaths of a worker

MaxProposals == 3
StalledRoundsBeforeStopping == 2

Procedures == { "dependencyLock", "install", "typeCheck", "lint", "productionBuild" }

\* Repair calls by class, browser rounds and runtime restarts.
Budgets == [ generation : Nat, procedure : Nat, browser : Nat, design : Nat,
             rounds : Nat \ {0}, restarts : Nat ]

ASSUME ProductionAssumption ==
  /\ Pipeline \in Seq(Procedures) /\ Pipeline # << >>
  /\ \A i \in DOMAIN Pipeline : Pipeline[i] = "productionBuild" => i = Len(Pipeline)
  /\ Policies \subseteq Budgets
  /\ MaxTries \in Nat \ {0} /\ MaxAspects \in Nat /\ MaxFaults \in Nat

VARIABLES
  policy,    \* the budgets of this contract
  mission,   \* the recorded state
  tree,      \* the live source by kind of file, and whether a browser check left data
  built,     \* the application source `.next` was built from; << >>: no build
  units,     \* completed work units, with the application source they ended on
  checks,    \* completed browser units, in order: the checkpoints before and after, and
             \* the build that was served to the browser
  begun,     \* work units whose start is recorded and whose end is not
  bought,    \* recorded calls that succeeded, in order: what they change and how
  rejected,  \* number of recorded calls that failed, of the classes whose failures count
  isolated,  \* browser units with a -restore or -isolation-restore event
  starts,    \* recorded start-ups of previews
  preview,   \* the newest preview: its checkpoint and the build it serves
  p,         \* the worker: its place in execute() and its locals
  faults     \* deaths so far

durable == <<tree, built, units, checks, begun>>
calls   == <<bought, rejected>>
fixed   == <<policy, faults>>   \* unless the worker dies
vars == <<mission, durable, calls, isolated, starts, preview, p, fixed>>

(***************************************************************************)
(* Where execute() is.                                                     *)
(***************************************************************************)
Places == { "down", "generate", "bundle", "procedure", "diagnose", "mend", "isolate",
            "rebuild", "launch", "observe", "judge", "choose", "repair", "rescope",
            "rollback", "finish", "certify" }

Capped  == { "generation", "browser", "design" }
Classes == Procedures \union Capped

Kinds   == { "app", "test" }

NoTree    == [app |-> << >>, test |-> << >>, dirty |-> FALSE]
NoPreview == [live |-> FALSE, checkpoint |-> NoTree, serves |-> << >>]

NoObservation == [parsed |-> FALSE, failed |-> 0, aspects |-> 0, errors |-> FALSE]

Worker == [pc |-> "down", next |-> "down", goal |-> "observe", target |-> 0, seq |-> 0,
           stage |-> 1, try |-> 0, round |-> 0, class |-> "none", rejected |-> 0,
           call |-> 0, browser |-> 0, seen |-> NoObservation, clean |-> FALSE,
           passing |-> FALSE, previous |-> -1, stalled |-> 0, over |-> 0, design |-> FALSE,
           undone |-> FALSE]   \* history: it took a design correction back

At(place) == p.pc = place /\ mission = "EXECUTING"
Goto(place) == p' = [p EXCEPT !.pc = place]

\* A further round of the browser loop begins with a fresh preview.
NextRound(q) == [q EXCEPT !.round = @ + 1, !.class = "none", !.rejected = 0, !.call = 0,
                          !.browser = 0, !.seen = NoObservation, !.clean = FALSE]

\* Where the worker is after a step, and what it recorded of the mission.
Going(q) == [mission |-> "EXECUTING", p |-> q]
Over(state) == [mission |-> state, p |-> Worker]
Enters(place) == mission' = place.mission /\ p' = place.p

\* execute() throws: the catch block of the worker stops previews, which is the
\* matter of MissionWorkers, and records FAILED.
Throw   == Enters(Over("FAILED"))
Exhaust == Enters(Over("EXHAUSTED"))

\* The worker dies; the number of deaths is bounded.
Death == /\ faults < MaxFaults
         /\ faults' = faults + 1
         /\ p' = Worker
         /\ UNCHANGED <<policy, mission>>

Init == /\ policy \in Policies /\ mission = "EXECUTING"
        /\ tree = NoTree
        /\ built = << >> /\ units = {} /\ checks = << >> /\ begun = {}
        /\ bought = << >> /\ rejected = [class \in Capped |-> 0]
        /\ isolated = {} /\ starts = 0 /\ preview = NoPreview
        /\ p = Worker /\ faults = 0

(***************************************************************************)
(* workFactory: one work unit.  Its base name is the sequence number of    *)
(* the call in this process and the step.  A succeeded attempt under that  *)
(* name with the same inputs is taken as the outcome; otherwise the unit   *)
(* is executed under the next free name.                                   *)
(***************************************************************************)
Step(procedure, tag, n) == [procedure |-> procedure, tag |-> tag, n |-> n]

Tried(step) == { u \in units : u.seq = p.seq + 1 /\ u.step = step }

Completed(step, inputs) ==
  \E u \in Tried(step) : u.status = "SUCCEEDED" /\ u.inputs = inputs

Request(step, inputs) ==
  [seq |-> p.seq + 1, step |-> step, retry |-> Cardinality(Tried(step)), inputs |-> inputs]

Outcome(request, status, app) ==
  [seq |-> request.seq, step |-> request.step, retry |-> request.retry,
   inputs |-> request.inputs, status |-> status, app |-> app]

\* Mutant: a browser unit is never found among the completed ones.
ForgetCheck(request, after) == UNCHANGED checks

RecordCheck(request, after) ==
  checks' = IF request.step.procedure = "browserVerification"
            THEN Append(checks, [pre |-> tree, post |-> after, served |-> preview.serves])
            ELSE checks

Interrupted(step) ==
  { b \in begun : b.seq = p.seq + 1 /\ b.step = step /\ b.retry = Cardinality(Tried(step)) }

Effect(status, after, build) == [status |-> status, tree |-> after, built |-> build]

\* The unit runs to its end, or the worker dies within it with the effect had
\* or not.
Execute(request, effects, then) ==
  \E e \in effects :
    \/ /\ tree' = e.tree /\ built' = e.built
       /\ units' = units \union { Outcome(request, e.status, e.tree.app) }
       /\ RecordCheck(request, e.tree)
       /\ begun' = begun \ Interrupted(request.step)
       /\ Enters(then[e.status])
       /\ UNCHANGED fixed
    \/ /\ Death
       /\ \/ tree' = e.tree /\ built' = e.built
          \/ UNCHANGED <<tree, built>>
       /\ begun' = IF Interrupted(request.step) = {} THEN begun \union {request} ELSE begun
       /\ UNCHANGED <<units, checks>>

\* An attempt of a dead worker has this name: other inputs are refused, a
\* command is not run again and has failed, a file is written after all.
Recover(step, inputs, effects, then) ==
  LET before == CHOOSE b \in Interrupted(step) : TRUE
  IN  IF before.inputs # inputs
      THEN Throw /\ UNCHANGED <<durable, fixed>>
      ELSE IF step.procedure # "file"
           THEN /\ units' = units \union { Outcome(before, "INTERRUPTED", tree.app) }
                /\ begun' = begun \ {before}
                /\ Enters(then["INTERRUPTED"])
                /\ UNCHANGED <<tree, built, checks, fixed>>
           ELSE Execute(before, effects, then)

Work(step, inputs, effects, then) ==
  /\ IF Completed(step, inputs)
     THEN Enters(then["SUCCEEDED"]) /\ UNCHANGED <<durable, fixed>>
     ELSE IF Interrupted(step) # {}
          THEN Recover(step, inputs, effects, then)
          ELSE Execute(Request(step, inputs), effects, then)
  /\ UNCHANGED <<calls, isolated, starts, preview>>

\* The worker goes on at q, one work unit later.
Continue(q) == Going([q EXCEPT !.seq = p.seq + 1])

Results == { "SUCCEEDED", "FAILED", "INTERRUPTED" }
OnSuccess(place, otherwise) ==
  [status \in Results |-> IF status = "SUCCEEDED" THEN place ELSE otherwise]
OrThrow(place) == OnSuccess(place, Over("FAILED"))

\* What a command may do.  A failed build may leave the build before it or none.
Effects(procedure) ==
  { Effect("SUCCEEDED", tree, IF procedure = "productionBuild" THEN tree.app ELSE built),
    Effect("FAILED", tree, built) }
  \union IF procedure = "productionBuild" THEN { Effect("FAILED", tree, << >>) } ELSE {}

\* Content of the file that repair c changes, and the tree with it.
Patched(c) == Append(tree[bought[c].kind], c)
WriteEffects(kind, content) ==
  { Effect("SUCCEEDED", [tree EXCEPT ![kind] = content], built), Effect("FAILED", tree, built) }

(***************************************************************************)
(* Model calls.                                                            *)
(***************************************************************************)
Bought(class)  == { c \in DOMAIN bought : bought[c].class = class }
CallsOf(class) == Cardinality(Bought(class)) + rejected[class]   \* of a capped class

BudgetOf(class) == IF class \in DOMAIN policy THEN policy[class] ELSE policy.procedure
CallsLeft(class) == Cardinality(Bought(class)) < BudgetOf(class)

\* A call that succeeds: repair Len(bought) + 1.
Buy(class, kind, form) ==
  /\ bought' = Append(bought, [class |-> class, kind |-> kind, form |-> form, on |-> tree[kind]])
  /\ UNCHANGED rejected

Refuse(class) ==
  /\ rejected' = IF class \in Capped THEN [rejected EXCEPT ![class] = @ + 1] ELSE rejected
  /\ UNCHANGED bought

\* The provider fails, or its answer is rejected a last time.
Refused(class) == Refuse(class) /\ Throw

\* A proposal is rejected before it is applied: another may be asked for.
Rejected(class) ==
  /\ p.rejected + 1 < MaxProposals
  /\ Refuse(class)
  /\ p' = [p EXCEPT !.rejected = @ + 1]
  /\ UNCHANGED mission

(***************************************************************************)
(* A worker is started; the bundle is generated, admitted and applied.     *)
(***************************************************************************)
Resume == /\ p.pc = "down" /\ mission = "EXECUTING"
          /\ Goto("generate")
          /\ UNCHANGED <<mission, durable, calls, isolated, starts, preview, fixed>>

BundleApplied == \E u \in units : u.step.tag = "bundle" /\ u.status = "SUCCEEDED"

\* A bundle that was applied has been admitted and is admitted again.
AdmitBundle == /\ At("generate")
               /\ Goto("bundle")
               /\ UNCHANGED <<mission, durable, calls, isolated, starts, preview, fixed>>

CorrectBundle == /\ At("generate") /\ ~BundleApplied
                 /\ IF CallsOf("generation") >= policy.generation
                    THEN Throw /\ UNCHANGED calls
                    ELSE \/ Buy("generation", "app", "files") /\ UNCHANGED <<mission, p>>
                         \/ Refused("generation")
                 /\ UNCHANGED <<durable, isolated, starts, preview, fixed>>

\* The procedure at this stage of the pipeline, and what comes after it.
Enter(q) == IF q.stage <= Len(Pipeline) THEN [q EXCEPT !.pc = "procedure"]
                                        ELSE [q EXCEPT !.pc = "isolate"]
NextStage(q) == Enter([q EXCEPT !.stage = @ + 1, !.try = 0, !.call = 0, !.rejected = 0])

\* After the last attempt the loop ends, whatever its result.
NextTry(q) == IF q.try + 1 < MaxTries THEN Enter([q EXCEPT !.try = @ + 1, !.call = 0, !.rejected = 0])
                                      ELSE NextStage(q)

ApplyBundle ==
  /\ At("bundle")
  /\ IF BundleApplied
     THEN p' = Enter(p) /\ UNCHANGED <<mission, durable, calls, isolated, starts, preview, fixed>>
     ELSE Work(Step("file", "bundle", 0), <<0>>, WriteEffects("app", <<0>>),
               OrThrow(Continue(Enter(p))))

(***************************************************************************)
(* The initial command pipeline.                                           *)
(***************************************************************************)
Procedure == Pipeline[p.stage]

RunProcedure ==
  /\ At("procedure")
  /\ Work(Step(Procedure, "attempt", p.try + 1), << >>, Effects(Procedure),
          [SUCCEEDED   |-> Continue(NextStage(p)),
           INTERRUPTED |-> Continue(NextTry(p)),
           FAILED      |-> Continue([p EXCEPT !.pc = "diagnose"])])

Ran(tag) == \E u \in units : u.step.tag = tag

\* The lock disagrees with the manifest: it is made again, once.
Relock ==
  /\ At("diagnose") /\ Procedure = "install" /\ policy.procedure > 0
  /\ ~Ran("lock-resync")
  /\ Work(Step("dependencyLock", "lock-resync", 0), << >>, Effects("dependencyLock"),
          OnSuccess(Continue(NextTry(p)), Continue(p)))

\* A dependency is missing: dependencies are installed again, once.
RecoverDependencies ==
  /\ At("diagnose") /\ Procedure \notin { "dependencyLock", "install" }
  /\ policy.procedure > 0
  /\ IF Ran("recovery-" \o Procedure)
     THEN Throw /\ UNCHANGED <<durable, calls, isolated, starts, preview, fixed>>
     ELSE Work(Step("install", "recovery-" \o Procedure, 0), << >>, Effects("install"),
               OrThrow(Continue(NextTry(p))))

\* No repair is allowed, or none is left, or one is bought.
RepairProcedure ==
  /\ At("diagnose")
  /\ IF policy.procedure = 0
     THEN Throw /\ UNCHANGED calls
     ELSE IF ~CallsLeft(Procedure)
     THEN Exhaust /\ UNCHANGED calls
     ELSE \/ /\ Buy(Procedure, "app", "files")
             /\ p' = [p EXCEPT !.pc = "mend", !.call = Len(bought) + 1]
             /\ UNCHANGED mission
          \/ Rejected(Procedure)
          \/ Refused(Procedure)
  /\ UNCHANGED <<durable, isolated, starts, preview, fixed>>

MendProcedure ==
  /\ At("mend")
  /\ Work(Step("file", "repair-" \o Procedure, 0), Patched(p.call),
          WriteEffects("app", Patched(p.call)),
          OrThrow(Continue(NextTry(p))))

(***************************************************************************)
(* restoreBrowserCheckpoint: the tree goes back to the pre-work checkpoint *)
(* of browser unit i.  The build directory is kept when there is one and   *)
(* some build of the same application source has succeeded; otherwise it   *)
(* is gone and the source is built again.                                  *)
(***************************************************************************)
SourceIsBuilt(app) == \E u \in units :
  u.step.procedure = "productionBuild" /\ u.status = "SUCCEEDED" /\ u.app = app

Reusable(i) == built # << >> /\ SourceIsBuilt(checks[i].pre.app)

Restore(i, q, next) ==
  /\ tree' = checks[i].pre
  /\ IF Reusable(i)
     THEN built' = built /\ p' = [q EXCEPT !.pc = next]
     ELSE built' = << >> /\ p' = [q EXCEPT !.pc = "rebuild", !.next = next, !.target = i]
  /\ UNCHANGED <<mission, units, checks, begun, calls, starts, fixed>>

StopRuntime == preview' = NoPreview

Rebuild ==
  /\ At("rebuild")
  /\ Work(Step("productionBuild", "browser-restore", p.target), << >>, Effects("productionBuild"),
          OrThrow(Continue([p EXCEPT !.pc = p.next, !.next = "down", !.target = 0])))

\* What the browser check of an earlier worker left is undone, unless the
\* restore that follows a failed round was already recorded.
Isolate ==
  /\ At("isolate")
  /\ IF checks = << >> \/ Len(checks) \in isolated
     THEN Goto("launch") /\ UNCHANGED <<mission, durable, calls, isolated, starts, preview, fixed>>
     ELSE /\ StopRuntime
          /\ isolated' = isolated \union { Len(checks) }
          /\ Restore(Len(checks), p, "launch")

(***************************************************************************)
(* startRuntime and one browser round.                                     *)
(***************************************************************************)
\* A preview without a build is never ready; another may fail to be.
StartRuntime ==
  /\ At("launch")
  /\ starts' = starts + 1
  /\ \/ /\ built # << >>
        /\ preview' = [live |-> TRUE, checkpoint |-> tree, serves |-> built]
        /\ Goto(p.goal) /\ UNCHANGED mission
     \/ preview' = NoPreview /\ Throw
  /\ UNCHANGED <<durable, calls, isolated, fixed>>

\* failed: functional checks observed false; aspects: of the approved design;
\* errors: console errors and whatever else makes an observation fail.  The
\* design is only compared without errors.
Observations ==
  { [parsed |-> TRUE, failed |-> f, aspects |-> a, errors |-> FALSE] :
      f \in 0..1, a \in 0..MaxAspects }
  \union { [parsed |-> TRUE, failed |-> 0, aspects |-> 0, errors |-> TRUE],
           [parsed |-> FALSE, failed |-> 1, aspects |-> 0, errors |-> TRUE] }

Passed(o)          == o.parsed /\ ~o.errors /\ o.failed = 0 /\ o.aspects = 0
BehaviourProven(o) == o.parsed /\ ~o.errors /\ o.failed = 0

\* A check acts like a user: it may leave data in the project.
Observe ==
  /\ At("observe") /\ p.round < policy.rounds
  /\ \E o \in Observations :
       Work(Step("browserVerification", "runtime", starts), << >>,
            { Effect("SUCCEEDED", [tree EXCEPT !.dirty = d], built) : d \in { tree.dirty, TRUE } },
            OrThrow(Continue([p EXCEPT !.pc = "judge", !.browser = Len(checks) + 1,
                                       !.seen = o, !.clean = FALSE])))

\* Mutant: off by one, neither another round nor the end.
RoundsRunOut == /\ At("observe") /\ p.round > policy.rounds
                /\ Exhaust
                /\ UNCHANGED <<durable, calls, isolated, starts, preview, fixed>>

OutOfRounds == /\ At("observe") /\ p.round >= policy.rounds
               /\ Exhaust
               /\ UNCHANGED <<durable, calls, isolated, starts, preview, fixed>>

(***************************************************************************)
(* What follows an observation.                                            *)
(***************************************************************************)
\* A check that held in the round before is false now, and the last correction
\* was one of the design.
Regressed == p.seen.parsed /\ p.passing /\ p.seen.failed > 0 /\ p.design /\ p.over # 0

\* A design correction broke a workflow: it is taken back, and the round is over.
UndoDesign ==
  /\ At("judge") /\ Regressed
  /\ StopRuntime
  /\ Restore(p.over, NextRound([p EXCEPT !.over = 0, !.design = FALSE, !.passing = FALSE,
                                         !.undone = TRUE]),
             "launch")
  /\ UNCHANGED isolated

Outstanding == p.seen.failed + p.seen.aspects
Stalled == IF p.previous # -1 /\ Outstanding >= p.previous THEN p.stalled + 1 ELSE 0
Stops   == Stalled >= StalledRoundsBeforeStopping \/ p.round + 1 >= policy.rounds

\* Verified, or delivered with its shortfall: the workflows hold and the time
\* or the progress is spent.
Deliver ==
  /\ At("judge") /\ ~Regressed
  /\ BehaviourProven(p.seen)
  /\ Goto("finish")
  /\ UNCHANGED <<mission, durable, calls, isolated, starts, preview, fixed>>

\* The time is spent, or the corrections stopped reducing what is outstanding.
GiveUp ==
  /\ At("judge") /\ ~Regressed
  /\ ~BehaviourProven(p.seen)
  /\ Exhaust
  /\ UNCHANGED <<durable, calls, isolated, starts, preview, fixed>>

\* Another correction is in order: the preview is stopped and the data of the
\* check are undone.
Correct ==
  /\ At("judge") /\ ~Regressed /\ ~Passed(p.seen)
  /\ IF BehaviourProven(p.seen) THEN ~Stops ELSE Stalled < StalledRoundsBeforeStopping
  /\ StopRuntime
  /\ isolated' = isolated \union {p.browser}
  /\ Restore(p.browser,
             [p EXCEPT !.class = IF BehaviourProven(p.seen) THEN "design" ELSE "browser",
                       !.previous = Outstanding, !.stalled = Stalled, !.clean = TRUE,
                       !.seen = IF BehaviourProven(@) THEN @ ELSE NoObservation,
                       !.passing = IF p.seen.parsed THEN p.seen.failed = 0 ELSE @],
             "choose")

(***************************************************************************)
(* A browser repair: replayed, or bought.                                  *)
(***************************************************************************)
\* Mutant: the repair budget is that of one worker.
RepairsLeftHere == p.round < BudgetOf(p.class)

RepairsLeft == CallsLeft(p.class)

\* The failure is one of the runtime: it is only started again.
RestartOnly ==
  /\ At("choose") /\ p.class = "browser" /\ p.rejected = 0 /\ p.round < policy.restarts
  /\ p' = [NextRound(p) EXCEPT !.pc = "launch"]
  /\ UNCHANGED <<mission, durable, calls, isolated, starts, preview, fixed>>

SpendBudget ==
  /\ At("choose") /\ p.rejected = 0 /\ ~RepairsLeft
  /\ IF p.class = "design" THEN Goto("finish") /\ UNCHANGED mission
     ELSE IF Bought(p.class) = {} THEN Throw ELSE Exhaust
  /\ UNCHANGED <<durable, calls, isolated, starts, preview, fixed>>

\* A patch whose change is not in the file may still apply; it does when the
\* file is what it was made for.  A whole-file answer is never replayed.
Latest == Max(Bought(p.class) \union {0})
MayReplay(c)  == c # 0 /\ bought[c].form = "patch" /\ c \notin Range(tree[bought[c].kind])
MustReplay(c) == MayReplay(c) /\ bought[c].on = tree[bought[c].kind]

Repairing(c) == [p EXCEPT !.pc = "repair", !.call = c, !.over = p.browser,
                          !.design = (p.class = "design")]

ReplayRepair ==
  /\ At("choose") /\ p.rejected = 0 /\ RepairsLeft
  /\ MayReplay(Latest)
  /\ \/ p' = Repairing(Latest)
     \/ ~MustReplay(Latest) /\ p' = [p EXCEPT !.rejected = 1]
  /\ UNCHANGED <<mission, durable, calls, isolated, starts, preview, fixed>>

\* After a rejection whole files are asked for.
Form == IF p.rejected = 0 THEN "patch" ELSE "files"

BuyRepair ==
  /\ At("choose") /\ RepairsLeft
  /\ ~(p.rejected = 0 /\ MustReplay(Latest))
  /\ IF CallsOf(p.class) >= policy[p.class] * MaxProposals
     THEN Throw /\ UNCHANGED calls
     ELSE \/ \E kind \in Kinds : Buy(p.class, kind, Form)
             /\ p' = Repairing(Len(bought) + 1) /\ UNCHANGED mission
          \/ Rejected(p.class)
          \/ Refused(p.class)
  /\ UNCHANGED <<durable, isolated, starts, preview, fixed>>

Restarting(q) == [NextRound(q) EXCEPT !.pc = "launch"]

\* Mutant: no repair is followed by a build.
ApplyRepairUnbuilt ==
  /\ At("repair")
  /\ LET kind == bought[p.call].kind
     IN  Work(Step("file", "repair-" \o kind, 0), Patched(p.call), WriteEffects(kind, Patched(p.call)),
              OrThrow(Continue(Restarting(p))))

\* A repair of the tests needs no build.
ApplyRepair ==
  /\ At("repair")
  /\ LET kind == bought[p.call].kind
     IN  Work(Step("file", "repair-" \o kind, 0), Patched(p.call), WriteEffects(kind, Patched(p.call)),
              OrThrow(Continue(IF kind = "app" THEN [p EXCEPT !.pc = "rescope"]
                                               ELSE Restarting(p))))

Rescope ==
  /\ At("rescope")
  /\ Work(Step("productionBuild", "scoped", 0), << >>, Effects("productionBuild"),
          OnSuccess(Continue(Restarting(p)), Continue([p EXCEPT !.pc = "rollback"])))

\* The repair broke the build: it is taken back.
Rollback ==
  /\ At("rollback")
  /\ Restore(p.browser, NextRound(p), "launch")
  /\ UNCHANGED <<isolated, preview>>

(***************************************************************************)
(* The delivery.                                                           *)
(***************************************************************************)

Finish ==
  /\ At("finish")
  /\ StopRuntime
  /\ LET q == [p EXCEPT !.goal = "certify"]
     IN  IF p.clean
         THEN p' = [q EXCEPT !.pc = "launch"] /\ UNCHANGED <<mission, durable, calls, starts, fixed>>
         ELSE Restore(p.browser, q, "launch")
  /\ UNCHANGED isolated

\* captureBrowserVerification: the preview, the observed and the current
\* checkpoint have one runtime source, which tests and data are no part of.
SameSource == preview.checkpoint.app = tree.app
              /\ checks[p.browser].post.app = tree.app

Certify ==
  /\ At("certify")
  /\ IF SameSource
     THEN mission' = "VERIFYING" /\ p' = [p EXCEPT !.pc = "down"]
     ELSE Throw
  /\ UNCHANGED <<durable, calls, isolated, starts, preview, fixed>>

\* The worker dies between two work units.
Dies == /\ p.pc # "down" /\ mission = "EXECUTING"
        /\ Death
        /\ UNCHANGED <<durable, calls, isolated, starts, preview>>

Progress ==
  \/ Resume \/ AdmitBundle \/ CorrectBundle \/ ApplyBundle
  \/ RunProcedure \/ Relock \/ RecoverDependencies \/ RepairProcedure \/ MendProcedure
  \/ Isolate \/ Rebuild \/ StartRuntime
  \/ Observe \/ OutOfRounds \/ UndoDesign \/ Deliver \/ GiveUp \/ Correct
  \/ RestartOnly \/ SpendBudget \/ ReplayRepair \/ BuyRepair \/ ApplyRepair \/ Rescope \/ Rollback
  \/ Finish \/ Certify

Next == Progress \/ Dies

Spec == Init /\ [][Next]_vars
FairSpec == Spec /\ WF_vars(Progress)

(***************************************************************************)
(* Correctness.                                                            *)
(***************************************************************************)
Contents == Seq(Nat)
TreeType == [app : Contents, test : Contents, dirty : BOOLEAN]
StepOK(step) == step.procedure \in Procedures \union { "file", "browserVerification" }

\* The types of the variables.
TypeOK ==
  /\ mission \in { "EXECUTING", "VERIFYING", "EXHAUSTED", "FAILED" }
  /\ tree \in TreeType /\ built \in Contents
  /\ \A u \in units : StepOK(u.step) /\ u.status \in Results
  /\ \A b \in begun : StepOK(b.step)
  /\ \A i \in DOMAIN checks : checks[i].pre \in TreeType /\ checks[i].post \in TreeType
  /\ \A c \in DOMAIN bought : bought[c].class \in Classes /\ bought[c].kind \in Kinds
  /\ policy \in Policies /\ rejected \in [Capped -> Nat]
  /\ isolated \subseteq DOMAIN checks /\ starts \in Nat /\ preview.checkpoint \in TreeType
  /\ p.pc \in Places /\ p.browser \in 0..Len(checks) /\ p.over \in 0..Len(checks)
  /\ p.call \in 0..Len(bought)
  /\ faults \in 0..MaxFaults

Source(t) == <<t.app, t.test>>

CheckWasCutShort == \E b \in begun : b.step.procedure = "browserVerification"

\* What goes to verification is the checkpoint from which a browser check proved the
\* workflows, and the data its checks left behind are gone unless a worker died within
\* one; through corrections, replays, rollbacks, undone designs and deaths.  lines
\* 8017-8022: "Finish from the clean pre-observation checkpoint".  The build is another
\* matter: what the browser saw, and what the certified preview serves, was built from
\* that source when no worker died and no design correction was taken back.
\* PreviewServesItsSource is about the correction taken back.
DeliveryWasObserved ==
  mission = "VERIFYING" =>
    /\ p.browser \in DOMAIN checks /\ BehaviourProven(p.seen)
    /\ Source(checks[p.browser].pre) = Source(tree)
    /\ tree.dirty => CheckWasCutShort
    /\ faults = 0 /\ ~p.undone =>
         checks[p.browser].served = tree.app /\ preview.serves = tree.app

\* No more repairs are bought than the budgets allow, in all workers together,
\* and no more proposals than their ceiling: lines 7800-7802, "a model that
\* cannot produce an applicable patch must not be bought from indefinitely".
RepairsAreBudgeted ==
  /\ \A class \in Classes : Cardinality(Bought(class)) <= BudgetOf(class)
  /\ \A class \in Capped \ { "generation" } : CallsOf(class) <= policy[class] * MaxProposals

\* As long as workers are started, execute() comes to an end: no chain of failed
\* commands, rejected proposals, replayed repairs and undone designs goes on.
ExecutionEnds == <>(mission # "EXECUTING")

\* test/production-repair-budget.test.js:1086: the undo "stops the runtime first,
\* and restarts it against the restored project": what a live preview serves was
\* built from the source of its checkpoint.  It was not: a build directory is kept
\* when some build of that source succeeded, whichever build it holds.
PreviewServesItsSource == preview.live => preview.serves = preview.checkpoint.app

\* lines 6491-6502, "after ... evidence-backed changes": a repair of a procedure
\* that was bought was applied before the mission is given up.  It need not be: a
\* worker that dies between the two leaves a repair nobody replays.
MendsWereTried ==
  mission = "EXHAUSTED" =>
    \A c \in UNION { Bought(class) : class \in Procedures } :
      \E u \in units : u.step.procedure = "file" /\ c \in Range(u.inputs)

=============================================================================
