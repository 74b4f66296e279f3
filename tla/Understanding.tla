----------------------------- MODULE Understanding -----------------------------
(***************************************************************************)
(* From a customer's request to the contract its build starts from: the    *)
(* understanding jobs of apps/web/local-api/server.mjs, the requests that  *)
(* revise, approve, start and stop, their recovery when the server is      *)
(* started again, understand(), recordSelections(), approveBlueprint() and *)
(* contract() of project-understanding-service.js, and execute() of        *)
(* production-mission-service.js up to the provisioned workspace.          *)
(*                                                                         *)
(* The server is one process and runs one handler or continuation at a     *)
(* time; a mission worker is a process of its own, so its steps fall       *)
(* between any two records of the server, and what contract() reads one by *)
(* one may be of more than one plan.  A plan (profile, design, blueprint   *)
(* and bindings, one fact) is its place in the sequence of plans, which is *)
(* its profile version.  What models answer is arbitrary.                  *)
(***************************************************************************)
EXTENDS Integers, Sequences

CONSTANTS
  Messages,     \* what the customer may ask for in words
  Choices,      \* the generated options the customer may select
  Subtype,      \* the answer to product-type discovery
  Workers,      \* mission workers
  RequireBlueprintApproval,  \* the option with which the workers are opened
  MaxAsks, MaxPlans, MaxFaults  \* bounds: requests, plans, deaths of a process

ASSUME UnderstandingAssumption ==
  /\ Subtype \notin Messages \union Choices
  /\ RequireBlueprintApproval \in BOOLEAN
  /\ MaxAsks \in Nat \ {0} /\ MaxPlans \in Nat \ {0} /\ MaxFaults \in Nat

VARIABLES
  broad,        \* whether the request is too broad to plan without a product type
  state,        \* the recorded state of the mission
  said,         \* recorded answers, with the plan they asked for
  discovered,   \* whether product types were recorded
  plans,        \* recorded plans
  approval,     \* the plan approved last, 0: none
  contract,     \* the plan whose blueprint gave the Requirement Contract, 0: none
  approved,     \* the draft the ApprovedProjectContract was made of
  provisioned,  \* whether the workspace is recorded
  fresh,        \* the mission was created and its job is not yet started
  entry,        \* what activeUnderstandingJobs holds of the mission
  job,          \* the running job
  hand,         \* the selection the server is recording
  worker,       \* the workers
  asks,         \* customer requests that may cost a provider call
  charges,      \* requests dispatched, whatever routes and corrections they then took
  faults        \* deaths so far

talk   == <<said, discovered, plans>>
deal   == <<approval, contract, approved, provisioned>>
server == <<fresh, entry, job, hand>>
counts == <<asks, charges, faults>>
vars == <<broad, state, talk, deal, server, worker, counts>>

Answers   == Messages \union Choices \union {Subtype}
Intake    == { "INTAKE", "CLARIFYING" }
Later     == { "CONTRACTED", "PROVISIONING", "EXECUTING" }
Ended     == { "FAILED", "CANCELLED" }
Said      == [ what : Answers, asked : 1 .. MaxPlans + 1 ]
Plans     == [ knows : SUBSET Answers, read : SUBSET Messages, open : BOOLEAN ]

NoJob  == [ at |-> "none", goal |-> "plan", knows |-> {}, listed |-> FALSE ]
Jobs   == [ at : { "none", "routing", "asking", "planned", "reading" },
            goal : { "plan", "types" }, knows : SUBSET Answers, listed : BOOLEAN ]
NoHand == [ at |-> "none", knows |-> {} ]
Hands  == [ at : { "none", "choosing", "chosen" }, knows : SUBSET Answers ]

\* A draft: of which plan each of its parts is.
NoDraft == [ profile |-> 0, design |-> 0, context |-> 0, blueprint |-> 0, approval |-> 0 ]
Drafts  == [ profile : 0 .. MaxPlans, design : 0 .. MaxPlans, context : 0 .. MaxPlans,
             blueprint : 0 .. MaxPlans, approval : 0 .. MaxPlans ]

NoWork  == [ at |-> "none", draft |-> NoDraft, known |-> FALSE ]
Work    == [ at : { "none", "open", "profile", "design", "context", "blueprint", "approval",
                    "create", "approve", "contract", "resolve", "setup", "provision",
                    "execute" },
             draft : Drafts, known : BOOLEAN ]

TypeOK ==
  /\ broad \in BOOLEAN /\ state \in Intake \union Later \union Ended
  /\ said \subseteq Said /\ discovered \in BOOLEAN
  /\ plans \in Seq(Plans) /\ Len(plans) <= MaxPlans
  /\ {approval, contract} \subseteq 0 .. Len(plans) /\ approved \in Drafts
  /\ provisioned \in BOOLEAN /\ fresh \in BOOLEAN
  /\ entry \in { "none", "active", "error" }
  /\ job \in Jobs /\ hand \in Hands
  /\ worker \in [ Workers -> Work ]
  /\ asks \in 1 .. MaxAsks /\ charges \in 0 .. MaxAsks /\ faults \in 0 .. MaxFaults

\* POST /missions has recorded the mission and not yet started its job.
Init ==
  /\ broad \in BOOLEAN /\ state = "INTAKE"
  /\ said = {} /\ discovered = FALSE /\ plans = << >>
  /\ approval = 0 /\ contract = 0 /\ approved = NoDraft /\ provisioned = FALSE
  /\ fresh = TRUE /\ entry = "none" /\ job = NoJob /\ hand = NoHand
  /\ worker = [ w \in Workers |-> NoWork ]
  /\ asks = 1 /\ charges = 0 /\ faults = 0

Latest == plans[Len(plans)]

\* Mutant: the answers of requests that failed are lost.
CumulativeOfPlans == UNION { plans[i].knows : i \in DOMAIN plans }

\* cumulativeCustomerFollowUpAnswers: of earlier requests, answered or not, and of plans.
Cumulative ==
  { s.what : s \in said } \union UNION { plans[i].knows : i \in DOMAIN plans }

\* appendResultFact refuses a fact without a checkpoint once there is a workspace.
MayRecord == ~provisioned

\* Between two records the server attends to nothing else.
Busy == job.at \in { "routing", "planned" } \/ hand.at # "none"
Attends == ~Busy /\ ~fresh

-------------------------------------------------------------------------------
(* A job of understanding.                                                 *)

\* startUnderstandingJob and understand() up to the record of the customer's
\* answers; the mission must still be open to understanding.
Understand(answers) ==
  IF state \in Intake
  THEN /\ said' = said \union [ what : answers, asked : { Len(plans) + 1 } ]
       /\ job' = [ at |-> "routing", goal |-> "plan", knows |-> Cumulative \union answers,
                   listed |-> TRUE ]
       /\ entry' = "active"
  ELSE /\ entry' = "error"
       /\ UNCHANGED <<said, job>>

\* The job ends in an error, which is shown unless its entry was deleted.
Fails ==
  /\ job' = NoJob
  /\ entry' = IF job.listed THEN "error" ELSE entry

Create ==
  /\ fresh /\ ~Busy
  /\ fresh' = FALSE
  /\ Understand({})
  /\ UNCHANGED <<broad, state, discovered, plans, deal, hand, worker, counts>>

NeedsTypes == plans = << >> /\ broad /\ Subtype \notin job.knows

\* The dispatch is recorded before the provider is called.
Dispatch ==
  /\ job.at = "routing" /\ MayRecord
  /\ ~(NeedsTypes /\ discovered)
  /\ charges' = charges + 1
  /\ job' = [ job EXCEPT !.at = "asking", !.goal = IF NeedsTypes THEN "types" ELSE "plan" ]
  /\ UNCHANGED <<broad, state, talk, deal, fresh, entry, hand, worker, asks, faults>>

\* The product types are there already and wait for the customer.
TypesKnown ==
  /\ job.at = "routing" /\ NeedsTypes /\ discovered
  /\ job' = [ job EXCEPT !.at = "reading" ]
  /\ UNCHANGED <<broad, state, talk, deal, fresh, entry, hand, worker, counts>>

\* No healthy model is left, the provider fails or answers what is not admitted,
\* or the Ledger takes no such fact any more.
JobFails ==
  /\ job.at = "routing" \/ (job.at = "asking" /\ ~Busy)
  /\ Fails
  /\ UNCHANGED <<broad, state, talk, deal, fresh, hand, worker, counts>>

Publish(plan) == plans' = Append(plans, plan)

PlanAnswered ==
  /\ job.at = "asking" /\ job.goal = "plan" /\ ~Busy /\ MayRecord
  /\ Len(plans) < MaxPlans
  /\ \E open \in BOOLEAN :
       Publish([ knows |-> job.knows, read |-> job.knows \intersect Messages, open |-> open ])
  /\ job' = [ job EXCEPT !.at = "planned" ]
  /\ UNCHANGED <<broad, state, said, discovered, deal, fresh, entry, hand, worker,
                 counts>>

TypesAnswered ==
  /\ job.at = "asking" /\ job.goal = "types" /\ ~Busy /\ MayRecord
  /\ discovered' = TRUE
  /\ job' = [ job EXCEPT !.at = "planned" ]
  /\ UNCHANGED <<broad, state, said, plans, deal, fresh, entry, hand, worker, counts>>

\* The state a published plan, or published types, call for.
Called(question) ==
  CASE state = "INTAKE" /\ question      -> "CLARIFYING"
    [] state = "CLARIFYING" /\ ~question -> "INTAKE"
    [] OTHER -> state

Asks == job.goal = "types" \/ Latest.open

\* The state was read before a worker changed it: the transition is refused.
SettleRefused ==
  /\ job.at = "planned" /\ state \notin Intake
  /\ Fails
  /\ UNCHANGED <<broad, state, talk, deal, fresh, hand, worker, counts>>

Settle ==
  /\ job.at = "planned"
  /\ state' = Called(Asks)
  /\ job' = [ job EXCEPT !.at = "reading" ]
  /\ UNCHANGED <<broad, talk, deal, fresh, entry, hand, worker, counts>>

\* The read-back, which is only shown, is done or has failed; whatever entry the
\* mission then has is deleted.
ReadBack ==
  /\ job.at = "reading" /\ ~Busy
  /\ entry' = "none"
  /\ job' = NoJob
  /\ UNCHANGED <<broad, state, talk, deal, fresh, hand, worker, counts>>

-------------------------------------------------------------------------------
(* What the customer asks of the server.                                   *)

\* POST clarify, refused while a revision is running.
Clarifies == Attends /\ entry # "active"

\* A message or a product type: a job.
Say(answer) ==
  /\ Clarifies /\ asks < MaxAsks
  /\ answer = Subtype => discovered
  /\ Understand({answer})
  /\ asks' = asks + 1
  /\ UNCHANGED <<broad, state, discovered, plans, deal, fresh, hand, worker,
                 charges, faults>>

\* recordSelections, up to what it reads.
Select(choice) ==
  /\ Clarifies
  /\ state \in Intake /\ plans # << >> /\ Len(plans) < MaxPlans
  /\ hand' = [ at |-> "choosing", knows |-> Cumulative \union {choice} ]
  /\ UNCHANGED <<broad, state, talk, deal, fresh, entry, job, worker, counts>>

\* The choice is applied to the current plan, of which no model is asked.
Choose ==
  /\ hand.at = "choosing" /\ MayRecord
  /\ \E open \in { FALSE, Latest.open } :
       Publish([ knows |-> hand.knows, read |-> Latest.read, open |-> open ])
  /\ hand' = [ hand EXCEPT !.at = "chosen" ]
  /\ UNCHANGED <<broad, state, said, discovered, deal, fresh, entry, job, worker,
                 counts>>

ChooseRefused ==
  /\ hand.at = "choosing" /\ ~MayRecord
  /\ hand' = NoHand
  /\ UNCHANGED <<broad, state, talk, deal, fresh, entry, job, worker, counts>>

Chosen ==
  /\ hand.at = "chosen"
  /\ state' = IF state = "CLARIFYING" /\ ~Latest.open THEN "INTAKE" ELSE state
  /\ hand' = NoHand
  /\ UNCHANGED <<broad, talk, deal, fresh, entry, job, worker, counts>>

\* approveBlueprint: of the latest plan, whatever the state.
Approve ==
  /\ Clarifies /\ plans # << >> /\ MayRecord
  /\ approval' = Len(plans)
  /\ UNCHANGED <<broad, state, talk, contract, approved, provisioned, server, worker,
                 counts>>

\* POST understand, which may ask again for as long as there is no plan.
Retry ==
  /\ Attends /\ plans = << >> /\ entry # "active" /\ asks < MaxAsks
  /\ Understand({})
  /\ asks' = asks + 1
  /\ UNCHANGED <<broad, state, discovered, plans, deal, fresh, hand, worker,
                 charges, faults>>

\* POST start: of the workers only those of this server are known.
Start(w) ==
  /\ Attends /\ worker[w].at = "none"
  /\ \A x \in Workers : ~worker[x].known
  /\ worker' = [ worker EXCEPT ![w] = [ NoWork EXCEPT !.at = "open", !.known = TRUE ] ]
  /\ UNCHANGED <<broad, state, talk, deal, server, counts>>

\* POST stop: the worker cancels the mission, or the server does; the entry of
\* the job is deleted, and the job goes on.
Stop ==
  /\ Attends
  /\ state' = IF state \in Ended THEN state ELSE "CANCELLED"
  /\ worker' = [ w \in Workers |-> IF worker[w].known THEN NoWork ELSE worker[w] ]
  /\ entry' = "none" /\ job' = [ job EXCEPT !.listed = FALSE ]
  /\ UNCHANGED <<broad, talk, deal, fresh, hand, counts>>

-------------------------------------------------------------------------------
(* A worker makes the contract and provisions the workspace.               *)

To(w, place) == worker' = [ worker EXCEPT ![w].at = place ]
Works(w, place) == worker[w].at = place

\* execute() throws: the worker records FAILED unless the mission may be started again.
Throws(w) ==
  /\ worker' = [ worker EXCEPT ![w] = NoWork ]
  /\ state' = IF state \in { "PROVISIONING", "EXECUTING" } THEN "FAILED" ELSE state
  /\ UNCHANGED <<contract, approved, provisioned>>

Undisturbed == UNCHANGED <<broad, talk, approval, server, counts>>

\* The mission is contracted already, or executing; or its contract is to be drafted.
Open(w) ==
  /\ Works(w, "open")
  /\ UNCHANGED <<contract, approved, provisioned>>
  /\ CASE state = "INTAKE"     -> To(w, "profile") /\ UNCHANGED state
       [] state = "CONTRACTED" -> To(w, "resolve") /\ UNCHANGED state
       [] state = "EXECUTING"  -> To(w, "none") /\ UNCHANGED state
       [] OTHER -> Throws(w)
  /\ Undisturbed

\* contract() reads the Ledger once for each part of the plan, in this order.
After == [ profile |-> "design", design |-> "context", context |-> "blueprint",
           blueprint |-> "approval" ]

ReadPart(w) ==
  /\ \E part \in DOMAIN After :
       /\ Works(w, part)
       /\ worker' = [ worker EXCEPT ![w].at = After[part], ![w].draft[part] = Len(plans) ]
  /\ UNCHANGED <<state, contract, approved, provisioned>>
  /\ Undisturbed

\* Without an approval nothing compares the blueprint with anything.
Agrees(draft) ==
  draft.approval # 0 \/ RequireBlueprintApproval => draft.approval = draft.blueprint

Drafted(draft) ==
  /\ draft.profile # 0 /\ ~plans[draft.profile].open
  /\ Agrees(draft)

\* The approval is read last; what the parts say may still be found inconsistent.
Draft(w) ==
  /\ Works(w, "approval")
  /\ LET draft == [ worker[w].draft EXCEPT !.approval = approval ] IN
       \/ /\ Drafted(draft)
          /\ worker' = [ worker EXCEPT ![w].at = "create", ![w].draft = draft ]
          /\ UNCHANGED <<state, contract, approved, provisioned>>
       \/ Throws(w)
  /\ Undisturbed

\* Mutant: an existing contract is no obstacle.
CreateContractAgain(w) ==
  /\ Works(w, "create")
  /\ IF state = "INTAKE"
     THEN /\ contract' = worker[w].draft.blueprint
          /\ To(w, "approve")
          /\ UNCHANGED <<state, approved, provisioned>>
     ELSE Throws(w)
  /\ Undisturbed

\* createContract, of the obligations of the blueprint; checked again under the lock.
CreateContract(w) ==
  /\ Works(w, "create")
  /\ IF state = "INTAKE" /\ contract = 0
     THEN /\ contract' = worker[w].draft.blueprint
          /\ To(w, "approve")
          /\ UNCHANGED <<state, approved, provisioned>>
     ELSE Throws(w)
  /\ Undisturbed

\* approvedContracts.approve.
ApproveContract(w) ==
  /\ Works(w, "approve")
  /\ IF state = "INTAKE" /\ approved = NoDraft
     THEN /\ approved' = worker[w].draft
          /\ worker' = [ worker EXCEPT ![w].at = "contract", ![w].draft = NoDraft ]
          /\ UNCHANGED <<state, contract, provisioned>>
     ELSE Throws(w)
  /\ Undisturbed

\* A transition from the state that was read.
Moves(w, from, to, place) ==
  /\ IF state = from
     THEN state' = to /\ To(w, place) /\ UNCHANGED <<contract, approved, provisioned>>
     ELSE Throws(w)
  /\ Undisturbed

Contracted(w) == Works(w, "contract") /\ Moves(w, "INTAKE", "CONTRACTED", "resolve")

\* What execute() reads of the contracted mission.
Resolve(w) ==
  /\ Works(w, "resolve")
  /\ IF approved # NoDraft
     THEN To(w, "setup") /\ UNCHANGED <<state, contract, approved, provisioned>>
     ELSE Throws(w)
  /\ Undisturbed

\* The stack and its tools are checked, or are not there.
SetUp(w) == Works(w, "setup") /\ Moves(w, "CONTRACTED", "PROVISIONING", "provision")
SetUpFails(w) == Works(w, "setup") /\ Throws(w) /\ Undisturbed

Provision(w) ==
  /\ Works(w, "provision")
  /\ IF state = "PROVISIONING" /\ ~provisioned
     THEN provisioned' = TRUE /\ To(w, "execute") /\ UNCHANGED <<state, contract, approved>>
     ELSE Throws(w)
  /\ Undisturbed

\* From here on the build is the matter of module Production.
Execute(w) == Works(w, "execute") /\ Moves(w, "PROVISIONING", "EXECUTING", "none")

WorkerStep(w) ==
  \/ Open(w) \/ ReadPart(w) \/ Draft(w) \/ CreateContract(w) \/ ApproveContract(w)
  \/ Contracted(w) \/ Resolve(w) \/ SetUp(w) \/ SetUpFails(w) \/ Provision(w) \/ Execute(w)

-------------------------------------------------------------------------------
(* Deaths.                                                                 *)

Dies == faults < MaxFaults /\ faults' = faults + 1

WorkerDies(w) ==
  /\ worker[w].at # "none" /\ Dies
  /\ worker' = [ worker EXCEPT ![w] = NoWork ]
  /\ UNCHANGED <<broad, state, talk, deal, server, asks, charges>>

\* understandingRecoveryDecision: pending, and dispatched or not.
Pending == state = "INTAKE" /\ plans = << >>

\* Mutants: a dispatched request is sent again; nothing is said of it.
RecoverAlways ==
  IF Pending THEN Understand({})
  ELSE entry' = "none" /\ job' = NoJob /\ UNCHANGED said

RecoverSilently ==
  IF Pending /\ charges = 0 THEN Understand({})
  ELSE entry' = "none" /\ job' = NoJob /\ UNCHANGED said

Recover ==
  IF Pending /\ charges = 0 THEN Understand({})
  ELSE /\ entry' = IF Pending THEN "error" ELSE "none"
       /\ job' = NoJob /\ UNCHANGED said

\* The server dies and is started again; its workers live on, unknown to it.
ServerDies ==
  /\ Dies
  /\ Recover
  /\ fresh' = FALSE /\ hand' = NoHand
  /\ worker' = [ w \in Workers |-> [ worker[w] EXCEPT !.known = FALSE ] ]
  /\ UNCHANGED <<broad, state, discovered, plans, deal, asks, charges>>

-------------------------------------------------------------------------------
ServerStep ==
  \/ Create \/ Dispatch \/ TypesKnown \/ JobFails \/ PlanAnswered \/ TypesAnswered
  \/ Settle \/ SettleRefused \/ ReadBack \/ Choose \/ ChooseRefused \/ Chosen

Customer ==
  \/ \E answer \in Messages \union {Subtype} : Say(answer)
  \/ \E choice \in Choices : Select(choice)
  \/ Approve \/ Retry \/ Stop
  \/ \E w \in Workers : Start(w)

Next ==
  \/ ServerStep \/ Customer \/ ServerDies
  \/ \E w \in Workers : WorkerStep(w) \/ WorkerDies(w)

Spec == Init /\ [][Next]_vars

\* The event loop turns, and a provider that is called answers or times out.
FairSpec == Spec /\ WF_vars(ServerStep)

-------------------------------------------------------------------------------
(* Properties.                                                             *)

\* server.mjs:1880, "to avoid an automatic duplicate provider charge": however often
\* the server dies and whenever it is started again, no more requests are dispatched
\* than the customer made.
ChargesAreAsked == charges <= asks

\* A contracted mission rests on one draft, however workers die, start over, or are
\* started a second time by a server that forgot them: the obligations it is verified
\* against are those of the contract its models are bound to; the blueprint is the one
\* the customer had approved, if she had approved any; and a draft that ended with the
\* plan it began with is of that plan throughout.
ContractedOnOneDraft ==
  state \in Later =>
    /\ contract # 0 /\ approved.blueprint = contract
    /\ Agrees(approved)
    /\ approved.profile = approved.blueprint =>
         {approved.design, approved.context} = {contract}

\* Every plan takes in everything the customer has said, chosen and had recorded
\* before it: of earlier plans, and of requests that failed or died under way.
PlansHonourEveryAnswer ==
  [][ plans' # plans =>
        \A a \in Answers :
           \/ \E s \in said : s.what = a
           \/ \E i \in DOMAIN plans : a \in plans[i].knows
           => a \in plans'[Len(plans')].knows ]_vars

\* A new request never falls silent: again and again there is a plan, product types to
\* choose from, an error to retry from, or an end, whenever the server dies.
RequestIsAnswered ==
  []<>( plans # << >> \/ discovered \/ entry = "error" \/ state \notin Intake )

\* What the code says and does not keep.

\* project-understanding-service.js:3790, "Production requires an explicitly approved
\* Product Blueprint": no contract is made before the customer approved a blueprint.
ContractWasApproved == contract # 0 => approval # 0

\* The status the conversation shows of a message: applied, once the plan it asked
\* for exists.
Applied(s) == s.what \in Messages /\ s.asked \in DOMAIN plans

\* test/phase-3-conversational-discovery.test.js:365, "a failed natural revision as
\* pending, never as applied": a message is shown as applied only when a model was
\* given it for that plan.
AppliedWasRead == \A s \in said : Applied(s) => s.what \in plans[s.asked].read

\* project-understanding-service.js:2979, "Bindings must come from the SAME plan the
\* ApprovedProjectContract turns into obligations".
BindingsAreOfContract == state = "EXECUTING" => Len(plans) = approved.blueprint

\* The sections of the ApprovedProjectContract are of one plan: a plan published while
\* contract() reads gives it the design of one plan and the blueprint of the next.
ContractedOnOnePlan ==
  state \in Later => approved.profile = approved.blueprint

\* A contract leaves no question open.
ContractLeavesNoQuestion == contract # 0 => ~plans[contract].open

\* A contract without its ApprovedProjectContract is in a worker's hands: left without,
\* no later start can make one.
ContractsAreWhole ==
  contract # 0 /\ approved = NoDraft => \E w \in Workers : Works(w, "approve")

===============================================================================
