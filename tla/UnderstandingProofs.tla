-------------------------- MODULE UnderstandingProofs --------------------------
(***************************************************************************)
(* However many messages, plans, workers and deaths there are: the types   *)
(* of Understanding are kept, no more requests are dispatched than the     *)
(* customer made (ChargesAreAsked), a contracted mission rests on one      *)
(* draft (ContractedOnOneDraft), and no answer is lost to a later plan     *)
(* (PlansHonourEveryAnswer).                                               *)
(*                                                                         *)
(* The argument.  A request that may still be dispatched, because its job  *)
(* is not started (fresh) or has not chosen a route (routing), holds one   *)
(* of the customer's requests back (Owed): a restarted server dispatches   *)
(* again only where nothing was dispatched.  The Requirement Contract is   *)
(* created once; the worker that created it is the only one that can be    *)
(* approving, and what it approves is the draft of that contract (OneDeal).*)
(* The parts of a draft are of the plans there were when they were read,   *)
(* one after the other, so they never go back to an earlier plan           *)
(* (WorkersHavePlans).                                                     *)
(***************************************************************************)
EXTENDS Understanding, TLAPS

\* The server applies a choice to a plan, and there is room for the next.
HandHasPlan ==
  /\ hand.at # "none" => Len(plans) > 0
  /\ hand.at = "choosing" => Len(plans) < MaxPlans

\* The parts of a draft are of plans that exist.
Exists(draft) ==
  /\ draft.profile <= Len(plans) /\ draft.design <= Len(plans)
  /\ draft.context <= Len(plans) /\ draft.blueprint <= Len(plans)

\* None is of an earlier plan than a part read before it.
InOrder(draft) ==
  /\ draft.profile <= draft.design /\ draft.design <= draft.context
  /\ draft.context <= draft.blueprint

Whole(draft) == draft.profile # 0 /\ InOrder(draft) /\ Agrees(draft)

\* What a worker has read so far.
HasRead(at, draft) ==
  /\ at \in { "context", "blueprint" } => draft.profile <= draft.design
  /\ at = "blueprint" => draft.design <= draft.context
  /\ at = "approval" => InOrder(draft)
  /\ at \in { "create", "approve" } => Whole(draft)

WorkersHavePlans ==
  \A w \in Workers : Exists(worker[w].draft) /\ HasRead(worker[w].at, worker[w].draft)

Owed == fresh \/ job.at = "routing"

ChargesAreCovered ==
  /\ fresh => job.at = "none"
  /\ charges <= asks
  /\ Owed => charges + 1 <= asks

\* The state alone says how far the deal must have come.
Deal ==
  /\ approved # NoDraft => approved.blueprint = contract /\ Whole(approved)
  /\ state \in Later => approved # NoDraft

\* A worker between the two contracts, or behind both.
Holds(w) ==
  /\ worker[w].at = "approve" => contract = worker[w].draft.blueprint
  /\ worker[w].at = "contract" => approved # NoDraft

OneDeal == Deal /\ \A w \in Workers : Holds(w)

IInv == TypeOK /\ HandHasPlan /\ WorkersHavePlans /\ ChargesAreCovered /\ OneDeal

USE UnderstandingAssumption

\* cumulativeCustomerFollowUpAnswers returns answers.
LEMMA CumulativeIsAnswers == TypeOK => Cumulative \subseteq Answers
<1> SUFFICES ASSUME TypeOK PROVE Cumulative \subseteq Answers
  OBVIOUS
<1>1. \A s \in said : s.what \in Answers
  BY DEF TypeOK, Said
<1>2. \A i \in DOMAIN plans : plans[i] \in Plans
  BY DEF TypeOK
<1>3. \A plan \in Plans : plan.knows \subseteq Answers
  BY DEF Plans
<1> QED
  BY <1>1, <1>2, <1>3 DEF Cumulative

\* A recorded plan is one more plan.
LEMMA PublishedPlans ==
  ASSUME plans \in Seq(Plans), NEW plan \in Plans, Publish(plan)
  PROVE  plans' \in Seq(Plans) /\ Len(plans') = Len(plans) + 1
  BY DEF Publish

Drafting == { "context", "blueprint", "approval", "create", "approve" }

\* Plans are never taken back, so what was read stays what it is; a worker that starts
\* or ends has read nothing.
LEMMA PlansRemain ==
  ASSUME TypeOK, WorkersHavePlans, Len(plans') \in Nat, Len(plans) <= Len(plans'),
         \A w \in Workers :
           \/ worker'[w].draft = NoDraft /\ worker'[w].at \notin { "create", "approve" }
           \/ /\ worker'[w].draft = worker[w].draft
              /\ worker'[w].at = worker[w].at \/ worker'[w].at \notin Drafting
  PROVE  WorkersHavePlans'
<1> SUFFICES ASSUME NEW w \in Workers
             PROVE  Exists(worker[w].draft)' /\ HasRead(worker[w].at, worker[w].draft)'
  BY DEF WorkersHavePlans
<1>1. CASE worker'[w].draft = NoDraft /\ worker'[w].at \notin { "create", "approve" }
  BY <1>1 DEF NoDraft, Exists, HasRead, InOrder
<1>2. CASE /\ worker'[w].draft = worker[w].draft
           /\ worker'[w].at = worker[w].at \/ worker'[w].at \notin Drafting
  <2>1. worker[w].draft \in Drafts /\ Len(plans) \in Nat
    BY DEF TypeOK, Work
  <2>2. Exists(worker[w].draft) /\ HasRead(worker[w].at, worker[w].draft)
    BY DEF WorkersHavePlans
  <2>3. Exists(worker[w].draft)'
    BY <1>2, <2>1, <2>2 DEF Exists, Drafts
  <2>4. HasRead(worker[w].at, worker[w].draft)'
    BY <1>2, <2>2 DEF HasRead, Drafting
  <2> QED
    BY <2>3, <2>4
<1> QED
  BY <1>1, <1>2

\* What understand() records and starts with.
LEMMA UnderstandIsTyped ==
  ASSUME TypeOK, NEW answers \in SUBSET Answers, Understand(answers)
  PROVE  /\ said' \subseteq Said /\ job' \in Jobs /\ entry' \in { "active", "error" }
         /\ job'.at = "routing" \/ job' = job
<1>1. CASE state \in Intake
  <2>1. [ what : answers, asked : { Len(plans) + 1 } ] \subseteq Said
    <3>1. Len(plans) + 1 \in 1 .. MaxPlans + 1
      BY DEF TypeOK
    <3> QED
      BY <3>1 DEF Said
  <2>2. Cumulative \union answers \subseteq Answers
    BY CumulativeIsAnswers
  <2>3. said' \subseteq Said
    BY <1>1, <2>1 DEF TypeOK, Understand
  <2>4. job' \in Jobs /\ job'.at = "routing"
    <3> DEFINE known == Cumulative \union answers
    <3>1. job' = [ at |-> "routing", goal |-> "plan", knows |-> known, listed |-> TRUE ]
      BY <1>1 DEF Understand
    <3>2. known \in SUBSET Answers
      BY <2>2
    <3> HIDE DEF known
    <3> QED
      BY <3>1, <3>2 DEF Jobs
  <2> QED
    BY <1>1, <2>3, <2>4 DEF Understand
<1>2. CASE state \notin Intake
  BY <1>2 DEF TypeOK, Understand
<1> QED
  BY <1>1, <1>2

LEMMA InitIsGood == Init => IInv
<1> SUFFICES ASSUME Init PROVE IInv
  OBVIOUS
<1> USE DEF Init
<1>1. Len(plans) = 0 /\ plans \in Seq(Plans)
  OBVIOUS
<1>2. job \in Jobs /\ hand \in Hands /\ worker \in [ Workers -> Work ]
  BY DEF NoJob, Jobs, NoHand, Hands, NoWork, Work, NoDraft, Drafts
<1>3. /\ {approval, contract} \subseteq 0 .. Len(plans) /\ approved \in Drafts
      /\ asks \in 1 .. MaxAsks /\ charges \in 0 .. MaxAsks /\ faults \in 0 .. MaxFaults
      /\ Len(plans) <= MaxPlans
  BY <1>1 DEF NoDraft, Drafts
<1>7. TypeOK
  BY <1>1, <1>2, <1>3 DEF TypeOK, Intake
<1>4. HandHasPlan /\ WorkersHavePlans
  BY <1>1 DEF HandHasPlan, WorkersHavePlans, Exists, HasRead, NoHand, NoWork, NoDraft
<1>5. ChargesAreCovered
  BY DEF ChargesAreCovered, Owed, NoJob
<1>6. OneDeal
  BY DEF OneDeal, Deal, Holds, Later, NoWork
<1> QED
  BY <1>7, <1>4, <1>5, <1>6 DEF IInv

LEMMA ServerStepsAreGood ==
  IInv /\ ServerStep => IInv'
<1> SUFFICES ASSUME IInv, ServerStep PROVE IInv'
  OBVIOUS
<1>w. ASSUME UNCHANGED <<plans, worker>> PROVE WorkersHavePlans'
  BY <1>w DEF IInv, WorkersHavePlans, Exists
<1> USE DEF IInv, TypeOK, HandHasPlan, ChargesAreCovered, OneDeal, Deal, Holds, Owed
<1>1. CASE Create
  <2>1. /\ said' \subseteq Said /\ job' \in Jobs /\ entry' \in { "active", "error" }
        /\ job'.at = "routing" \/ job' = job
    BY <1>1, UnderstandIsTyped DEF Create
  <2> QED
    BY <1>1, <2>1, <1>w DEF Create, deal, counts
<1>2. CASE Dispatch
  <2>1. job' \in Jobs /\ job'.at = "asking"
    BY <1>2 DEF Dispatch, Jobs
  <2>2. charges' = charges + 1 /\ charges' <= asks /\ charges' \in 0 .. MaxAsks /\ ~fresh
    BY <1>2 DEF Dispatch
  <2> QED
    BY <1>2, <2>1, <2>2, <1>w DEF Dispatch, talk, deal
<1>3. CASE TypesKnown
  BY <1>3, <1>w DEF TypesKnown, NeedsTypes, Jobs, talk, deal, counts
<1>4. CASE JobFails
  BY <1>4, <1>w DEF JobFails, Fails, Jobs, NoJob, talk, deal, counts
<1>5. CASE PlanAnswered
  <2>1. PICK open \in BOOLEAN :
          Publish([ knows |-> job.knows, read |-> job.knows \intersect Messages, open |-> open ])
    BY <1>5 DEF PlanAnswered
  <2>2. plans' \in Seq(Plans) /\ Len(plans') = Len(plans) + 1
    BY <2>1, PublishedPlans DEF Jobs, Plans
  <2>3. job' \in Jobs /\ job'.at = "planned" /\ hand.at = "none"
    BY <1>5 DEF PlanAnswered, Busy, Jobs
  <2>4. {approval, contract}' \subseteq 0 .. Len(plans')
    BY <1>5, <2>2 DEF PlanAnswered, deal
  <2>5. Len(plans') <= MaxPlans
    BY <1>5, <2>2 DEF PlanAnswered
  <2>6. TypeOK'
    BY <1>5, <2>2, <2>3, <2>4, <2>5 DEF PlanAnswered, deal, counts
  <2>7. HandHasPlan' /\ WorkersHavePlans'
    BY <1>5, <2>2, <2>3, PlansRemain DEF PlanAnswered
  <2>8. ChargesAreCovered' /\ OneDeal'
    BY <1>5, <2>3 DEF PlanAnswered, deal, counts
  <2> QED
    BY <2>6, <2>7, <2>8 DEF IInv
<1>6. CASE TypesAnswered
  BY <1>6, <1>w DEF TypesAnswered, Busy, Jobs, deal, counts
<1>7. CASE Settle
  BY <1>7, <1>w DEF Settle, Called, Jobs, Intake, Later, talk, deal, counts
<1>8. CASE SettleRefused
  BY <1>8, <1>w DEF SettleRefused, Fails, Jobs, NoJob, talk, deal, counts
<1>9. CASE ReadBack
  BY <1>9, <1>w DEF ReadBack, Busy, Jobs, NoJob, talk, deal, counts
<1>10. CASE Choose
  <2>1. Latest \in Plans
    BY <1>10 DEF Choose, Latest
  <2>2. PICK open \in { FALSE, Latest.open } :
          Publish([ knows |-> hand.knows, read |-> Latest.read, open |-> open ])
    BY <1>10 DEF Choose
  <2>3. plans' \in Seq(Plans) /\ Len(plans') = Len(plans) + 1
    BY <2>1, <2>2, PublishedPlans DEF Hands, Plans
  <2>4. hand' \in Hands /\ hand'.at = "chosen"
    BY <1>10 DEF Choose, Hands
  <2>5. {approval, contract}' \subseteq 0 .. Len(plans')
    BY <1>10, <2>3 DEF Choose, deal
  <2>6. Len(plans') <= MaxPlans
    BY <1>10, <2>3 DEF Choose
  <2>7. TypeOK'
    BY <1>10, <2>3, <2>4, <2>5, <2>6 DEF Choose, deal, counts
  <2>8. HandHasPlan' /\ WorkersHavePlans'
    BY <1>10, <2>3, <2>4, PlansRemain DEF Choose
  <2>9. ChargesAreCovered' /\ OneDeal'
    BY <1>10, <2>4 DEF Choose, deal, counts
  <2> QED
    BY <2>7, <2>8, <2>9 DEF IInv
<1>11. CASE ChooseRefused
  BY <1>11, <1>w DEF ChooseRefused, Hands, NoHand, talk, deal, counts
<1>12. CASE Chosen
  BY <1>12, <1>w DEF Chosen, Hands, NoHand, Intake, Later, talk, deal, counts
<1> QED
  BY <1>1, <1>2, <1>3, <1>4, <1>5, <1>6, <1>7, <1>8, <1>9, <1>10, <1>11, <1>12 DEF ServerStep

LEMMA CustomerStepsAreGood ==
  IInv /\ Customer => IInv'
<1> SUFFICES ASSUME IInv, Customer PROVE IInv'
  OBVIOUS
<1>w. ASSUME UNCHANGED <<plans, worker>> PROVE WorkersHavePlans'
  BY <1>w DEF IInv, WorkersHavePlans, Exists
<1> USE DEF IInv, TypeOK, HandHasPlan, ChargesAreCovered, OneDeal, Deal, Holds, Owed
<1>1. ASSUME NEW answer \in Messages \union {Subtype}, Say(answer) PROVE IInv'
  <2>1. /\ said' \subseteq Said /\ job' \in Jobs /\ entry' \in { "active", "error" }
        /\ job'.at = "routing" \/ job' = job
    BY <1>1, UnderstandIsTyped DEF Say, Answers
  <2>2. ~Owed
    BY <1>1 DEF Say, Clarifies, Attends, Busy
  <2> QED
    BY <1>1, <2>1, <2>2, <1>w DEF Say, Clarifies, Attends, deal
<1>2. ASSUME NEW choice \in Choices, Select(choice) PROVE IInv'
  <2>1. hand' \in Hands /\ hand'.at = "choosing" /\ Len(plans) > 0 /\ Len(plans) < MaxPlans
    <3> DEFINE known == Cumulative \union {choice}
    <3>1. hand' = [ at |-> "choosing", knows |-> known ]
      BY <1>2 DEF Select
    <3>2. known \in SUBSET Answers
      BY CumulativeIsAnswers DEF Answers
    <3> HIDE DEF known
    <3>3. Len(plans) > 0 /\ Len(plans) < MaxPlans
      BY <1>2 DEF Select
    <3> QED
      BY <3>1, <3>2, <3>3 DEF Hands
  <2> QED
    BY <1>2, <2>1, <1>w DEF Select, talk, deal, counts
<1>3. CASE Approve
  <2>1. Len(plans) \in 0 .. Len(plans)
    OBVIOUS
  <2> QED
    BY <1>3, <2>1, <1>w DEF Approve, talk, server, counts
<1>4. CASE Retry
  <2>1. /\ said' \subseteq Said /\ job' \in Jobs /\ entry' \in { "active", "error" }
        /\ job'.at = "routing" \/ job' = job
    BY <1>4, UnderstandIsTyped DEF Retry
  <2>2. ~Owed
    BY <1>4 DEF Retry, Attends, Busy
  <2> QED
    BY <1>4, <2>1, <2>2, <1>w DEF Retry, Attends, deal
<1>5. CASE Stop
  <2>1. job' \in Jobs /\ job'.at = job.at
    BY <1>5 DEF Stop, Jobs
  <2>2. worker' \in [ Workers -> Work ]
    BY <1>5 DEF Stop, NoWork, Work, NoDraft, Drafts
  <2>3. state' \in Ended
    BY <1>5 DEF Stop, Ended
  <2>4. \A w \in Workers : worker'[w] = NoWork \/ worker'[w] = worker[w]
    BY <1>5 DEF Stop
  <2>5. TypeOK' /\ HandHasPlan' /\ ChargesAreCovered'
    BY <1>5, <2>1, <2>2, <2>3 DEF Stop, talk, deal, counts
  <2>6. WorkersHavePlans'
    BY <1>5, <2>4, PlansRemain DEF Stop, NoWork, talk
  <2>7. OneDeal'
    BY <1>5, <2>3, <2>4 DEF Stop, NoWork, Later, Ended, deal
  <2> QED
    BY <2>5, <2>6, <2>7
<1>6. ASSUME NEW w \in Workers, Start(w) PROVE IInv'
  <2>1. worker' \in [ Workers -> Work ]
    <3>1. NoWork \in Work
      BY DEF NoWork, Work, NoDraft, Drafts
    <3>2. [ NoWork EXCEPT !.at = "open", !.known = TRUE ] \in Work
      BY <3>1 DEF Work
    <3> QED
      BY <1>6, <3>2 DEF Start
  <2>2. /\ worker'[w].at = "open" /\ worker'[w].draft = NoDraft
        /\ \A x \in Workers : x # w => worker'[x] = worker[x]
    BY <1>6 DEF Start, NoWork
  <2>3. TypeOK' /\ HandHasPlan' /\ ChargesAreCovered'
    BY <1>6, <2>1 DEF Start, talk, deal, server, counts
  <2>4. WorkersHavePlans'
    BY <1>6, <2>2, PlansRemain DEF Start, talk
  <2>5. OneDeal'
    BY <1>6, <2>2 DEF Start, deal
  <2> QED
    BY <2>3, <2>4, <2>5
<1> QED
  BY <1>1, <1>2, <1>3, <1>4, <1>5, <1>6 DEF Customer

\* A worker goes on, with what it has read, and the others stay where they are.
LEMMA WorkerGoesOn ==
  ASSUME TypeOK, NEW w \in Workers, NEW place,
         place \in { "none", "profile", "approve", "resolve", "setup", "provision", "execute" },
         To(w, place)
  PROVE  /\ worker' \in [ Workers -> Work ]
         /\ worker'[w].at = place /\ worker'[w].draft = worker[w].draft
         /\ \A x \in Workers : x # w => worker'[x] = worker[x]
  BY DEF TypeOK, To, Work

\* A worker goes on with another draft.
LEMMA WorkerDrafts ==
  ASSUME TypeOK, NEW w \in Workers, NEW place, NEW draft \in Drafts,
         place \in { "design", "context", "blueprint", "approval", "create", "contract" },
         worker' = [ worker EXCEPT ![w].at = place, ![w].draft = draft ]
  PROVE  /\ worker' \in [ Workers -> Work ]
         /\ worker'[w].at = place /\ worker'[w].draft = draft
         /\ \A x \in Workers : x # w => worker'[x] = worker[x]
  BY DEF TypeOK, Work

LEMMA ThrowIsGood ==
  ASSUME IInv, NEW w \in Workers, Throws(w), Undisturbed
  PROVE  IInv'
<1> USE DEF IInv, TypeOK, HandHasPlan, ChargesAreCovered, OneDeal, Deal, Holds, Owed
<1>1. worker' \in [ Workers -> Work ]
  BY DEF Throws, NoWork, Work, NoDraft, Drafts
<1>2. \A x \in Workers : worker'[x] = NoWork \/ worker'[x] = worker[x]
  BY DEF Throws
<1>3. state' = state \/ state' = "FAILED"
  BY DEF Throws
<1>4. TypeOK' /\ HandHasPlan' /\ ChargesAreCovered'
  BY <1>1, <1>3 DEF Throws, Undisturbed, talk, server, counts, Ended
<1>5. WorkersHavePlans'
  BY <1>2, PlansRemain DEF Undisturbed, talk, NoWork
<1>6. OneDeal'
  BY <1>2, <1>3 DEF Throws, NoWork, Later
<1> QED
  BY <1>4, <1>5, <1>6

\* A step of the worker w to a place where it holds nothing new, in which neither
\* plans nor contracts change.
LEMMA QuietStepIsGood ==
  ASSUME IInv, NEW w \in Workers, NEW place,
         place \in { "none", "profile", "resolve", "setup", "provision", "execute" },
         To(w, place), Undisturbed, UNCHANGED <<contract, approved>>, provisioned' \in BOOLEAN,
         state' \in Intake \union Later \union Ended,
         state' \in Later => approved # NoDraft
  PROVE  IInv'
<1> USE DEF IInv, TypeOK, HandHasPlan, ChargesAreCovered, OneDeal, Deal, Holds, Owed
<1>1. /\ worker' \in [ Workers -> Work ]
      /\ worker'[w].at = place /\ worker'[w].draft = worker[w].draft
      /\ \A x \in Workers : x # w => worker'[x] = worker[x]
  BY WorkerGoesOn
<1>2. TypeOK' /\ HandHasPlan' /\ ChargesAreCovered'
  BY <1>1 DEF Undisturbed, talk, server, counts
<1>3. WorkersHavePlans'
  BY <1>1, PlansRemain DEF Undisturbed, talk, Drafting
<1>4. OneDeal'
  BY <1>1
<1> QED
  BY <1>2, <1>3, <1>4

\* A part of the plan that is now the latest: no part read before is of a later one.
LEMMA ReadingIsGood ==
  ASSUME IInv, NEW w \in Workers, ReadPart(w)
  PROVE  IInv'
<1> USE DEF IInv
<1>0. /\ worker[w].draft \in Drafts /\ worker \in [ Workers -> Work ] /\ worker[w] \in Work
      /\ Len(plans) \in 0 .. MaxPlans
  BY DEF TypeOK, Work
<1>1. PICK part \in DOMAIN After :
        /\ Works(w, part)
        /\ worker' = [ worker EXCEPT ![w].at = After[part], ![w].draft[part] = Len(plans) ]
  BY DEF ReadPart
<1> DEFINE draft == [ worker[w].draft EXCEPT ![part] = Len(plans) ]
<1>2. part \in { "profile", "design", "context", "blueprint" }
  BY DEF After
<1>3. draft \in Drafts
  BY <1>0, <1>2 DEF Drafts
<1>4. After[part] \in { "design", "context", "blueprint", "approval" }
  BY <1>2 DEF After
<1>5. worker' = [ worker EXCEPT ![w].at = After[part], ![w].draft = draft ]
  BY <1>0, <1>1 DEF Work
<1>6. Exists(draft)
  BY <1>0, <1>2 DEF Exists, Drafts, WorkersHavePlans
<1>7. HasRead(After[part], draft)
  <2>1. HasRead(part, worker[w].draft) /\ Exists(worker[w].draft)
    BY <1>1 DEF Works, WorkersHavePlans
  <2> QED
    BY <1>0, <1>2, <2>1 DEF HasRead, Exists, InOrder, After, Drafts
<1> HIDE DEF draft
<1>8. /\ worker' \in [ Workers -> Work ]
      /\ worker'[w].at = After[part] /\ worker'[w].draft = draft
      /\ \A x \in Workers : x # w => worker'[x] = worker[x]
  BY <1>3, <1>4, <1>5, WorkerDrafts
<1>9. UNCHANGED <<plans, state, contract, approved, provisioned>> /\ Undisturbed
  BY DEF ReadPart, Undisturbed, talk
<1>10. TypeOK' /\ HandHasPlan' /\ ChargesAreCovered'
  BY <1>8, <1>9 DEF Undisturbed, talk, server, counts, TypeOK, HandHasPlan, ChargesAreCovered,
                    Owed
<1>11. WorkersHavePlans'
  BY <1>6, <1>7, <1>8, <1>9 DEF WorkersHavePlans, Exists
<1>12. OneDeal'
  BY <1>4, <1>8, <1>9 DEF OneDeal, Deal, Holds
<1> QED
  BY <1>10, <1>11, <1>12

\* The draft is made, and agrees with the approval there is.
LEMMA DraftIsGood ==
  ASSUME IInv, NEW w \in Workers, Draft(w)
  PROVE  IInv'
<1> USE DEF IInv
<1> DEFINE draft == [ worker[w].draft EXCEPT !.approval = approval ]
<1>0. Undisturbed /\ Works(w, "approval")
  BY DEF Draft
<1>1. CASE Throws(w)
  BY <1>0, <1>1, ThrowIsGood
<1>2. CASE /\ Drafted(draft)
           /\ worker' = [ worker EXCEPT ![w].at = "create", ![w].draft = draft ]
           /\ UNCHANGED <<state, contract, approved, provisioned>>
  <2>1. worker[w].draft \in Drafts /\ approval \in 0 .. MaxPlans
    BY DEF TypeOK, Work
  <2>2. draft \in Drafts
    BY <2>1 DEF Drafts
  <2>3. Exists(draft) /\ InOrder(draft)
    BY <1>0, <2>1 DEF Works, WorkersHavePlans, HasRead, Exists, InOrder, Drafts
  <2> HIDE DEF draft
  <2>4. Whole(draft)
    BY <1>2, <2>3 DEF Whole, Drafted
  <2>5. /\ worker' \in [ Workers -> Work ]
        /\ worker'[w].at = "create" /\ worker'[w].draft = draft
        /\ \A x \in Workers : x # w => worker'[x] = worker[x]
    BY <1>2, <2>2, WorkerDrafts
  <2>6. TypeOK' /\ HandHasPlan' /\ ChargesAreCovered'
    BY <1>0, <1>2, <2>5 DEF Undisturbed, talk, server, counts, TypeOK, HandHasPlan,
                            ChargesAreCovered, Owed
  <2>7. WorkersHavePlans'
    BY <1>0, <2>3, <2>4, <2>5 DEF WorkersHavePlans, Exists, HasRead, Undisturbed, talk
  <2>8. OneDeal'
    BY <1>2, <2>5 DEF OneDeal, Deal, Holds
  <2> QED
    BY <2>6, <2>7, <2>8
<1> QED
  BY <1>1, <1>2 DEF Draft

\* A whole draft has a blueprint.
LEMMA WholeHasBlueprint ==
  ASSUME NEW draft \in Drafts, Whole(draft)
  PROVE  draft.blueprint # 0
  BY DEF Whole, InOrder, Drafts

LEMMA ContractIsGood ==
  ASSUME IInv, NEW w \in Workers, CreateContract(w)
  PROVE  IInv'
<1> USE DEF IInv
<1>0. Undisturbed /\ Works(w, "create")
  BY DEF CreateContract
<1>1. CASE Throws(w)
  BY <1>0, <1>1, ThrowIsGood
<1>2. CASE /\ state = "INTAKE" /\ contract = 0 /\ contract' = worker[w].draft.blueprint
           /\ To(w, "approve") /\ UNCHANGED <<state, approved, provisioned>>
  <2>1. /\ worker' \in [ Workers -> Work ]
        /\ worker'[w].at = "approve" /\ worker'[w].draft = worker[w].draft
        /\ \A x \in Workers : x # w => worker'[x] = worker[x]
    BY <1>2, WorkerGoesOn
  <2>2. worker[w].draft \in Drafts /\ Exists(worker[w].draft) /\ Whole(worker[w].draft)
    BY <1>0 DEF Works, WorkersHavePlans, HasRead, TypeOK, Work
  <2>3. contract' \in 0 .. Len(plans)
    BY <1>2, <2>2 DEF Exists, Drafts, TypeOK
  <2>4. TypeOK' /\ HandHasPlan' /\ ChargesAreCovered'
    BY <1>0, <1>2, <2>1, <2>3 DEF Undisturbed, talk, server, counts, TypeOK, HandHasPlan,
                                  ChargesAreCovered, Owed
  <2>5. WorkersHavePlans'
    BY <1>0, <2>1, <2>2 DEF WorkersHavePlans, Exists, HasRead, Undisturbed, talk
  <2>6. approved = NoDraft /\ \A x \in Workers : worker[x].at # "approve"
    <3>1. \A d \in Drafts : Whole(d) => d.blueprint # 0
      BY WholeHasBlueprint
    <3>2. approved \in Drafts /\ \A x \in Workers : worker[x].draft \in Drafts
      BY DEF TypeOK, Work
    <3>3. \A x \in Workers : worker[x].at = "approve" => Whole(worker[x].draft)
      BY DEF WorkersHavePlans, HasRead
    <3> QED
      BY <1>2, <3>1, <3>2, <3>3 DEF OneDeal, Deal, Holds
  <2>7. OneDeal'
    BY <1>2, <2>1, <2>6 DEF OneDeal, Deal, Holds
  <2> QED
    BY <2>4, <2>5, <2>7
<1> QED
  BY <1>1, <1>2 DEF CreateContract

LEMMA ApprovalIsGood ==
  ASSUME IInv, NEW w \in Workers, ApproveContract(w)
  PROVE  IInv'
<1> USE DEF IInv
<1>0. Undisturbed /\ Works(w, "approve")
  BY DEF ApproveContract
<1>1. CASE Throws(w)
  BY <1>0, <1>1, ThrowIsGood
<1>2. CASE /\ state = "INTAKE" /\ approved = NoDraft /\ approved' = worker[w].draft
           /\ worker' = [ worker EXCEPT ![w].at = "contract", ![w].draft = NoDraft ]
           /\ UNCHANGED <<state, contract, provisioned>>
  <2>0. NoDraft \in Drafts
    BY DEF NoDraft, Drafts
  <2>1. /\ worker' \in [ Workers -> Work ]
        /\ worker'[w].at = "contract" /\ worker'[w].draft = NoDraft
        /\ \A x \in Workers : x # w => worker'[x] = worker[x]
    BY <1>2, <2>0, WorkerDrafts
  <2>2. worker[w].draft \in Drafts /\ Whole(worker[w].draft)
    BY <1>0 DEF Works, WorkersHavePlans, HasRead, TypeOK, Work
  <2>3. contract = worker[w].draft.blueprint
    BY <1>0 DEF Works, OneDeal, Holds
  <2>4. TypeOK' /\ HandHasPlan' /\ ChargesAreCovered'
    BY <1>0, <1>2, <2>1, <2>2 DEF Undisturbed, talk, server, counts, TypeOK, HandHasPlan,
                                  ChargesAreCovered, Owed
  <2>5. WorkersHavePlans'
    BY <1>0, <2>1, PlansRemain DEF Undisturbed, talk, TypeOK
  <2>6. approved' # NoDraft
    BY <1>2, <2>2 DEF Whole, NoDraft
  <2>7. OneDeal'
    BY <1>2, <2>1, <2>2, <2>3, <2>6 DEF OneDeal, Deal, Holds
  <2> QED
    BY <2>4, <2>5, <2>7
<1> QED
  BY <1>1, <1>2 DEF ApproveContract

LEMMA WorkerStepsAreGood ==
  ASSUME IInv, NEW w \in Workers, WorkerStep(w)
  PROVE  IInv'
<1> USE DEF IInv
<1>t. ASSUME Throws(w), Undisturbed PROVE IInv'
  BY <1>t, ThrowIsGood
<1>1. CASE Open(w)
  BY <1>1, <1>t, QuietStepIsGood DEF Open, Later, TypeOK, OneDeal, Deal
<1>2. CASE ReadPart(w) \/ Draft(w)
  BY <1>2, ReadingIsGood, DraftIsGood
<1>3. CASE CreateContract(w) \/ ApproveContract(w)
  BY <1>3, ContractIsGood, ApprovalIsGood
<1>5. CASE Contracted(w)
  <2>1. approved # NoDraft
    BY <1>5 DEF Contracted, Works, OneDeal, Holds
  <2> QED
    BY <1>5, <1>t, <2>1, QuietStepIsGood DEF Contracted, Moves, Later, TypeOK
<1>6. CASE Resolve(w)
  BY <1>6, <1>t, QuietStepIsGood DEF Resolve, TypeOK, OneDeal, Deal
<1>7. CASE SetUp(w)
  BY <1>7, <1>t, QuietStepIsGood DEF SetUp, Moves, Later, TypeOK, OneDeal, Deal
<1>8. CASE SetUpFails(w)
  BY <1>8, <1>t DEF SetUpFails
<1>9. CASE Provision(w)
  BY <1>9, <1>t, QuietStepIsGood DEF Provision, TypeOK, OneDeal, Deal
<1>10. CASE Execute(w)
  BY <1>10, <1>t, QuietStepIsGood DEF Execute, Moves, Later, TypeOK, OneDeal, Deal
<1> QED
  BY <1>1, <1>2, <1>3, <1>5, <1>6, <1>7, <1>8, <1>9, <1>10 DEF WorkerStep

LEMMA DeathsAreGood ==
  ASSUME IInv, ServerDies \/ \E w \in Workers : WorkerDies(w)
  PROVE  IInv'
<1> USE DEF IInv, TypeOK, HandHasPlan, ChargesAreCovered, OneDeal, Deal, Holds, Owed
<1>1. ASSUME NEW w \in Workers, WorkerDies(w) PROVE IInv'
  <2>1. NoWork \in Work
    BY DEF NoWork, Work, NoDraft, Drafts
  <2>2. worker' \in [ Workers -> Work ]
    BY <1>1, <2>1 DEF WorkerDies
  <2>3. \A x \in Workers : worker'[x] = NoWork \/ worker'[x] = worker[x]
    BY <1>1 DEF WorkerDies
  <2>4. faults' \in 0 .. MaxFaults
    BY <1>1 DEF WorkerDies, Dies
  <2>5. TypeOK' /\ HandHasPlan' /\ ChargesAreCovered'
    BY <1>1, <2>2, <2>4 DEF WorkerDies, talk, deal, server
  <2>6. WorkersHavePlans'
    BY <1>1, <2>3, PlansRemain DEF WorkerDies, talk, NoWork
  <2>7. OneDeal'
    BY <1>1, <2>3 DEF WorkerDies, deal, NoWork
  <2> QED
    BY <2>5, <2>6, <2>7
<1>2. CASE ServerDies
  <2>1. /\ said' \subseteq Said /\ job' \in Jobs /\ entry' \in { "none", "active", "error" }
        /\ job'.at = "routing" => charges = 0
    <3>1. CASE Pending /\ charges = 0
      BY <1>2, <3>1, UnderstandIsTyped DEF ServerDies, Recover
    <3>2. CASE ~(Pending /\ charges = 0)
      <4>1. NoJob \in Jobs /\ NoJob.at = "none"
        BY DEF NoJob, Jobs
      <4>2. job' = NoJob /\ said' = said /\ entry' \in { "none", "error" }
        BY <1>2, <3>2 DEF ServerDies, Recover
      <4> QED
        BY <4>1, <4>2
    <3> QED
      BY <3>1, <3>2
  <2>2. worker' \in [ Workers -> Work ]
    <3>1. \A w \in Workers : [ worker[w] EXCEPT !.known = FALSE ] \in Work
      BY DEF Work
    <3> QED
      BY <1>2, <3>1 DEF ServerDies
  <2>3. \A x \in Workers :
          worker'[x].at = worker[x].at /\ worker'[x].draft = worker[x].draft
    BY <1>2 DEF ServerDies, Work
  <2>4. faults' \in 0 .. MaxFaults /\ hand' \in Hands /\ hand'.at = "none" /\ ~fresh'
    BY <1>2 DEF ServerDies, Dies, NoHand, Hands
  <2>5. TypeOK' /\ HandHasPlan'
    BY <1>2, <2>1, <2>2, <2>4 DEF ServerDies, talk, deal
  <2>6. ChargesAreCovered'
    BY <1>2, <2>1, <2>4 DEF ServerDies
  <2>7. WorkersHavePlans'
    BY <1>2, <2>3, PlansRemain DEF ServerDies, talk
  <2>8. OneDeal'
    BY <1>2, <2>3 DEF ServerDies, talk, deal
  <2> QED
    BY <2>5, <2>6, <2>7, <2>8
<1> QED
  BY <1>1, <1>2

LEMMA StutteringIsGood == IInv /\ UNCHANGED vars => IInv'
  BY DEF IInv, TypeOK, HandHasPlan, WorkersHavePlans, Exists, ChargesAreCovered, OneDeal, Deal,
         Holds, Owed, vars, talk, deal, server, counts

LEMMA Invariance == Spec => []IInv
<1>1. IInv /\ [Next]_vars => IInv'
  BY ServerStepsAreGood, CustomerStepsAreGood, WorkerStepsAreGood, DeathsAreGood,
     StutteringIsGood DEF Next
<1> QED
  BY InitIsGood, <1>1, PTL DEF Spec

-------------------------------------------------------------------------------
\* Every variable keeps its type: above all, the approval and the contract are of plans
\* that exist, and a selection begun has a plan to apply to.
THEOREM UnderstandingTypes == Spec => []TypeOK
<1>1. IInv => TypeOK
  BY DEF IInv
<1> QED
  BY Invariance, <1>1, PTL

\* No more requests are dispatched to providers than the customer made, however often
\* the server dies and recovers (understanding-recovery.mjs, server.mjs).
THEOREM ChargesWereAsked == Spec => []ChargesAreAsked
<1>1. IInv => ChargesAreAsked
  BY DEF IInv, ChargesAreCovered, ChargesAreAsked
<1> QED
  BY Invariance, <1>1, PTL

\* A mission past CONTRACTED has one Requirement Contract and one ApprovedProjectContract,
\* of the same draft and in agreement with the approval there was, whatever number of
\* workers made them (contract()); where no plan was published while it was read, the
\* draft is of one plan.
THEOREM ContractIsOfOneDraft == Spec => []ContractedOnOneDraft
<1>1. IInv => ContractedOnOneDraft
  <2> SUFFICES ASSUME IInv, state \in Later
               PROVE  /\ contract # 0 /\ approved.blueprint = contract
                      /\ Agrees(approved)
                      /\ approved.profile = approved.blueprint =>
                           {approved.design, approved.context} = {contract}
    BY DEF ContractedOnOneDraft
  <2>1. approved \in Drafts /\ approved.blueprint = contract /\ Whole(approved)
    BY DEF IInv, TypeOK, OneDeal, Deal
  <2>2. contract # 0
    BY <2>1, WholeHasBlueprint
  <2>3. approved.profile = approved.blueprint =>
          approved.design = contract /\ approved.context = contract
    BY <2>1 DEF Whole, InOrder, Drafts
  <2> QED
    BY <2>1, <2>2, <2>3 DEF Whole
<1> QED
  BY Invariance, <1>1, PTL

-------------------------------------------------------------------------------
(* Plans honour every answer.  A job or a selection under way knows all the *)
(* answers there are, and while there is one nothing is added: the entry of *)
(* a job turns answers away, and where the entry was deleted the mission    *)
(* has left the states in which answers are taken.                          *)

Attentive ==
  /\ job.at # "none" => entry = "active" \/ state \notin Intake
  /\ hand.at # "none" => job.at = "none"

KnowsAll ==
  /\ job.at \in { "routing", "asking" } => Cumulative \subseteq job.knows
  /\ hand.at = "choosing" => Cumulative \subseteq hand.knows

HInv == IInv /\ Attentive /\ KnowsAll

\* The answers understand() records are the answers it goes on with.
LEMMA UnderstandKnowsAll ==
  ASSUME Understand({}) \/ \E answer \in Answers : Understand({answer}), plans' = plans
  PROVE  job'.at \in { "routing", "asking" } =>
            \/ Cumulative' \subseteq job'.knows
            \/ job' = job /\ said' = said
<1>1. PICK answers \in SUBSET Answers : Understand(answers)
  OBVIOUS
<1>2. CASE state \in Intake
  <2>1. /\ said' = said \union [ what : answers, asked : { Len(plans) + 1 } ]
        /\ job'.knows = Cumulative \union answers
    BY <1>1, <1>2 DEF Understand
  <2>2. \A s \in said' : s.what \in Cumulative \union answers
    BY <2>1 DEF Cumulative
  <2>3. \A i \in DOMAIN plans' : plans'[i].knows \subseteq Cumulative
    BY DEF Cumulative
  <2> QED
    BY <2>1, <2>2, <2>3 DEF Cumulative
<1>3. CASE state \notin Intake
  BY <1>1, <1>3 DEF Understand
<1> QED
  BY <1>2, <1>3

\* A worker records no answers, and never brings the mission back to where they are taken.
LEMMA WorkersDoNotHear ==
  ASSUME NEW w \in Workers, WorkerStep(w)
  PROVE  UNCHANGED <<said, plans, job, hand, entry>> /\ (state' = state \/ state' \notin Intake)
  BY DEF WorkerStep, Open, ReadPart, Draft, CreateContract, ApproveContract, Contracted, Resolve,
         SetUp, SetUpFails, Provision, Execute, Moves, Throws, Undisturbed, talk, server, Intake

LEMMA SameAnswers == UNCHANGED <<said, plans>> => Cumulative' = Cumulative
  BY DEF Cumulative

LEMMA ServerHears ==
  ASSUME HInv, ServerStep
  PROVE  Attentive' /\ KnowsAll'
<1> USE DEF HInv, Attentive, KnowsAll
<1>0. job \in Jobs /\ hand \in Hands
  BY DEF IInv, TypeOK
<1>1. CASE Create
  <2>1. job.at = "none" /\ hand.at = "none" /\ Understand({}) /\ UNCHANGED <<state, plans, hand>>
    BY <1>1 DEF Create, Busy, IInv, ChargesAreCovered, Hands, TypeOK
  <2>2. Attentive'
    BY <2>1 DEF Understand
  <2> QED
    BY <2>1, <2>2, UnderstandKnowsAll
<1>2. CASE Dispatch
  BY <1>0, <1>2, SameAnswers DEF Dispatch, talk, Jobs
<1>3. CASE TypesKnown
  BY <1>0, <1>3, SameAnswers DEF TypesKnown, talk, Jobs
<1>4. CASE JobFails
  BY <1>0, <1>4, SameAnswers DEF JobFails, Fails, NoJob, talk, Jobs
<1>5. CASE PlanAnswered
  BY <1>0, <1>5 DEF PlanAnswered, Busy, Jobs
<1>6. CASE TypesAnswered
  BY <1>0, <1>6 DEF TypesAnswered, Busy, Jobs
<1>7. CASE Settle
  BY <1>0, <1>7, SameAnswers DEF Settle, Called, talk, Jobs, Intake
<1>8. CASE SettleRefused
  BY <1>0, <1>8, SameAnswers DEF SettleRefused, Fails, NoJob, talk, Jobs
<1>9. CASE ReadBack
  BY <1>0, <1>9, SameAnswers DEF ReadBack, Busy, NoJob, talk, Jobs
<1>10. CASE Choose
  BY <1>0, <1>10 DEF Choose, Hands
<1>11. CASE ChooseRefused
  BY <1>0, <1>11, SameAnswers DEF ChooseRefused, NoHand, talk, Hands
<1>12. CASE Chosen
  BY <1>0, <1>12, SameAnswers DEF Chosen, NoHand, talk, Hands, Intake
<1> QED
  BY <1>1, <1>2, <1>3, <1>4, <1>5, <1>6, <1>7, <1>8, <1>9, <1>10, <1>11, <1>12 DEF ServerStep

LEMMA CustomerIsHeard ==
  ASSUME HInv, Customer
  PROVE  Attentive' /\ KnowsAll'
<1> USE DEF HInv, Attentive, KnowsAll
<1>0. job \in Jobs /\ hand \in Hands
  BY DEF IInv, TypeOK
<1>1. ASSUME entry # "active", hand.at = "none", UNCHANGED <<state, plans, hand>>,
             Understand({}) \/ \E answer \in Answers : Understand({answer})
      PROVE  Attentive' /\ KnowsAll'
  <2>1. Attentive'
    BY <1>1 DEF Understand
  <2> QED
    BY <1>1, <2>1, UnderstandKnowsAll, SameAnswers
<1>2. ASSUME NEW answer \in Messages \union {Subtype}, Say(answer)
      PROVE  Attentive' /\ KnowsAll'
  BY <1>0, <1>1, <1>2 DEF Say, Clarifies, Attends, Busy, Answers, Hands
<1>3. ASSUME NEW choice \in Choices, Select(choice)
      PROVE  Attentive' /\ KnowsAll'
  <2>1. job.at = "none" /\ job' = job /\ Cumulative' = Cumulative
    BY <1>3, SameAnswers DEF Select, Clarifies, talk
  <2>2. hand'.knows = Cumulative \union {choice} /\ UNCHANGED <<state, entry>>
    BY <1>3 DEF Select
  <2> QED
    BY <2>1, <2>2
<1>4. CASE Approve
  BY <1>4, SameAnswers DEF Approve, talk, server
<1>5. CASE Retry
  BY <1>0, <1>1, <1>5 DEF Retry, Attends, Busy, Hands
<1>6. CASE Stop
  <2>1. job'.at = job.at /\ job'.knows = job.knows /\ state' \notin Intake
    BY <1>0, <1>6 DEF Stop, Jobs, Intake, Ended
  <2> QED
    BY <1>6, <2>1, SameAnswers DEF Stop, talk
<1>7. ASSUME NEW w \in Workers, Start(w)
      PROVE  Attentive' /\ KnowsAll'
  BY <1>7, SameAnswers DEF Start, talk, server
<1> QED
  BY <1>2, <1>3, <1>4, <1>5, <1>6, <1>7 DEF Customer

LEMMA HearingInvariance == Spec => []HInv
<1>1. Init => HInv
  BY InitIsGood DEF HInv, Attentive, KnowsAll, Init, NoJob, NoHand
<1>2. ASSUME HInv, [Next]_vars PROVE HInv'
  <2> USE DEF HInv
  <2>1. IInv'
    BY <1>2, ServerStepsAreGood, CustomerStepsAreGood, WorkerStepsAreGood, DeathsAreGood,
       StutteringIsGood DEF Next
  <2>2. CASE ServerStep \/ Customer
    BY <1>2, <2>1, <2>2, ServerHears, CustomerIsHeard
  <2>3. ASSUME NEW w \in Workers, WorkerStep(w) PROVE HInv'
    BY <1>2, <2>1, <2>3, WorkersDoNotHear, SameAnswers DEF Attentive, KnowsAll
  <2>4. ASSUME NEW w \in Workers, WorkerDies(w) PROVE HInv'
    BY <1>2, <2>1, <2>4, SameAnswers DEF WorkerDies, Attentive, KnowsAll, talk, server
  <2>5. CASE ServerDies
    <3>1. hand'.at = "none" /\ UNCHANGED <<state, plans>>
      BY <2>5 DEF ServerDies, NoHand
    <3>2. CASE Pending /\ charges = 0
      <4>1. Understand({}) /\ state \in Intake
        BY <2>5, <3>2 DEF ServerDies, Recover, Pending, Intake
      <4>2. entry' = "active" /\ job'.knows = Cumulative \union {}
        BY <4>1 DEF Understand
      <4> QED
        BY <2>1, <3>1, <4>1, <4>2, UnderstandKnowsAll, SameAnswers DEF Attentive, KnowsAll
    <3>3. CASE ~(Pending /\ charges = 0)
      BY <2>1, <2>5, <3>1, <3>3 DEF ServerDies, Recover, NoJob, Attentive, KnowsAll
    <3> QED
      BY <3>2, <3>3
  <2>6. CASE UNCHANGED vars
    BY <1>2, <2>1, <2>6, SameAnswers DEF vars, talk, server, Attentive, KnowsAll
  <2> QED
    BY <1>2, <2>2, <2>3, <2>4, <2>5, <2>6 DEF Next
<1> QED
  BY <1>1, <1>2, PTL DEF Spec

\* Every plan takes in everything said, chosen and recorded before it, for any number of
\* requests, failures and deaths: what cumulativeCustomerFollowUpAnswers found when a
\* request began is still everything there is when its plan is published.
THEOREM EveryAnswerIsHonoured == Spec => PlansHonourEveryAnswer
<1> DEFINE Known(a) == \/ \E s \in said : s.what = a
                       \/ \E i \in DOMAIN plans : a \in plans[i].knows
           Honours == plans' # plans =>
                        \A a \in Answers : Known(a) => a \in plans'[Len(plans')].knows
<1>1. HInv /\ [Next]_vars => [Honours]_vars
  <2> SUFFICES ASSUME HInv, Next, plans' # plans,
                      NEW a \in Answers, Known(a)
               PROVE  a \in plans'[Len(plans')].knows
    OBVIOUS
  <2>0. a \in Cumulative
    BY DEF Cumulative
  <2>1. PlanAnswered \/ Choose
    BY WorkersDoNotHear
       DEF Next, ServerStep, Customer, Create, Dispatch, TypesKnown, JobFails, TypesAnswered,
           Settle, SettleRefused, ReadBack, ChooseRefused, Chosen, Say, Select, Approve, Retry,
           Start, Stop, WorkerDies, ServerDies, talk
  <2>2. plans \in Seq(Plans) /\ job \in Jobs /\ hand \in Hands
    BY DEF HInv, IInv, TypeOK
  <2>3. ASSUME NEW plan, Publish(plan), a \in plan.knows PROVE a \in plans'[Len(plans')].knows
    BY <2>2, <2>3 DEF Publish
  <2>4. CASE PlanAnswered
    BY <2>0, <2>3, <2>4 DEF PlanAnswered, HInv, KnowsAll
  <2>5. CASE Choose
    BY <2>0, <2>3, <2>5 DEF Choose, HInv, KnowsAll
  <2> QED
    BY <2>1, <2>4, <2>5
<1>2. Spec => [][Honours]_vars
  BY HearingInvariance, <1>1, PTL DEF Spec
<1> QED
  BY <1>2 DEF PlansHonourEveryAnswer

===============================================================================
