-------------------------- MODULE MissionLedgerProofs --------------------------
(***************************************************************************)
(* Proofs, for any number of clients, checkpoints, contract versions,      *)
(* rounds and admissions, of the safety properties of MissionLedger and of *)
(* its refinement of Mission.                                              *)
(***************************************************************************)
EXTENDS MissionLedger, FiniteSetTheorems, TLAPS

-------------------------------------------------------------------------------
(* The inductive invariant, in named parts.                                *)

Verified == { "VERIFYING" } \union TerminalStates
Executed == { "EXECUTING", "VERIFYING", "REPAIRING" }
Entered  == { "VERIFYING", "REPAIRING" } \union TerminalStates

\* What a client decided to append was legal when it read the Ledger.
RequestsAreLegal ==
  \A c \in Clients :
    request[c].op = "transition" =>
      IsLegalTransition(request[c].from, request[c].to)

\* A COMPLETE verdict keeps its mission in the round it was recorded in: the
\* gate to REPAIRING stays shut.
CompleteStaysInRound ==
  verdict.result = "COMPLETE" => state \in Verified /\ verdict.round = round

\* A verdict is never ahead of the contract.
VerdictLagsContract == verdict.version <= contract

\* A verified or repaired mission has a first round.
RoundsHaveBegun == state \in { "VERIFYING", "REPAIRING" } => round > 0

\* While the mission executes, every round so far was closed by an admission;
\* an open admission is not one of those.
RoundsArePaid ==
  /\ RoundsAreAdmitted
  /\ state \notin Entered => round <= Cardinality(spent)
  /\ spent \subseteq 1 .. admission.id
  /\ admission.open => admission.id \notin spent

\* The chain is closed under parents, and its marks lie on it.
WorkspaceIsWhole ==
  /\ \A id \in workspace.chain :
       workspace.parent[id] \in workspace.chain \union {NoCheckpoint}
  /\ Exists(workspace) => workspace.current \in workspace.chain
  /\ workspace.verified \subseteq workspace.chain
  /\ workspace.floor = NoCheckpoint => workspace.verified = {}
  /\ workspace.floor # NoCheckpoint => workspace.floor \in workspace.verified

IInv ==
  /\ TypeOK
  /\ RequestsAreLegal
  /\ CompleteStaysInRound
  /\ VerdictLagsContract
  /\ RoundsHaveBegun
  /\ RoundsArePaid
  /\ WorkspaceIsWhole
  /\ CompletionIsEarned
  /\ ExecutionIsProvisioned
  /\ VerifiedLineage

-------------------------------------------------------------------------------
(* Types.                                                                  *)

\* A pending request carries the fields its operation appends.
LEMMA RequestShape ==
  ASSUME NEW r \in Requests \union {Idle}
  PROVE  /\ r.op = "transition" => r.from \in ActiveStates /\ r.to \in MissionStates
         /\ r.op = "amend" => r.version \in Versions
         /\ r.op = "verdict" => /\ r.version \in Versions
                                /\ r.result \in Results
                                /\ r.checkpoint \in Checkpoints
         /\ r.op \in { "provision", "restore", "verifyCheckpoint", "release" } =>
              r.id \in Checkpoints
         /\ r.op = "checkpoint" => r.id \in Checkpoints /\ r.parent \in Checkpoints
         /\ r.op = "admit" => r.pre \in Checkpoints
         /\ r.op = "finding" => r.type \in Findings
  BY DEF Requests, Idle

\* Deciding on a well-formed request keeps the types.
LEMMA DecideTypes ==
  ASSUME TypeOK, NEW c \in Clients, NEW r \in Requests, Decide(c, r)
  PROVE  TypeOK'
  <1>1. request' \in [Clients -> Requests \union {Idle}]
    BY DEF TypeOK, Decide
  <1> QED
    BY <1>1 DEF TypeOK, Decide, projections, history

\* An append leaves its client idle.
LEMMA AppendingTypes ==
  ASSUME TypeOK, NEW c \in Clients, NEW op, Appending(c, op)
  PROVE  request' \in [Clients -> Requests \union {Idle}]
  BY DEF TypeOK, Appending

\* Every fact maps a workspace to a workspace.
LEMMA ApplyTypes ==
  ASSUME NEW w \in Workspaces, NEW id \in Checkpoints, NEW parentId \in Checkpoints
  PROVE  /\ ApplyProvisioned(id) \in Workspaces
         /\ ApplyCheckpointCreated(w, id, parentId) \in Workspaces
         /\ ApplyRestored(w, id) \in Workspaces
         /\ ApplyVerified(w, id) \in Workspaces
         /\ ApplyReleased(w) \in Workspaces
  BY DEF Workspaces, NoWorkspace, ApplyProvisioned, ApplyCheckpointCreated,
         ApplyRestored, ApplyVerified, ApplyReleased

\* The empty Ledger is well typed.
LEMMA InitTypes == Init => TypeOK
  <1> SUFFICES ASSUME Init PROVE TypeOK
    OBVIOUS
  <1>1. workspace \in Workspaces
    BY DEF Init, Workspaces, NoWorkspace
  <1>2. request \in [Clients -> Requests \union {Idle}]
    BY DEF Init
  <1>3. contract \in 0 .. MaxVersion /\ round \in 0 .. MaxRounds
    BY BoundsAssumption DEF Init
  <1> QED
    BY <1>1, <1>2, <1>3 DEF Init, TypeOK

\* Whatever a client decides on is a well-formed request.
LEMMA ReadTypes ==
  ASSUME IInv, NEW c \in Clients, Read(c)
  PROVE  /\ TypeOK'
         /\ \E r \in Requests :
              Decide(c, r) /\ (r.op = "transition" => IsLegalTransition(r.from, r.to))
  <1> DEFINE Legal(r) == r.op = "transition" => IsLegalTransition(r.from, r.to)
  <1>1. SUFFICES \E r \in Requests : Decide(c, r) /\ Legal(r)
    BY DecideTypes DEF IInv
  <1>2. TypeOK /\ WorkspaceIsWhole /\ ExecutionIsProvisioned
    BY DEF IInv
  <1>3. workspace.chain \subseteq Checkpoints
    BY <1>2 DEF TypeOK, Workspaces
  <1>4. Exists(workspace) => workspace.current \in Checkpoints
    BY <1>2, <1>3 DEF WorkspaceIsWhole
  <1>5. contract # 0 => contract \in Versions
    BY <1>2, BoundsAssumption DEF TypeOK, Versions
  <1>6. CASE RequestCreate(c)
    <2>1. [ op |-> "create" ] \in Requests /\ Legal([ op |-> "create" ])
      BY DEF Requests
    <2> QED
      BY <1>6, <2>1 DEF RequestCreate
  <1>7. ASSUME NEW to \in MissionStates, RequestTransition(c, to)
        PROVE  \E r \in Requests : Decide(c, r) /\ Legal(r)
    <2> DEFINE r == [ op |-> "transition", from |-> state, to |-> to ]
    <2>1. r \in Requests /\ Legal(r)
      BY <1>7 DEF RequestTransition, Requests
    <2>2. Decide(c, r)
      BY <1>7 DEF RequestTransition
    <2> QED
      BY <2>1, <2>2
  <1>8. CASE RequestContract(c)
    <2>1. [ op |-> "createContract" ] \in Requests /\ Legal([ op |-> "createContract" ])
      BY DEF Requests
    <2> QED
      BY <1>8, <2>1 DEF RequestContract
  <1>9. CASE RequestAmendment(c)
    <2> DEFINE r == [ op |-> "amend", version |-> contract ]
    <2>1. r \in Requests /\ Legal(r)
      BY <1>5, <1>9 DEF RequestAmendment, Requests
    <2>2. Decide(c, r)
      BY <1>9 DEF RequestAmendment
    <2> QED
      BY <2>1, <2>2
  <1>10. ASSUME NEW result \in Results, NEW id \in Checkpoints,
                RequestVerdict(c, result, id)
         PROVE  \E r \in Requests : Decide(c, r) /\ Legal(r)
    <2> DEFINE r == [ op |-> "verdict", version |-> contract,
                      result |-> result, checkpoint |-> id ]
    <2>1. r \in Requests /\ Legal(r)
      BY <1>5, <1>10 DEF RequestVerdict, Requests
    <2>2. Decide(c, r)
      BY <1>10 DEF RequestVerdict
    <2> QED
      BY <2>1, <2>2
  <1>11. ASSUME NEW op \in { "provision", "restore", "verifyCheckpoint", "release" },
                NEW id \in Checkpoints
         PROVE  /\ [ op |-> op, id |-> id ] \in Requests
                /\ Legal([ op |-> op, id |-> id ])
    BY DEF Requests
  <1>12. ASSUME NEW id \in Checkpoints, RequestCheckpoint(c, id)
         PROVE  \E r \in Requests : Decide(c, r) /\ Legal(r)
    <2> DEFINE r == [ op |-> "checkpoint", id |-> id, parent |-> workspace.current ]
    <2>1. r \in Requests /\ Legal(r)
      BY <1>4, <1>12 DEF RequestCheckpoint, Requests
    <2>2. Decide(c, r)
      BY <1>12 DEF RequestCheckpoint
    <2> QED
      BY <2>1, <2>2
  <1>13. ASSUME NEW id \in Checkpoints,
                RequestProvision(c, id) \/ RequestRestore(c, id)
                  \/ RequestCheckpointVerification(c, id)
         PROVE  \E r \in Requests : Decide(c, r) /\ Legal(r)
    BY <1>11, <1>13
       DEF RequestProvision, RequestRestore, RequestCheckpointVerification
  <1>14. CASE RequestRelease(c)
    BY <1>4, <1>11, <1>14 DEF RequestRelease
  <1>15. CASE RequestAdmission(c)
    <2> DEFINE r == [ op |-> "admit", pre |-> workspace.current ]
    <2>1. Exists(workspace)
      BY <1>2, <1>15 DEF RequestAdmission, ExecutionIsProvisioned
    <2>2. r \in Requests /\ Legal(r)
      BY <1>4, <2>1 DEF Requests
    <2>3. Decide(c, r)
      BY <1>15 DEF RequestAdmission
    <2> QED
      BY <2>2, <2>3
  <1>16. ASSUME NEW type \in Findings, RequestFinding(c, type)
         PROVE  \E r \in Requests : Decide(c, r) /\ Legal(r)
    <2> DEFINE r == [ op |-> "finding", type |-> type ]
    <2>1. r \in Requests /\ Legal(r)
      BY DEF Requests
    <2>2. Decide(c, r)
      BY <1>16 DEF RequestFinding
    <2> QED
      BY <2>1, <2>2
  <1>17. CASE RequestDeletion(c)
    <2>1. [ op |-> "delete" ] \in Requests /\ Legal([ op |-> "delete" ])
      BY DEF Requests
    <2> QED
      BY <1>17, <2>1 DEF RequestDeletion
  <1> HIDE DEF Legal
  <1> QED
    BY <1>6, <1>7, <1>8, <1>9, <1>10, <1>12, <1>13, <1>14, <1>15, <1>16, <1>17
       DEF Read

-------------------------------------------------------------------------------
(* The invariant is inductive: one lemma per action.                       *)

\* The empty Ledger satisfies the invariant.
LEMMA InitInvariant == Init => IInv
  <1> SUFFICES ASSUME Init PROVE IInv
    OBVIOUS
  <1>1. TypeOK
    BY InitTypes
  <1>2. RoundsArePaid
    BY FS_EmptySet DEF Init, RoundsArePaid, RoundsAreAdmitted, NoAdmission
  <1>3. WorkspaceIsWhole /\ ExecutionIsProvisioned /\ VerifiedLineage
    BY DEF Init, WorkspaceIsWhole, ExecutionIsProvisioned, VerifiedLineage,
           NoWorkspace, Exists
  <1>4. RequestsAreLegal
    BY DEF Init, RequestsAreLegal, Idle
  <1> QED
    BY <1>1, <1>2, <1>3, <1>4
       DEF Init, IInv, CompleteStaysInRound, VerdictLagsContract, RoundsHaveBegun,
           CompletionIsEarned, NoVerdict

\* The parts that look at the workspace only, and those that do not look at it.
WorkspaceParts == WorkspaceIsWhole /\ VerifiedLineage
LedgerParts ==
  /\ CompleteStaysInRound
  /\ VerdictLagsContract
  /\ RoundsHaveBegun
  /\ RoundsArePaid
  /\ CompletionIsEarned

\* A step that appends no workspace fact keeps what is known of the workspace.
LEMMA WorkspacePartsStutter == WorkspaceParts /\ UNCHANGED workspace => WorkspaceParts'
  BY DEF WorkspaceParts, WorkspaceIsWhole, VerifiedLineage, Exists, AtOrAfter

\* A step that touches no transition, contract, verdict or admission keeps what is
\* known of them.
LEMMA LedgerPartsStutter ==
  LedgerParts /\ UNCHANGED <<state, contract, verdict, admission, history>>
    => LedgerParts'
  BY DEF LedgerParts, CompleteStaysInRound, VerdictLagsContract, RoundsHaveBegun,
         RoundsArePaid, RoundsAreAdmitted, CompletionIsEarned, history

\* Nor can a mission lose its workspace in a step that touches neither.
LEMMA ProvisionedStutter ==
  ExecutionIsProvisioned /\ UNCHANGED <<state, workspace>> => ExecutionIsProvisioned'
  BY DEF ExecutionIsProvisioned, Exists

\* What IInv is made of, grouped by what a step can disturb.
Parts == TypeOK /\ RequestsAreLegal /\ LedgerParts /\ WorkspaceParts
           /\ ExecutionIsProvisioned

\* The invariant is its parts, before a step and after it.
LEMMA InvariantParts == (IInv <=> Parts) /\ (IInv' <=> Parts')
  BY DEF IInv, Parts, LedgerParts, WorkspaceParts

\* An append leaves the other clients' requests as they were.
LEMMA AppendingLegal ==
  ASSUME IInv, NEW c \in Clients, NEW op, Appending(c, op)
  PROVE  RequestsAreLegal'
  BY DEF IInv, TypeOK, Appending, RequestsAreLegal, Idle

\* A client that only reads and decides appends nothing; what it decided was legal.
LEMMA ReadStep ==
  ASSUME IInv, NEW c \in Clients, Read(c)
  PROVE  IInv'
  <1>1. PICK r \in Requests :
          Decide(c, r) /\ (r.op = "transition" => IsLegalTransition(r.from, r.to))
    BY ReadTypes
  <1>2. TypeOK'
    BY ReadTypes
  <1>3. RequestsAreLegal'
    BY <1>1 DEF IInv, TypeOK, Decide, RequestsAreLegal
  <1>4. UNCHANGED <<projections, history>>
    BY <1>1 DEF Decide
  <1> QED
    BY <1>2, <1>3, <1>4, InvariantParts, WorkspacePartsStutter, LedgerPartsStutter,
       ProvisionedStutter DEF Parts, projections

\* A request that is refused or lost leaves the Ledger as it was.
LEMMA DropStep ==
  ASSUME IInv, NEW c \in Clients, Drop(c)
  PROVE  IInv'
  <1>1. UNCHANGED <<projections, history>>
    BY DEF Drop
  <1>2. TypeOK' /\ RequestsAreLegal'
    BY <1>1 DEF IInv, TypeOK, Drop, RequestsAreLegal, Idle, projections, history
  <1> QED
    BY <1>1, <1>2, InvariantParts, WorkspacePartsStutter, LedgerPartsStutter,
       ProvisionedStutter DEF Parts, projections

\* appendMissionCreation keeps the invariant.
LEMMA CreationStep ==
  ASSUME IInv, NEW c \in Clients, AppendMissionCreation(c)
  PROVE  IInv'
  <1>1. TypeOK'
    BY AppendingTypes DEF IInv, TypeOK, AppendMissionCreation, history,
       MissionStates, ActiveStates
  <1>2. RequestsAreLegal'
    BY AppendingLegal DEF AppendMissionCreation
  <1>3. WorkspaceParts'
    BY InvariantParts, WorkspacePartsStutter DEF Parts, AppendMissionCreation
  <1>4. LedgerParts'
    BY DEF IInv, AppendMissionCreation, LedgerParts, CompleteStaysInRound,
       VerdictLagsContract, RoundsHaveBegun, RoundsArePaid, RoundsAreAdmitted,
       CompletionIsEarned, history, Verified, Entered, TerminalStates
  <1>5. ExecutionIsProvisioned'
    BY DEF IInv, AppendMissionCreation, ExecutionIsProvisioned, Exists, IsTerminal,
       TerminalStates
  <1> QED
    BY <1>1, <1>2, <1>3, <1>4, <1>5, InvariantParts DEF Parts

\* The rounds of verification stay paid for, whichever gate a transition takes.
LEMMA TransitionPays ==
  ASSUME IInv, NEW c \in Clients, AppendTransition(c),
         IsLegalTransition(request[c].from, request[c].to)
  PROVE  RoundsArePaid'
  <1> DEFINE from == request[c].from
             to   == request[c].to
  <1>1. /\ state = from /\ state' = to
        /\ GatesOpen(from, to)
        /\ IsLegalTransition(from, to)
        /\ round' = IF to = "VERIFYING" THEN round + 1 ELSE round
        /\ RoundsArePaid
    BY DEF AppendTransition, IInv
  <1>0. round \in Nat
    BY BoundsAssumption DEF IInv, TypeOK
  <1>2. spent \in SUBSET (1 .. MaxAdmissions) /\ IsFiniteSet(spent)
    <2>1. spent \in SUBSET (1 .. MaxAdmissions)
      BY DEF IInv, TypeOK
    <2>2. IsFiniteSet(1 .. MaxAdmissions)
      BY FS_Interval, BoundsAssumption
    <2> QED
      BY <2>1, <2>2, FS_Subset
  <1>3. Cardinality(spent) \in Nat
    BY <1>2, FS_CardinalityType
  <1>4. CASE from = "REPAIRING" /\ to = "EXECUTING"
    <2>1. /\ admission' = [ admission EXCEPT !.open = FALSE ]
          /\ spent' = spent \union {admission.id}
      BY <1>4 DEF AppendTransition
    <2>2. admission \in Admissions /\ admission.open
      BY <1>1, <1>4 DEF GatesOpen, UnconsumedAdmission, IInv, TypeOK, NoAdmission
    <2>3. admission.id \notin spent
      BY <1>1, <2>2 DEF RoundsArePaid
    <2>4. Cardinality(spent') = Cardinality(spent) + 1
      BY <1>2, <2>1, <2>3, FS_AddElement
    <2>5. round' = round /\ round <= Cardinality(spent) + 1
      BY <1>1, <1>4 DEF RoundsArePaid, RoundsAreAdmitted
    <2>6. admission'.id = admission.id /\ admission'.open = FALSE
      BY <2>1, <2>2 DEF Admissions
    <2>7. spent' \subseteq 1 .. admission'.id
      BY <1>1, <2>1, <2>2, <2>6, BoundsAssumption DEF RoundsArePaid, Admissions
    <2> QED
      BY <1>0, <1>3, <2>4, <2>5, <2>6, <2>7, <1>1 DEF RoundsArePaid, RoundsAreAdmitted
  <1>5. CASE ~(from = "REPAIRING" /\ to = "EXECUTING")
    <2>1. UNCHANGED <<admission, spent>>
      BY <1>5 DEF AppendTransition
    <2>2. CASE to = "VERIFYING"
      <3>1. state = "EXECUTING"
        BY <1>1, <2>2 DEF IsLegalTransition, LegalTransitions, ForcedTerminalTargets
      <3>2. round <= Cardinality(spent)
        BY <1>1, <3>1 DEF RoundsArePaid, Entered, TerminalStates
      <3> QED
        BY <1>0, <1>1, <1>3, <2>1, <2>2, <3>2
           DEF RoundsArePaid, RoundsAreAdmitted, Entered
    <2>3. CASE to # "VERIFYING"
      <3>1. to \notin Entered => from \notin Entered
        BY <1>1, <1>5, <2>3
           DEF IsLegalTransition, LegalTransitions, ForcedTerminalTargets,
               ActiveStates, Entered, TerminalStates
      <3> QED
        BY <1>1, <2>1, <2>3, <3>1 DEF RoundsArePaid, RoundsAreAdmitted
    <2> QED
      BY <2>2, <2>3
  <1> QED
    BY <1>4, <1>5

\* appendTransition keeps the invariant: the gates are checked again under the lock.
LEMMA TransitionStep ==
  ASSUME IInv, NEW c \in Clients, AppendTransition(c)
  PROVE  IInv'
  <1> DEFINE from == request[c].from
             to   == request[c].to
  <1>1. /\ from \in ActiveStates /\ to \in MissionStates
        /\ IsLegalTransition(from, to)
    <2>1. request[c] \in Requests \union {Idle} /\ request[c].op = "transition"
      BY DEF IInv, TypeOK, AppendTransition, Appending
    <2> QED
      BY <2>1, RequestShape DEF IInv, RequestsAreLegal
  <1>2. /\ state = from /\ state' = to
        /\ GatesOpen(from, to)
        /\ round' = IF to = "VERIFYING" THEN round + 1 ELSE round
        /\ to = "VERIFYING" => round < MaxRounds
        /\ UNCHANGED <<contract, verdict, workspace, finding, deleted, replayable>>
    BY DEF AppendTransition
  <1>3. TypeOK'
    <2>1. admission' \in Admissions \union {NoAdmission}
          /\ spent' \in SUBSET (1 .. MaxAdmissions)
      <3>1. CASE from = "REPAIRING" /\ to = "EXECUTING"
        <4>1. /\ admission' = [ admission EXCEPT !.open = FALSE ]
              /\ spent' = spent \union {admission.id}
          BY <3>1 DEF AppendTransition
        <4>2. admission \in Admissions
          BY <1>2, <3>1 DEF GatesOpen, UnconsumedAdmission, IInv, TypeOK, NoAdmission
        <4> QED
          BY <4>1, <4>2 DEF Admissions, IInv, TypeOK
      <3>2. CASE ~(from = "REPAIRING" /\ to = "EXECUTING")
        BY <3>2 DEF AppendTransition, IInv, TypeOK
      <3> QED
        BY <3>1, <3>2
    <2>2. round' \in 0 .. MaxRounds
      BY <1>2, BoundsAssumption DEF IInv, TypeOK
    <2>3. request' \in [Clients -> Requests \union {Idle}]
      BY AppendingTypes DEF IInv, AppendTransition
    <2> QED
      BY <1>1, <1>2, <2>1, <2>2, <2>3 DEF IInv, TypeOK
  <1>4. RequestsAreLegal'
    BY AppendingLegal DEF AppendTransition
  <1>5. WorkspaceParts'
    BY <1>2, InvariantParts, WorkspacePartsStutter DEF Parts
  <1>6. CompleteStaysInRound' /\ CompletionIsEarned'
    BY <1>1, <1>2
       DEF IInv, CompleteStaysInRound, CompletionIsEarned, Verified, GatesOpen,
           CurrentVerdict, IsLegalTransition, LegalTransitions,
           ForcedTerminalTargets, ActiveStates, TerminalStates
  <1>7. VerdictLagsContract'
    BY <1>2 DEF IInv, VerdictLagsContract
  <1>8. RoundsHaveBegun'
    BY <1>1, <1>2
       DEF IInv, TypeOK, RoundsHaveBegun, IsLegalTransition, LegalTransitions,
           ForcedTerminalTargets
  <1>9. RoundsArePaid'
    BY <1>1, TransitionPays
  <1>10. ExecutionIsProvisioned'
    BY <1>1, <1>2
       DEF IInv, ExecutionIsProvisioned, Exists, GatesOpen, IsTerminal,
           IsLegalTransition, LegalTransitions, ForcedTerminalTargets,
           ActiveStates, TerminalStates
  <1> QED
    BY <1>3, <1>4, <1>5, <1>6, <1>7, <1>8, <1>9, <1>10, InvariantParts
       DEF Parts, LedgerParts

\* The creation of a contract keeps the invariant.
LEMMA ContractCreationStep ==
  ASSUME IInv, NEW c \in Clients, AppendContractCreation(c)
  PROVE  IInv'
  <1>1. TypeOK'
    BY AppendingTypes, BoundsAssumption
       DEF IInv, TypeOK, AppendContractCreation, history
  <1>2. RequestsAreLegal'
    BY AppendingLegal DEF AppendContractCreation
  <1>3. WorkspaceParts' /\ ExecutionIsProvisioned'
    BY InvariantParts, WorkspacePartsStutter, ProvisionedStutter
       DEF Parts, AppendContractCreation
  <1>4. verdict.version \in Nat
    BY BoundsAssumption DEF IInv, TypeOK, Verdicts, NoVerdict, Versions
  <1>5. LedgerParts'
    BY <1>4 DEF IInv, TypeOK, AppendContractCreation, LedgerParts, CompleteStaysInRound,
       VerdictLagsContract, RoundsHaveBegun, RoundsArePaid, RoundsAreAdmitted,
       CompletionIsEarned, history
  <1> QED
    BY <1>1, <1>2, <1>3, <1>5, InvariantParts DEF Parts

\* An amendment keeps the invariant: no verdict is of the version it creates.
LEMMA AmendmentStep ==
  ASSUME IInv, NEW c \in Clients, AppendContractAmendment(c)
  PROVE  IInv'
  <1>1. TypeOK'
    BY AppendingTypes, BoundsAssumption
       DEF IInv, TypeOK, AppendContractAmendment, history
  <1>2. RequestsAreLegal'
    BY AppendingLegal DEF AppendContractAmendment
  <1>3. WorkspaceParts' /\ ExecutionIsProvisioned'
    BY InvariantParts, WorkspacePartsStutter, ProvisionedStutter
       DEF Parts, AppendContractAmendment
  <1>4. contract \in Nat /\ verdict.version \in Nat
    BY BoundsAssumption DEF IInv, TypeOK, Verdicts, NoVerdict, Versions
  <1>5. state # "SUCCEEDED"
    BY DEF AppendContractAmendment, ActiveStates
  <1>6. LedgerParts'
    BY <1>4, <1>5
       DEF IInv, AppendContractAmendment, LedgerParts, CompleteStaysInRound,
           VerdictLagsContract, RoundsHaveBegun, RoundsArePaid, RoundsAreAdmitted,
           CompletionIsEarned, history
  <1> QED
    BY <1>1, <1>2, <1>3, <1>6, InvariantParts DEF Parts

\* A verdict keeps the invariant: it is of the present round and version.
LEMMA VerdictStep ==
  ASSUME IInv, NEW c \in Clients, AppendCompletionVerdict(c)
  PROVE  IInv'
  <1>1. verdict' = [ result |-> request[c].result, version |-> contract,
                     checkpoint |-> workspace.current, round |-> round ]
        /\ UNCHANGED <<state, contract, workspace, admission, finding, deleted,
                       replayable, history>>
        /\ state = "VERIFYING"
    BY DEF AppendCompletionVerdict
  <1>2. /\ request[c].result \in Results
        /\ contract \in Versions
        /\ workspace.current \in Checkpoints
    <2>1. request[c] \in Requests \union {Idle} /\ request[c].op = "verdict"
      BY DEF IInv, TypeOK, AppendCompletionVerdict, Appending
    <2> QED
      BY <2>1, RequestShape DEF AppendCompletionVerdict
  <1>3. round \in 1 .. MaxRounds
    BY <1>1, BoundsAssumption DEF IInv, TypeOK, RoundsHaveBegun
  <1>4. TypeOK'
    <2>1. verdict' \in Verdicts
      BY <1>1, <1>2, <1>3 DEF Verdicts
    <2> QED
      BY <1>1, <2>1, AppendingTypes DEF IInv, TypeOK, AppendCompletionVerdict, history
  <1>5. RequestsAreLegal'
    BY AppendingLegal DEF AppendCompletionVerdict
  <1>6. WorkspaceParts' /\ ExecutionIsProvisioned'
    BY <1>1, InvariantParts, WorkspacePartsStutter, ProvisionedStutter DEF Parts
  <1>7. contract <= contract
    BY <1>2, BoundsAssumption DEF Versions
  <1>8. LedgerParts'
    BY <1>1, <1>7
       DEF IInv, LedgerParts, CompleteStaysInRound, VerdictLagsContract,
           RoundsHaveBegun, RoundsArePaid, RoundsAreAdmitted, CompletionIsEarned,
           Verified, history
  <1> QED
    BY <1>4, <1>5, <1>6, <1>8, InvariantParts DEF Parts

\* A new admission has a number no spent one has.
LEMMA RepairFactStep ==
  ASSUME IInv, NEW c \in Clients, AppendRepairFact(c)
  PROVE  IInv'
  <1>1. UNCHANGED <<state, contract, verdict, workspace, deleted, replayable, history>>
    BY DEF AppendRepairFact
  <1>2. request[c] \in Requests \union {Idle}
    BY DEF IInv, TypeOK
  <1>3. WorkspaceParts' /\ ExecutionIsProvisioned'
    BY <1>1, InvariantParts, WorkspacePartsStutter, ProvisionedStutter DEF Parts
  <1>4. RequestsAreLegal' /\ request' \in [Clients -> Requests \union {Idle}]
    BY AppendingLegal, AppendingTypes DEF AppendRepairFact, IInv
  <1>5. admission.id \in 0 .. MaxAdmissions
    BY BoundsAssumption DEF IInv, TypeOK, Admissions, NoAdmission
  <1>6. CASE Appending(c, "admit") /\ UNCHANGED finding
             /\ admission.id < MaxAdmissions
             /\ admission' = [ pre |-> request[c].pre, open |-> TRUE,
                               id |-> admission.id + 1 ]
    <2>1. request[c].pre \in Checkpoints
      BY <1>2, <1>6, RequestShape DEF Appending
    <2>2. admission' \in Admissions
      BY <1>5, <1>6, <2>1, BoundsAssumption DEF Admissions
    <2>3. TypeOK'
      BY <1>1, <1>4, <1>6, <2>2 DEF IInv, TypeOK, history
    <2>4. spent \subseteq 1 .. admission.id
      BY DEF IInv, RoundsArePaid
    <2>5. spent' \subseteq 1 .. admission'.id /\ admission'.id \notin spent'
      BY <1>1, <1>5, <1>6, <2>4 DEF history
    <2>6. RoundsArePaid'
      BY <1>1, <2>5 DEF IInv, RoundsArePaid, RoundsAreAdmitted, history
    <2>7. LedgerParts'
      BY <1>1, <2>6
         DEF IInv, LedgerParts, CompleteStaysInRound, VerdictLagsContract,
             RoundsHaveBegun, CompletionIsEarned, history
    <2> QED
      BY <1>3, <1>4, <2>3, <2>7, InvariantParts DEF Parts
  <1>7. CASE Appending(c, "finding") /\ finding' = request[c].type
             /\ UNCHANGED admission
    <2>1. request[c].type \in Findings
      BY <1>2, <1>7, RequestShape DEF Appending
    <2>2. TypeOK'
      BY <1>1, <1>4, <1>7, <2>1 DEF IInv, TypeOK, history
    <2>3. LedgerParts'
      BY <1>1, <1>7, InvariantParts, LedgerPartsStutter DEF Parts
    <2> QED
      BY <1>3, <1>4, <2>2, <2>3, InvariantParts DEF Parts
  <1> QED
    BY <1>6, <1>7 DEF AppendRepairFact

\* The fact of a deletion changes nothing the invariant is about.
LEMMA DeletionStep ==
  ASSUME IInv, NEW c \in Clients, AppendCatalogueDeletionFact(c)
  PROVE  IInv'
  <1>1. TypeOK'
    BY AppendingTypes DEF IInv, TypeOK, AppendCatalogueDeletionFact, history
  <1>2. RequestsAreLegal'
    BY AppendingLegal DEF AppendCatalogueDeletionFact
  <1>3. WorkspaceParts' /\ ExecutionIsProvisioned' /\ LedgerParts'
    BY InvariantParts, WorkspacePartsStutter, ProvisionedStutter, LedgerPartsStutter
       DEF Parts, AppendCatalogueDeletionFact
  <1> QED
    BY <1>1, <1>2, <1>3, InvariantParts DEF Parts

\* What one more workspace fact must keep.
FactKeeps ==
  /\ workspace' \in Workspaces
  /\ Exists(workspace')
  /\ WorkspaceParts'
  /\ workspace'.released => workspace.released \/ IsTerminal(state)

\* A verified checkpoint is an ancestor of the floor; a checkpoint the mission
\* adds is a new leaf, so it takes no ancestor away.
LEMMA CheckpointKeeps ==
  ASSUME IInv, NEW id \in Checkpoints, NEW parentId \in Checkpoints,
         MayCreateCheckpoint(workspace, state, id, parentId),
         workspace' = ApplyCheckpointCreated(workspace, id, parentId)
  PROVE  FactKeeps
  <1>1. workspace \in Workspaces /\ WorkspaceIsWhole /\ VerifiedLineage
    BY DEF IInv, TypeOK
  <1>2. workspace' \in Workspaces
    BY <1>1, ApplyTypes
  <1>3. /\ workspace'.chain = workspace.chain \union {id}
        /\ workspace'.parent = [ workspace.parent EXCEPT ![id] = parentId ]
        /\ workspace'.current = id
        /\ workspace'.verified = workspace.verified
        /\ workspace'.floor = workspace.floor
        /\ workspace'.released = workspace.released
    BY <1>1 DEF ApplyCheckpointCreated, Workspaces
  <1>4. id \notin workspace.chain /\ parentId \in workspace.chain
    BY <1>1 DEF MayCreateCheckpoint, WorkspaceIsWhole
  <1>5. WorkspaceIsWhole'
    BY <1>1, <1>3, <1>4 DEF WorkspaceIsWhole, Workspaces, Exists
  <1>6. ASSUME NEW v \in workspace.verified, NEW S \in SUBSET workspace'.chain,
               workspace'.floor \in S,
               \A c \in S : workspace'.parent[c] # NoCheckpoint =>
                              workspace'.parent[c] \in S
        PROVE  v \in S
    <2>1. S \ {id} \in SUBSET workspace.chain
      BY <1>3, <1>6
    <2>2. workspace.floor \in workspace.chain
      BY <1>1 DEF WorkspaceIsWhole
    <2>3. workspace.floor \in S \ {id}
      BY <1>3, <1>4, <1>6, <2>2
    <2>4. ASSUME NEW c \in S \ {id}, workspace.parent[c] # NoCheckpoint
          PROVE  workspace.parent[c] \in S \ {id}
      <3>1. c \in workspace.chain
        BY <2>1
      <3>2. workspace'.parent[c] = workspace.parent[c]
        BY <1>1, <1>3, <3>1 DEF Workspaces
      <3>3. workspace.parent[c] \in workspace.chain
        BY <1>1, <2>4, <3>1 DEF WorkspaceIsWhole
      <3> QED
        BY <1>4, <1>6, <2>4, <3>2, <3>3
    <2>5. AtOrAfter(workspace, workspace.floor, v)
      BY <1>1 DEF VerifiedLineage
    <2> QED
      BY <2>1, <2>3, <2>4, <2>5 DEF AtOrAfter
  <1>7. VerifiedLineage'
    BY <1>3, <1>6 DEF VerifiedLineage, AtOrAfter
  <1> QED
    BY <1>2, <1>3, <1>5, <1>7 DEF FactKeeps, WorkspaceParts, Exists

\* A checkpoint is verified on the line of the floor, and becomes the floor.
LEMMA VerificationKeeps ==
  ASSUME IInv, NEW id \in Checkpoints,
         MayVerifyCheckpoint(workspace, state, id),
         workspace' = ApplyVerified(workspace, id)
  PROVE  FactKeeps
  <1>1. workspace \in Workspaces /\ WorkspaceIsWhole /\ VerifiedLineage
    BY DEF IInv, TypeOK
  <1>2. workspace' \in Workspaces
    BY <1>1, ApplyTypes
  <1>3. /\ workspace'.chain = workspace.chain
        /\ workspace'.parent = workspace.parent
        /\ workspace'.current = workspace.current
        /\ workspace'.verified = workspace.verified \union {id}
        /\ workspace'.floor = id
        /\ workspace'.released = workspace.released
    BY <1>1 DEF ApplyVerified, Workspaces
  <1>4. id \in workspace.chain /\ RespectsFloor(workspace, id)
    BY DEF MayVerifyCheckpoint
  <1>5. WorkspaceIsWhole'
    BY <1>1, <1>3, <1>4, NoCheckpointAssumption DEF WorkspaceIsWhole, Exists
  <1>6. ASSUME NEW v \in workspace'.verified
        PROVE  AtOrAfter(workspace, id, v)
    <2>1. CASE v = id
      BY <2>1 DEF AtOrAfter
    <2>2. CASE v \in workspace.verified
      <3>1. workspace.floor # NoCheckpoint
        BY <1>1, <2>2 DEF WorkspaceIsWhole
      <3>2. AtOrAfter(workspace, id, workspace.floor)
        BY <1>4, <3>1 DEF RespectsFloor
      <3>3. AtOrAfter(workspace, workspace.floor, v)
        BY <1>1, <2>2 DEF VerifiedLineage
      <3> QED
        BY <3>2, <3>3 DEF AtOrAfter
    <2> QED
      BY <1>3, <2>1, <2>2
  <1>7. VerifiedLineage'
    BY <1>3, <1>6 DEF VerifiedLineage, AtOrAfter
  <1> QED
    BY <1>2, <1>3, <1>4, <1>5, <1>7 DEF FactKeeps, WorkspaceParts, Exists

\* Each of the five workspace facts keeps the invariant.
LEMMA WorkspaceFactStep ==
  ASSUME IInv, NEW c \in Clients, AppendWorkspaceFact(c)
  PROVE  IInv'
  <1>1. UNCHANGED <<state, contract, verdict, admission, finding, deleted,
                    replayable, history>>
    BY DEF AppendWorkspaceFact
  <1>2. RequestsAreLegal' /\ request' \in [Clients -> Requests \union {Idle}]
    BY AppendingLegal, AppendingTypes DEF AppendWorkspaceFact, IInv
  <1>3. /\ request[c].op \in { "provision", "restore", "verifyCheckpoint", "release",
                               "checkpoint" } => request[c].id \in Checkpoints
        /\ request[c].op = "checkpoint" => request[c].parent \in Checkpoints
    <2>1. request[c] \in Requests \union {Idle}
      BY DEF IInv, TypeOK
    <2> QED
      BY <2>1, RequestShape
  <1>4. workspace \in Workspaces /\ WorkspaceParts
    BY InvariantParts DEF Parts, TypeOK
  <1>5. FactKeeps
    <2>1. CASE /\ Appending(c, "provision")
               /\ MayProvision(workspace, state)
               /\ workspace' = ApplyProvisioned(request[c].id)
      <3>1. request[c].id \in Checkpoints
        BY <1>3, <2>1 DEF Appending
      <3>2. workspace' \in Workspaces
        BY <1>4, <2>1, <3>1, ApplyTypes
      <3>3. /\ workspace'.chain = {request[c].id}
            /\ workspace'.parent = [ id \in Checkpoints |-> NoCheckpoint ]
            /\ workspace'.current = request[c].id
            /\ workspace'.verified = {}
            /\ workspace'.floor = NoCheckpoint
            /\ workspace'.released = FALSE
        BY <2>1 DEF ApplyProvisioned, NoWorkspace
      <3> QED
        BY <3>1, <3>2, <3>3
           DEF FactKeeps, WorkspaceParts, WorkspaceIsWhole, VerifiedLineage, Exists
    <2>2. CASE /\ Appending(c, "checkpoint")
               /\ MayCreateCheckpoint(workspace, state, request[c].id,
                                      request[c].parent)
               /\ workspace' = ApplyCheckpointCreated(workspace, request[c].id,
                                                      request[c].parent)
      BY <1>3, <2>2, CheckpointKeeps DEF Appending
    <2>3. CASE /\ Appending(c, "restore")
               /\ MayRestore(workspace, state, request[c].id)
               /\ workspace' = ApplyRestored(workspace, request[c].id)
      <3>1. request[c].id \in Checkpoints
        BY <1>3, <2>3 DEF Appending
      <3>2. workspace' \in Workspaces
        BY <1>4, <2>3, <3>1, ApplyTypes
      <3>3. workspace' = [ workspace EXCEPT !.current = request[c].id ]
        BY <2>3 DEF ApplyRestored
      <3>4. request[c].id \in workspace.chain
        BY <2>3 DEF MayRestore
      <3> QED
        BY <1>4, <3>2, <3>3, <3>4
           DEF FactKeeps, WorkspaceParts, WorkspaceIsWhole, VerifiedLineage, Exists,
               AtOrAfter, Workspaces
    <2>4. CASE /\ Appending(c, "verifyCheckpoint")
               /\ MayVerifyCheckpoint(workspace, state, request[c].id)
               /\ workspace' = ApplyVerified(workspace, request[c].id)
      BY <1>3, <2>4, VerificationKeeps DEF Appending
    <2>5. CASE /\ Appending(c, "release")
               /\ MayRelease(workspace, state, request[c].id)
               /\ workspace' = ApplyReleased(workspace)
      <3>1. workspace' = [ workspace EXCEPT !.released = TRUE ]
        BY <2>5 DEF ApplyReleased
      <3>2. Exists(workspace) /\ IsTerminal(state)
        BY <2>5 DEF MayRelease
      <3> QED
        BY <1>4, <3>1, <3>2
           DEF FactKeeps, WorkspaceParts, WorkspaceIsWhole, VerifiedLineage, Exists,
               AtOrAfter, Workspaces
    <2> QED
      BY <2>1, <2>2, <2>3, <2>4, <2>5 DEF AppendWorkspaceFact
  <1>6. TypeOK'
    BY <1>1, <1>2, <1>5 DEF IInv, TypeOK, FactKeeps, history
  <1>7. LedgerParts'
    BY <1>1, InvariantParts, LedgerPartsStutter DEF Parts
  <1>8. ExecutionIsProvisioned'
    BY <1>1, <1>5 DEF IInv, ExecutionIsProvisioned, FactKeeps, Exists
  <1> QED
    BY <1>2, <1>5, <1>6, <1>7, <1>8, InvariantParts DEF Parts, FactKeeps

-------------------------------------------------------------------------------
(* The theorems.                                                           *)

\* Every reachable state satisfies the inductive invariant.
THEOREM Invariance == Spec => []IInv
  <1>1. Init => IInv
    BY InitInvariant
  <1>2. IInv /\ [Next]_vars => IInv'
    <2> SUFFICES ASSUME IInv, [Next]_vars PROVE IInv'
      OBVIOUS
    <2>1. CASE UNCHANGED vars
      <3>1. TypeOK' /\ RequestsAreLegal'
        BY <2>1 DEF IInv, TypeOK, RequestsAreLegal, vars, projections, history
      <3> QED
        BY <2>1, <3>1, InvariantParts, WorkspacePartsStutter, LedgerPartsStutter,
           ProvisionedStutter DEF Parts, vars, projections
    <2>2. ASSUME NEW c \in Clients, Write(c)
          PROVE  IInv'
      BY <2>2, CreationStep, TransitionStep, ContractCreationStep, AmendmentStep,
         VerdictStep, WorkspaceFactStep, RepairFactStep, DeletionStep DEF Write
    <2> QED
      BY <2>1, <2>2, ReadStep, DropStep DEF Next
  <1> QED
    BY <1>1, <1>2, PTL DEF Spec

\* Every variable of the Ledger keeps its type, whatever its clients do.
THEOREM TypeCorrectness == Spec => []TypeOK
  <1>1. IInv => TypeOK
    BY DEF IInv
  <1> QED
    BY <1>1, Invariance, PTL

\* A mission succeeds only on a COMPLETE verdict of its present contract that
\* was recorded in its last round of verification.
THEOREM CompletionEarned == Spec => []CompletionIsEarned
  <1>1. IInv => CompletionIsEarned
    BY DEF IInv
  <1> QED
    BY <1>1, Invariance, PTL

\* A mission executes only in a workspace that exists and is not released.
THEOREM ExecutionProvisioned == Spec => []ExecutionIsProvisioned
  <1>1. IInv => ExecutionIsProvisioned
    BY DEF IInv
  <1> QED
    BY <1>1, Invariance, PTL

\* No repair admission pays for two rounds of verification.
THEOREM RoundsAdmitted == Spec => []RoundsAreAdmitted
  <1>1. IInv => RoundsAreAdmitted
    BY DEF IInv, RoundsArePaid
  <1> QED
    BY <1>1, Invariance, PTL

\* The rollback floor descends from every verified checkpoint.
THEOREM LineageVerified == Spec => []VerifiedLineage
  <1>1. IInv => VerifiedLineage
    BY DEF IInv
  <1> QED
    BY <1>1, Invariance, PTL

\* What a step may do to the facts the lifecycle is decided on.
LEMMA StepShape ==
  ASSUME NEW c \in Clients, Read(c) \/ Write(c) \/ Drop(c)
  PROVE  \/ UNCHANGED <<state, contract, verdict>>
         \/ AppendMissionCreation(c)
         \/ AppendTransition(c)
         \/ AppendContractCreation(c)
         \/ AppendContractAmendment(c)
         \/ AppendCompletionVerdict(c)
  <1>1. CASE Read(c)
    BY <1>1 DEF Read, RequestCreate, RequestTransition, RequestContract,
       RequestAmendment, RequestVerdict, RequestProvision, RequestCheckpoint,
       RequestRestore, RequestCheckpointVerification, RequestRelease,
       RequestAdmission, RequestFinding, RequestDeletion, Decide, projections
  <1>2. CASE Write(c)
    BY <1>2 DEF Write, AppendWorkspaceFact, AppendRepairFact,
       AppendCatalogueDeletionFact
  <1>3. CASE Drop(c)
    BY <1>3 DEF Drop, projections
  <1> QED
    BY <1>1, <1>2, <1>3

\* A request that was decided on before the mission ended changes nothing after.
THEOREM OutcomeFinal == Spec => OutcomeIsFinal
  <1>1. IInv /\ [Next]_vars => (IsTerminal(state) => UNCHANGED <<state, contract, verdict>>)
    <2> SUFFICES ASSUME IInv, [Next]_vars, IsTerminal(state)
                 PROVE  UNCHANGED <<state, contract, verdict>>
      OBVIOUS
    <2>1. CASE UNCHANGED vars
      BY <2>1 DEF vars, projections
    <2>2. ASSUME NEW c \in Clients, Read(c) \/ Write(c) \/ Drop(c)
          PROVE  UNCHANGED <<state, contract, verdict>>
      <3>1. state \notin ActiveStates \union {"NONE"}
        BY DEF IsTerminal, TerminalStates, ActiveStates
      <3>2. request[c].op = "transition" => request[c].from \in ActiveStates
        BY RequestShape DEF IInv, TypeOK
      <3> QED
        BY <2>2, <3>1, <3>2, StepShape
           DEF AppendMissionCreation, AppendTransition, AppendContractCreation,
               AppendContractAmendment, AppendCompletionVerdict, Appending,
               ActiveStates
    <2> QED
      BY <2>1, <2>2 DEF Next
  <1> QED
    BY <1>1, Invariance, PTL DEF Spec, OutcomeIsFinal

\* The Ledger, with any number of clients racing on it, implements the atomic
\* mission: to its customer a mission moves along the legal transitions, and
\* succeeds only while its verification stands.
THEOREM Refinement == Spec => ImplementsMission
  <1>1. Init => Promise!Init
    BY DEF Init, Promise!Init, Accepted
  <1>2. IInv /\ [Next]_vars => [Promise!Next]_(Promise!mission)
    <2> SUFFICES ASSUME IInv, [Next]_vars PROVE [Promise!Next]_(Promise!mission)
      OBVIOUS
    <2>0. /\ Promise!ActiveStates = ActiveStates
          /\ Promise!MissionStates = MissionStates
          /\ \A from, to : Promise!IsLegalTransition(from, to) <=>
                            IsLegalTransition(from, to)
      BY DEF Promise!ActiveStates, ActiveStates, Promise!MissionStates, MissionStates,
         Promise!TerminalStates, TerminalStates, Promise!IsLegalTransition,
         IsLegalTransition, Promise!LegalTransitions, LegalTransitions,
         Promise!ForcedTerminalTargets, ForcedTerminalTargets
    <2>1. UNCHANGED <<state, contract, verdict>> => UNCHANGED Promise!mission
      BY DEF Promise!mission, Accepted, CurrentVerdict
    <2>2. CASE UNCHANGED vars
      BY <2>1, <2>2 DEF vars, projections
    <2>3. ASSUME NEW c \in Clients, AppendMissionCreation(c)
          PROVE  Promise!Next
      BY <2>3 DEF AppendMissionCreation, Promise!Next, Promise!Create, Accepted
    <2>4. ASSUME NEW c \in Clients, AppendTransition(c)
          PROVE  Promise!Next
      <3> DEFINE from == request[c].from
                 to   == request[c].to
      <3>1. /\ from \in ActiveStates /\ to \in MissionStates
            /\ IsLegalTransition(from, to)
        <4>1. request[c] \in Requests \union {Idle} /\ request[c].op = "transition"
          BY <2>4 DEF IInv, TypeOK, AppendTransition, Appending
        <4> QED
          BY <4>1, RequestShape DEF IInv, RequestsAreLegal
      <3>2. state = from /\ state' = to /\ GatesOpen(from, to)
              /\ UNCHANGED <<contract, verdict>>
        BY <2>4 DEF AppendTransition
      <3>3. to = "SUCCEEDED" => from = "VERIFYING" /\ CurrentVerdict("COMPLETE")
        BY <3>1, <3>2 DEF IsLegalTransition, LegalTransitions,
           ForcedTerminalTargets, GatesOpen
      <3>4. to = "REPAIRING" => CurrentVerdict("INCOMPLETE")
        BY <3>1, <3>2 DEF IsLegalTransition, LegalTransitions,
           ForcedTerminalTargets, GatesOpen
      <3>5. to = "VERIFYING" => verdict.result # "COMPLETE"
        BY <3>1, <3>2 DEF IInv, CompleteStaysInRound, Verified, TerminalStates,
           IsLegalTransition, LegalTransitions, ForcedTerminalTargets
      <3>6. Accepted' <=> (Accepted /\ to = "SUCCEEDED")
        BY <3>2, <3>3, <3>5 DEF Accepted, CurrentVerdict
      <3>7. Promise!Move(to)
        <4>1. (to = "SUCCEEDED" => Accepted) /\ (to = "REPAIRING" => ~Accepted)
          BY <3>2, <3>3, <3>4 DEF Accepted, CurrentVerdict
        <4>2. Accepted' = (Accepted /\ to = "SUCCEEDED")
          BY <3>6, Zenon DEF Accepted
        <4> QED
          BY <2>0, <3>1, <3>2, <4>1, <4>2 DEF Promise!Move
      <3> QED
        BY <2>0, <3>1, <3>7 DEF Promise!Next
    <2>5. ASSUME NEW c \in Clients, AppendContractCreation(c)
          PROVE  UNCHANGED Promise!mission
      BY <2>5 DEF AppendContractCreation, Promise!mission, Accepted
    <2>6. ASSUME NEW c \in Clients, AppendContractAmendment(c)
          PROVE  Promise!Next
      <3>1. verdict.version \in Nat /\ contract \in Nat /\ verdict.version <= contract
        BY BoundsAssumption
           DEF IInv, TypeOK, Verdicts, NoVerdict, Versions, VerdictLagsContract
      <3>2. ~Accepted'
        BY <2>6, <3>1 DEF AppendContractAmendment, Accepted, CurrentVerdict
      <3> QED
        BY <2>0, <2>6, <3>2 DEF AppendContractAmendment, Promise!Next, Promise!Amend
    <2>7. ASSUME NEW c \in Clients, AppendCompletionVerdict(c)
          PROVE  Promise!Next
      BY <2>7 DEF AppendCompletionVerdict, Promise!Next, Promise!Judge, Accepted,
         CurrentVerdict
    <2> QED
      BY <2>1, <2>2, <2>3, <2>4, <2>5, <2>6, <2>7, StepShape DEF Next
  <1> QED
    BY <1>1, <1>2, Invariance, PTL DEF Spec, ImplementsMission, Promise!Spec

===============================================================================
