----------------------------- MODULE MissionLedger -----------------------------
(***************************************************************************)
(* One mission's Ledger and the services that append to it                 *)
(* (src/control-plane/mission-control.js).                                 *)
(*                                                                         *)
(* Every service call has two halves.  The first reads the Ledger without  *)
(* the writer lock and decides whether, and what, to append; the second    *)
(* takes the lock, replays the Ledger again, re-validates the record       *)
(* (validateCurrent) and appends it.  The API server and the mission       *)
(* worker are separate processes on the same files, so the second half may *)
(* find another Ledger than the first one read.  request[c] is what client *)
(* c read and is about to append.  The lock itself and the bytes of the    *)
(* file are the subject of LedgerFile: here the second half is one step.   *)
(*                                                                         *)
(* The Ledger's records are kept as the projections the code recomputes    *)
(* from them: the replayed state, the contract version, the latest         *)
(* verdict, the workspace, the latest repair admission and finding.        *)
(***************************************************************************)
EXTENDS Naturals, FiniteSets, WorkspaceFacts

CONSTANTS Clients,         \* processes with an open Mission Control
          Operations,      \* the service calls the clients make
          MaxVersion,      \* bound: contract versions
          MaxRounds,       \* bound: entries to VERIFYING
          MaxAdmissions    \* bound: repair admissions

ASSUME BoundsAssumption ==
  MaxVersion \in Nat /\ MaxRounds \in Nat /\ MaxAdmissions \in Nat

VARIABLES
  state,       \* replay.state, "NONE" while the ledger file does not exist
  contract,    \* contractVersion of the Requirement Contract, 0 for null
  verdict,     \* latestCompletionVerdict
  workspace,   \* projectWorkspace
  admission,   \* the latest repair admission
  finding,     \* type of the latest repair finding, or "NONE"
  deleted,     \* a catalogue deletion fact is recorded
  replayable,  \* validateAndReplay accepts the ledger
  request,     \* request[c]: the pending append of client c
  round,       \* history: how often the mission entered VERIFYING
  spent        \* history: admissions that returned the mission to EXECUTING

projections == <<state, contract, verdict, workspace, admission, finding,
                 deleted, replayable>>
history     == <<round, spent>>
vars        == <<projections, request, history>>

-------------------------------------------------------------------------------
Results  == { "COMPLETE", "INCOMPLETE" }
Findings == { "STRATEGIES_EXHAUSTED", "EXTERNAL_BLOCKER", "BUDGET_EXHAUSTED" }
Versions == 1 .. MaxVersion

\* round is a history field: the VERIFYING round the verdict was recorded in.
Verdicts  == [ result : Results, version : Versions,
               checkpoint : Checkpoints, round : 1 .. MaxRounds ]
NoVerdict == [ result |-> "NONE", version |-> 0,
               checkpoint |-> NoCheckpoint, round |-> 0 ]

\* id is a history field: admissions are numbered as they are recorded.
Admissions  == [ pre : Checkpoints, open : BOOLEAN, id : 1 .. MaxAdmissions ]
NoAdmission == [ pre |-> NoCheckpoint, open |-> FALSE, id |-> 0 ]

\* What a client has decided to append.
Idle == [ op |-> "idle" ]
Requests ==
  [ op : { "create", "createContract", "delete" } ]
    \union [ op : { "transition" }, from : ActiveStates, to : MissionStates ]
    \union [ op : { "amend" }, version : Versions ]
    \union [ op : { "verdict" }, version : Versions, result : Results,
             checkpoint : Checkpoints ]
    \union [ op : { "provision", "restore", "verifyCheckpoint", "release" },
             id : Checkpoints ]
    \union [ op : { "checkpoint" }, id : Checkpoints, parent : Checkpoints ]
    \union [ op : { "admit" }, pre : Checkpoints ]
    \union [ op : { "finding" }, type : Findings ]

TypeOK ==
  /\ state \in MissionStates \union {"NONE"}
  /\ contract \in 0 .. MaxVersion
  /\ verdict \in Verdicts \union {NoVerdict}
  /\ workspace \in Workspaces
  /\ admission \in Admissions \union {NoAdmission}
  /\ finding \in Findings \union {"NONE"}
  /\ deleted \in BOOLEAN
  /\ replayable \in BOOLEAN
  /\ request \in [Clients -> Requests \union {Idle}]
  /\ round \in 0 .. MaxRounds
  /\ spent \in SUBSET (1 .. MaxAdmissions)

Init ==
  /\ state = "NONE" /\ contract = 0 /\ verdict = NoVerdict
  /\ workspace = NoWorkspace /\ admission = NoAdmission /\ finding = "NONE"
  /\ deleted = FALSE /\ replayable = TRUE
  /\ request = [ c \in Clients |-> Idle ]
  /\ round = 0 /\ spent = {}

-------------------------------------------------------------------------------
(* The gates of the lifecycle, checked by orchestrator.transition on what  *)
(* it read and by appendTransition's validateCurrent under the lock.       *)

\* Mutant: the verdict of an amended contract still counts.
AnyVersionVerdict(result) == verdict.result = result /\ contract # 0

CurrentVerdict(result) ==
  /\ verdict.result = result
  /\ contract # 0
  /\ verdict.version = contract

\* Mutant: an admission that was already acted on counts again.
ReusableAdmission == admission.id # 0 /\ admission.pre = workspace.current

\* latestUnconsumedRepairAdmission.
UnconsumedAdmission ==
  admission.open /\ admission.pre = workspace.current

\* validateRepairTerminalTransition.
RequiredFinding == [ FAILED    |-> "STRATEGIES_EXHAUSTED",
                     BLOCKED   |-> "EXTERNAL_BLOCKER",
                     EXHAUSTED |-> "BUDGET_EXHAUSTED" ]

\* Mutant: repair of a verified contract.
GatesWithoutDeficiency(from, to) ==
  /\ to = "CONTRACTED" => contract # 0
  /\ from = "VERIFYING" /\ to = "SUCCEEDED" => CurrentVerdict("COMPLETE")
  /\ from = "PROVISIONING" /\ to = "EXECUTING" => Exists(workspace)
  /\ from = "REPAIRING" /\ to = "EXECUTING" => UnconsumedAdmission

GatesOpen(from, to) ==
  /\ to = "CONTRACTED" => contract # 0
  /\ from = "VERIFYING" /\ to = "SUCCEEDED" => CurrentVerdict("COMPLETE")
  /\ from = "VERIFYING" /\ to = "REPAIRING" => CurrentVerdict("INCOMPLETE")
  /\ from = "PROVISIONING" /\ to = "EXECUTING" => Exists(workspace)
  /\ from = "REPAIRING" /\ to = "EXECUTING" => UnconsumedAdmission
  /\ from = "REPAIRING" /\ to \in DOMAIN RequiredFinding =>
       finding = RequiredFinding[to]

-------------------------------------------------------------------------------
(* First halves: read without the lock.                                    *)

\* Client c, idle, decides on an append of one of its operations.  Every read
\* but the deletion's replays the Ledger with full validation.
Decide(c, r) ==
  /\ request[c] = Idle
  /\ r.op \in Operations
  /\ request' = [ request EXCEPT ![c] = r ]
  /\ UNCHANGED <<projections, history>>

RequestCreate(c) ==
  state = "NONE" /\ Decide(c, [ op |-> "create" ])

RequestTransition(c, to) ==
  /\ replayable
  /\ state \in ActiveStates
  /\ IsLegalTransition(state, to)
  /\ GatesOpen(state, to)
  /\ Decide(c, [ op |-> "transition", from |-> state, to |-> to ])

RequestContract(c) ==
  /\ replayable
  /\ state = "INTAKE" /\ contract = 0
  /\ Decide(c, [ op |-> "createContract" ])

RequestAmendment(c) ==
  /\ replayable
  /\ state \in ActiveStates /\ contract # 0
  /\ Decide(c, [ op |-> "amend", version |-> contract ])

\* verify.  The caller names the checkpoint whose evidence it cites; the
\* result is whatever that evidence says of the obligations read here.
RequestVerdict(c, result, id) ==
  /\ replayable
  /\ state = "VERIFYING" /\ contract # 0
  /\ id \in workspace.chain
  /\ Decide(c, [ op |-> "verdict", version |-> contract, result |-> result,
                 checkpoint |-> id ])

RequestProvision(c, id) ==
  /\ replayable
  /\ state = "PROVISIONING" /\ ~Exists(workspace)
  /\ Decide(c, [ op |-> "provision", id |-> id ])

RequestCheckpoint(c, id) ==
  /\ replayable
  /\ state \in ActiveStates /\ Exists(workspace)
  /\ id \notin workspace.chain
  /\ Decide(c, [ op |-> "checkpoint", id |-> id,
                 parent |-> workspace.current ])

RequestRestore(c, id) ==
  /\ replayable
  /\ state \in ActiveStates
  /\ id \in workspace.chain
  /\ RespectsFloor(workspace, id)
  /\ Decide(c, [ op |-> "restore", id |-> id ])

RequestCheckpointVerification(c, id) ==
  /\ replayable
  /\ state \in ActiveStates
  /\ id \in workspace.chain \ workspace.verified
  /\ RespectsFloor(workspace, id)
  /\ Decide(c, [ op |-> "verifyCheckpoint", id |-> id ])

\* Only a release that preserves verified data passes this check when the
\* workspace holds any; the choice leaves no other trace in the Ledger.
RequestRelease(c) ==
  /\ replayable
  /\ IsTerminal(state) /\ Exists(workspace)
  /\ Decide(c, [ op |-> "release", id |-> workspace.current ])

\* admitStrategy: budgets, routing and novelty are the subject of Repair.
RequestAdmission(c) ==
  /\ replayable
  /\ state = "REPAIRING"
  /\ verdict.result = "INCOMPLETE"
  /\ Decide(c, [ op |-> "admit", pre |-> workspace.current ])

RequestFinding(c, type) ==
  /\ replayable
  /\ state = "REPAIRING"
  /\ Decide(c, [ op |-> "finding", type |-> type ])

\* recordProjectDeletion reads through reportEvents, which does not validate
\* evidence or checkpoints.
RequestDeletion(c) ==
  /\ state # "NONE" /\ ~deleted
  /\ Decide(c, [ op |-> "delete" ])

-------------------------------------------------------------------------------
(* Second halves: re-validate under the lock and append.                   *)

\* Client c appends the record it decided on.
Appending(c, op) ==
  /\ request[c].op = op
  /\ request' = [ request EXCEPT ![c] = Idle ]

AppendMissionCreation(c) ==
  /\ Appending(c, "create")
  /\ state = "NONE"
  /\ state' = "INTAKE"
  /\ UNCHANGED <<contract, verdict, workspace, admission, finding, deleted,
                 replayable, history>>

AppendTransition(c) ==
  /\ Appending(c, "transition")
  /\ replayable
  /\ LET from == request[c].from
         to   == request[c].to
     IN  /\ state = from
         /\ GatesOpen(from, to)
         /\ to = "VERIFYING" => round < MaxRounds
         /\ state' = to
         /\ round' = IF to = "VERIFYING" THEN round + 1 ELSE round
         /\ IF from = "REPAIRING" /\ to = "EXECUTING"
              THEN /\ admission' = [ admission EXCEPT !.open = FALSE ]
                   /\ spent' = spent \union {admission.id}
              ELSE UNCHANGED <<admission, spent>>
  /\ UNCHANGED <<contract, verdict, workspace, finding, deleted, replayable>>

AppendContractCreation(c) ==
  /\ Appending(c, "createContract")
  /\ replayable
  /\ state = "INTAKE" /\ contract = 0
  /\ MaxVersion > 0
  /\ contract' = 1
  /\ UNCHANGED <<state, verdict, workspace, admission, finding, deleted,
                 replayable, history>>

\* Mutant: the state of the mission is only looked at before the lock.
AmendWhateverState(c) ==
  /\ Appending(c, "amend")
  /\ replayable
  /\ request[c].version = contract
  /\ contract < MaxVersion
  /\ contract' = contract + 1
  /\ UNCHANGED <<state, verdict, workspace, admission, finding, deleted,
                 replayable, history>>

AppendContractAmendment(c) ==
  /\ Appending(c, "amend")
  /\ replayable
  /\ state \in ActiveStates
  /\ request[c].version = contract
  /\ contract < MaxVersion
  /\ contract' = contract + 1
  /\ UNCHANGED <<state, verdict, workspace, admission, finding, deleted,
                 replayable, history>>

AppendCompletionVerdict(c) ==
  /\ Appending(c, "verdict")
  /\ replayable
  /\ state = "VERIFYING"
  /\ request[c].version = contract
  /\ request[c].checkpoint = workspace.current
  /\ verdict' = [ result |-> request[c].result, version |-> contract,
                  checkpoint |-> workspace.current, round |-> round ]
  /\ UNCHANGED <<state, contract, workspace, admission, finding, deleted,
                 replayable, history>>

AppendWorkspaceFact(c) ==
  /\ \/ /\ Appending(c, "provision")
        /\ MayProvision(workspace, state)
        /\ workspace' = ApplyProvisioned(request[c].id)
     \/ /\ Appending(c, "checkpoint")
        /\ MayCreateCheckpoint(workspace, state, request[c].id,
                               request[c].parent)
        /\ workspace' = ApplyCheckpointCreated(workspace, request[c].id,
                                               request[c].parent)
     \/ /\ Appending(c, "restore")
        /\ MayRestore(workspace, state, request[c].id)
        /\ workspace' = ApplyRestored(workspace, request[c].id)
     \/ /\ Appending(c, "verifyCheckpoint")
        /\ MayVerifyCheckpoint(workspace, state, request[c].id)
        /\ workspace' = ApplyVerified(workspace, request[c].id)
     \/ /\ Appending(c, "release")
        /\ MayRelease(workspace, state, request[c].id)
        /\ workspace' = ApplyReleased(workspace)
  /\ replayable
  /\ UNCHANGED <<state, contract, verdict, admission, finding, deleted,
                 replayable, history>>

\* appendResultFact does not look at the mission's state: the fact only has to
\* cite a checkpoint of the chain.
AppendRepairFact(c) ==
  /\ replayable
  /\ \/ /\ Appending(c, "admit")
        /\ request[c].pre \in workspace.chain
        /\ admission.id < MaxAdmissions
        /\ admission' = [ pre |-> request[c].pre, open |-> TRUE,
                          id |-> admission.id + 1 ]
        /\ UNCHANGED finding
     \/ /\ Appending(c, "finding")
        /\ Exists(workspace)
        /\ finding' = request[c].type
        /\ UNCHANGED admission
  /\ UNCHANGED <<state, contract, verdict, workspace, deleted, replayable,
                 history>>

\* appendCatalogueDeletionFact validates only the chain of records.  The fact
\* cites evidence without a checkpoint, which validateAndReplay refuses once
\* the mission is provisioned.
AppendCatalogueDeletionFact(c) ==
  /\ Appending(c, "delete")
  /\ deleted' = TRUE
  /\ replayable' = (replayable /\ ~Exists(workspace))
  /\ UNCHANGED <<state, contract, verdict, workspace, admission, finding,
                 history>>

\* The append does not happen: the lock is busy (LedgerBusyError), validation
\* refuses the record, or the process dies first.
Drop(c) ==
  /\ request[c] # Idle
  /\ request' = [ request EXCEPT ![c] = Idle ]
  /\ UNCHANGED <<projections, history>>

-------------------------------------------------------------------------------
Read(c) ==
  \/ RequestCreate(c)
  \/ \E to \in MissionStates : RequestTransition(c, to)
  \/ RequestContract(c)
  \/ RequestAmendment(c)
  \/ \E result \in Results, id \in Checkpoints : RequestVerdict(c, result, id)
  \/ \E id \in Checkpoints : \/ RequestProvision(c, id)
                             \/ RequestCheckpoint(c, id)
                             \/ RequestRestore(c, id)
                             \/ RequestCheckpointVerification(c, id)
  \/ RequestRelease(c)
  \/ RequestAdmission(c)
  \/ \E type \in Findings : RequestFinding(c, type)
  \/ RequestDeletion(c)

Write(c) ==
  \/ AppendMissionCreation(c)
  \/ AppendTransition(c)
  \/ AppendContractCreation(c)
  \/ AppendContractAmendment(c)
  \/ AppendCompletionVerdict(c)
  \/ AppendWorkspaceFact(c)
  \/ AppendRepairFact(c)
  \/ AppendCatalogueDeletionFact(c)

Next == \E c \in Clients : Read(c) \/ Write(c) \/ Drop(c)

Spec == Init /\ [][Next]_vars

-------------------------------------------------------------------------------
(* Safety.                                                                 *)

\* A mission only ends in SUCCEEDED on a COMPLETE verdict, of the contract as
\* it then stands, recorded in the very round of verification that ended it:
\* however requests read earlier, amendments and repairs interleave, no verdict
\* of an earlier round or an earlier contract is spent.
CompletionIsEarned ==
  state = "SUCCEEDED" =>
    /\ verdict.result = "COMPLETE"
    /\ verdict.version = contract
    /\ verdict.round = round

\* Code executes, is verified or is repaired only in a provisioned workspace,
\* and a workspace is never released from under a mission still active.
ExecutionIsProvisioned ==
  /\ state \in { "EXECUTING", "VERIFYING", "REPAIRING", "SUCCEEDED" } =>
       Exists(workspace)
  /\ workspace.released => IsTerminal(state)

\* Every round of verification after the first was paid for by a repair
\* admission of its own: no admission returns the mission to EXECUTING twice.
RoundsAreAdmitted == round <= Cardinality(spent) + 1

\* Verified checkpoints form one line of descent: the rollback floor descends
\* from every checkpoint that was ever verified, although the marks are set by
\* clients that read the workspace before the lock.
VerifiedLineage ==
  \A id \in workspace.verified : AtOrAfter(workspace, workspace.floor, id)

\* The outcome of a mission is final: once terminal, neither its state, nor its
\* contract, nor the verdict it ended on changes, whatever requests were already
\* decided on when it ended.
OutcomeIsFinal ==
  [][IsTerminal(state) => UNCHANGED <<state, contract, verdict>>]_vars

\* What mission-control.js and README.md promise and the code does not keep.

\* README.md:51-52: "Authoritative writes still perform complete evidence and
\* checkpoint validation": no append leaves a ledger that validateAndReplay,
\* and with it every authoritative read, refuses.
LedgerStaysReplayable == replayable

\* test/milestone-5.test.js:550: "verified checkpoint marks are irreversible
\* and define the rollback floor": no restore lands before the floor.
RestoresRespectFloor ==
  [][ /\ workspace'.chain = workspace.chain
      /\ workspace'.current # workspace.current
      => RespectsFloor(workspace, workspace'.current) ]_vars

\* test/milestone-4.test.js:729: "VERIFYING to SUCCEEDED requires a current
\* valid COMPLETE verdict": the verdict judged the checkpoint that is delivered.
VerdictIsOfDeliveredCheckpoint ==
  state = "SUCCEEDED" => verdict.checkpoint = workspace.current

-------------------------------------------------------------------------------
(* What the whole ledger machinery promises about a mission: module Mission. *)

Accepted ==
  /\ state \in { "VERIFYING", "SUCCEEDED" }
  /\ CurrentVerdict("COMPLETE")

Promise == INSTANCE Mission WITH phase <- state, accepted <- Accepted

\* The ledger with its concurrent clients implements the atomic lifecycle.
ImplementsMission == Promise!Spec

===============================================================================
