# A verification project for FoundryAI

FoundryAI turns a customer's intent into a delivered software project. A *mission* is
driven by two kinds of processes, the local API server and one mission worker per
mission, that share nothing but files: an append-only Ledger per mission, an evidence
store, a store of workspace checkpoints, and the live workspace tree. Whatever the
program promises about a mission (that it succeeds only when it was verified, that work is
not lost, that a command is not repeated) it has to keep with these files alone, while
processes race, die, are restarted and repeat what they did not see finished. This is
what the modules here are about.

## The system

| component | source | state | operations | what makes it correct |
|---|---|---|---|---|
| Mission lifecycle | `src/domain/lifecycle.js` | the state of a mission | the table of legal transitions | every path to SUCCEEDED leads through EXECUTING and VERIFYING |
| Mission Ledger, Orchestrator | `src/control-plane/mission-control.js` | `<missionId>.jsonl`, its lock file, a replay cache per process | append a transition, a contract, an amendment, a workspace fact, a verdict, a result fact, a deletion | records are serial; what is appended was legal at the moment it was appended, whoever decided it when |
| Requirement Contract | `src/domain/requirement-contract.js` | versions in the Ledger | create, amend | a verdict counts for the version it judged only |
| Workspace | `src/domain/workspace.js`, `src/capability-plane/workspace-service.js` | projection of workspace facts: chain, current, verified checkpoints | provision, checkpoint, restore, mark verified, release | verified checkpoints are a floor under restores |
| Workspace store | `src/truth-plane/workspace-store.js` | live trees, blobs, checkpoint records, staging | publish, prepare/commit/rollback of restore and release | disk and Ledger agree; no work is lost |
| Evidence store | `src/truth-plane/observation-evidence-store.js` | one file per record, an index per process | capture, get, find | a record is immutable; what is cited exists |
| Verification authority | `src/truth-plane/verification-authority.js`, `src/domain/verification.js` | - (facts in the Ledger) | verify | verdict computed from evidence of the current checkpoint |
| Repair strategist | `src/recovery-plane/diagnosis-repair-strategist.js`, `src/domain/repair.js` | facts in the Ledger | admit, complete, exhaust, find, block | bounded, novel strategies; one admission per round |
| Execution engine | `src/work-plane/execution-engine.js`, `src/domain/execution.js`, `command-runner.js` | facts, evidence, two checkpoints per work unit | executeWorkUnit | idempotent under retry; commands at most once |
| Production mission service | `src/work-plane/production-mission-service.js` | - (it finds its place in the Ledger again) | `execute`: generate, admit, apply, run the command pipeline, observe in a browser, correct, undo, deliver; `stop`, `cancel`, `startPreview`, `stopPreview` | what is delivered is a checkpoint from which a browser saw the workflows work; budgets hold over all workers; it comes to an end |
| Model gateway | `src/work-plane/model-gateway.js` | evidence and facts of attempts, an evidence index per process | `request` | every paid call is accounted for, an outcome is recorded once and backed, bounded attempts are spent sensibly |
| Runtime preview | `src/work-plane/runtime-preview-service.js` | sessions in the Ledger, server processes | start, stop, observe | a stopped preview is dead; a mission succeeds on its newest preview |
| Local API, mission worker | `apps/web/local-api/server.mjs`, `mission-worker.mjs`, `understanding-recovery.mjs` | `activeJobs`, one job object per worker, IPC channels | start, stop, delete, shut down, recover at start-up | it knows who works on a mission; stops are answered; an idle mission can be started |
| Project understanding, contract | `src/understanding-plane/*.js`, the understanding jobs of `server.mjs`, `understanding-recovery.mjs` | answers, plans, approvals and contracts in the Ledger; `activeUnderstandingJobs`; saved read-backs (only displayed, left out) | ask, answer, choose, approve, retry, start, recover; draft and record the contract | a request is neither paid for twice nor forgotten; a plan knows all that was said; obligations and approved contract are of one draft |
| Toolchain registry | `src/capability-plane/toolchain-stack-registry.js`, `src/truth-plane/registry-store.js` | `registry-events.jsonl` of all missions, its lock, observations and facts of each mission | register the stack, check the machine, select | the registry stays readable and says what the Ledgers say; provisioning follows a selection |
| AI registry, prototypes and concepts, web client | `ai-provider-registry.js`, `src/work-plane/prototype-*.js`, `concept-evolution-service.js`, `apps/web` | a registry, drafts, sessions | - | see "Not modelled" |

How they interact: the server and the workers call the services in their own process; every
service reads the Ledger without a lock (`listEvents`, `projectState`), decides, writes
evidence and checkpoints, and then appends under the lock of the mission, where the *whole*
file is replayed and validated again. The Orchestrator alone appends transitions. The
workspace service calls the store, then the evidence store, then the Ledger, in this order.
The execution engine calls the workspace service for a checkpoint before and after the
action, and records a start fact and an outcome fact around it. The server spawns a
worker per mission and talks to it by IPC messages; the worker runs `execute`, which calls the
gateway for the code, the engine for every command and file, the previews for a running
application and the browser for its verdict on it. A worker that dies leaves all of
them as they are, and the next one begins `execute` at its first line. Before any of this the
server asks models for a plan, in a job that other requests of the customer overtake; the first worker makes
the contract of it, sets up the toolchain through a registry it shares with the workers of all other missions, and
provisions the workspace.

What is hard: decisions on stale reads; the take-over of a lock whose owner died; an
operation on several files of which only some happened; a retry that meets its own
traces; facts that arrive after the mission moved on; messages that are heard only while a
worker waits; a resumed worker that takes a thing for done by a name another gave it; a plan that changes while
its contract is made; a file that all missions share. `PROJECT.json` lists these hazards
with their lines.

## The modules

| module | models | abstract view of |
|---|---|---|
| `MissionLifecycle` | the states and transitions | - |
| `WorkspaceFacts` | the five workspace facts: when one is accepted, what it does to the projection | - |
| `Mission` | **abstract**: one mission with atomic decisions | what a caller may rely on |
| `MissionLedger` | clients that read, decide and append; every append with its validation | implements `Mission` |
| `LedgerFile` | the Ledger's file and lock at the grain of system calls | when the one-step append of `MissionLedger` is justified, and when not |
| `WorkspaceStore` | live tree, blobs, records and facts of a workspace, call by call | the workspace facts of `MissionLedger`, one step there |
| `WorkUnit` | one work unit, its evidence, checkpoints, facts, retries and crashes | uses `WorkspaceStore`'s publication in one step |
| `RuntimePreview` | preview sessions, their processes and evidence | - |
| `MissionWorkers` | server, workers, messages and a mission's states; EXTENDS `MissionLifecycle`, `RuntimePreview` | `execute` at the grain of its waits |
| `ModelGateway` | one `request` per process, step by durable step | the answers `Production` buys |
| `Production` | `execute` from EXECUTING to VERIFYING | what happens in the waits of `MissionWorkers` |
| `Understanding` | from the customer's request to the contract and the provisioned workspace | what precedes `Production` |
| `Toolchain` | `setupStack` of several missions over one registry, call by call | `SetUp` of `Understanding`, one step there |
| `MCMissionLedger`, `MCWorkUnit`, `MCModelGateway`, `MCProduction`, `MCToolchain` | what a run covers: symmetry, constants, scopes | |
| `MissionLedgerProofs`, `StorageProofs` (of `LedgerFile` and `WorkspaceStore`), `WorkUnitProofs`, `ModelGatewayProofs`, `ProductionProofs`, `UnderstandingProofs`, `ToolchainProofs`, `MissionWorkersProofs` | theorems | |

### MissionLedger

The variables are projections of the records in a Ledger (state, contract version,
verdicts, repair facts, the workspace projection), because every validation in
`mission-control.js` is a function of these. A client's request has two parts: the service
reads the Ledger and checks what it checks before the lock (`Decide...`), and later, after
any number of appends by others, `append...` validates again under the lock and appends, or
throws. `listEvents` and `projectState` are two reads in the code and one here: everything
that depends on them is checked again under the lock, and what is not is exactly what is
kept in the client's request. Evidence is abstracted to the result it supports. The two
readings of the verifier (a COMPLETE or an incomplete verdict) are both possible in every
round: how a verdict is computed is not part of this module.

### LedgerFile

One action per system call of `appendRecord` and `acquireMissionLock`: open with `wx`,
inspect, unlink, open again, write the pid, read, append, fill the cache, unlink. A process may die before
each of them; a write may be cut short with or without its newline. A record is the number
of records its writer had read, which is all its sequence number and previous hash say. `cache` is `validatedReplayCache` of
each process: records under the hash of the whole file. The file only grows, so its length stands for that hash. As in the
code, a hit returns records without parsing the file (`CacheHits`, `Read`), and a process caches what it appended without
reading it again (`Remember`). A hit whose dependencies have changed validates the cached records
again, which at worst is a refusal (`Refuse`). Two history variables, in no guard: `crossed`, a process removed another lock than the one it had
looked at; `blind`, the process whose whole line ran into one that was cut.

### WorkspaceStore

One action per call that changes the disk or the Ledger. A tree is a model value; all blobs
of a tree are one blob. `op` is the operation in progress and the call it makes next: the
store is synchronous and its callers serialise operations on one workspace, so there is
one. `aside` is the tree that operation has moved away; when the operation ends without
giving it back it is added to `stranded`. The recoveries the code has (put back,
rollback, publishing again) are actions; there is no action that looks for stranded trees
because there is no code that does.

### WorkUnit

One action per durable step of `executeWorkUnit`. Timestamps matter, because evidence and
checkpoints of a retry must *equal* what is stored: a timestamp is the identity of a clock
reading (`Now` is one nobody still holds, so the set of `Stamps` is finite although the clock
is not). `index` is the evidence store's index of a process: built once, never refreshed.
Left out: stray temporary files of `replaceFile`, checkpoint records that are torn
(`WorkspaceStore` has them), child processes that outlive a dead worker, checkpoints of
other units in between, and the checks of mission state and contract with which
`executeWorkUnit` begins.

### MissionWorkers and RuntimePreview

One mission. `Workers` are the processes that may be spawned in a behaviour. JavaScript
runs to its next `await`, so one action of a worker is one stretch of `execute` between two
waits, and a message of the server is taken from the inbox only at a place in `Awaiting`:
`Hear` acts on it at once, `HearOn` in the midst of what the worker was doing, after which both
go on in one process. A crash can cut a stretch between the records it leaves (`DiesAtBoot`,
`DiesBetween`, `DiesVerifying`). `active` and `job` are `activeJobs` and the job objects of the server,
`linked` the IPC channels, `call` the stop and delete requests that wait for an answer. The history
variable `forgotten` says that the server dropped a worker it had not seen exit, or died under one: the
server then does not know who works, and the properties that depend on it say so. A second one, `cut`, is the set of sessions
whose own worker killed them when it was told to stop. Neither occurs in a guard. `HealthRecorded` is `observeHealth`: a session is recorded as up only if its process
runs, and as crashed otherwise, or when it does not answer in time; the verdict that follows does not ask. Preview servers die
of being killed, in this model, and of nothing else.
The Ledger is reduced to what `execute` asks of it before it takes a way; that a deletion makes
it unreadable (`LedgerStaysReplayable` of `MissionLedger`, below) is used here (`Replayable`).

### ModelGateway

A request stands for its id, its idempotency key and its fingerprint, which the callers derive
from one prefix; a route for its model. The Model Router's ranking is any total order, the routes
it offers any member of `Offers`. An attempt is four actions, as in the code: evidence that it starts
(`Announce`), the fact (`StartFact`), the call (`Dispatch`), the answer or failure (`Answer`, `Refuse`,
`RecordFailure`); then the outcome is evidence (`Conclude`) and a fact (`Record`). `index` is a process's
evidence index, built once. `paid` is history: what providers have received. Each durable step may fail
(`Fail`), a process may die anywhere (`Die`), the mission may move on (`MissionMoves`).
All six kinds of failures are in the module; the run uses three, since "timeout" and "transient" differ
from "invalid" only in what the next attempt prefers, and "unauthorized" from "unavailable" in nothing
its properties see.

### Production

`execute()` from its first line in EXECUTING to VERIFYING. The source is told apart by the repairs that
were applied to it: repair *c* is the *c*-th recorded model call that succeeded, `<<0>>` is the generated
bundle. `units` are the completed work units under the names the code gives them, the sequence
number of the call in its process and the step: a resumed worker counts anew, and what it may therefore take for done
(`Completed`, `Recover`) is part of the model. `checks` are the browser units with the checkpoints around
them, `built` the source the build directory was made from, `preview` the running server with the build it
serves. The answers of commands, models and browsers are arbitrary, and so is the time budget: every
decision that depends on it may go either way. A check records the build that was served to the browser (`served`); `undone`, in
the worker, is history: it took a design correction back. The pipeline is any sequence of procedures that ends
with the build, as the code's does (`production-mission-service.js:6291`, `ProductionAssumption`). The
budgets of a contract are the variable `policy`, chosen in `Init`, so one run covers all of them.
`Work(step, inputs, effects, then)` is a work unit: `then` gives the place for each result.
One file stands for a kind of files, one functional check for all; versions of dependencies are not told
apart. A failing worker's previews are `MissionWorkers`' matter.

### Understanding

One mission from POST /missions to EXECUTING. The server runs one handler or continuation at a time, so its actions
are the stretches between two waits or two records, and while it is between two records (`Busy`) it attends to
nothing else; a worker is a process of its own and its steps fall anywhere. A plan is its place in `plans`: profile,
design, blueprint and bindings are recorded in one fact, and what a plan knows is the set of answers it was
made from. `said` are the answers recorded before the call (with the plan they ask for), `entry` is the mission's entry in
`activeUnderstandingJobs`, `job` what goes on whether or not there still is an entry, `hand` a selection being recorded,
`charges` the requests dispatched. `contract()` reads profile, design, context, blueprint and approval in one read of the Ledger each (`ReadPart`, `Draft`), and a plan may be
published between any two of them: a draft says of which plan each part is, `contract` of which plan the obligations are, `approved` the draft the
approved contract was made of. The approval is compared with the blueprint (`Agrees`); the other comparisons, of audiences, exclusions and
recommendations, are of texts and may find the draft inconsistent or not (`Draft` may throw). Every call may fail, and a dispatched one may be answered with a plan, with
open questions or with product types. `WorkerStep` is `contract()` read by read and record by record, and the beginning of
`execute()`. A server that dies is started again (`ServerDies`, `Recover`), while its workers live on unknown to it.
Routes and corrections of one request are one call; deletion is `MissionWorkers`' matter.

### Toolchain

Workers of several missions in `setupStack()`: register the stack unless it is registered, check the machine's tools,
select. Each of the three leaves a fact in the mission's Ledger and a record in the shared registry, the first two an
observation (evidence) before them. The identifiers are fixed per mission and operation, so a record is told apart by its
time alone, and so is what a retry meets. `lock` is the lock file, one action per system call, as in `LedgerFile`: the code
is the same but for what it makes of a lock without a pid. `Fact` is one step, because the Ledger has one writer
at a time (`StorageProofs`, which also names the exception); that the server holds it is `FactRefused`. Two history variables: `stolen`, a worker lost
a lock it held or was about to fill, and `crossed`, two workers were in `setupStack` at once or a fault happened. Neither occurs in a guard.

## What the runs check

| run | bounds | what it shows |
|---|---|---|
| `ledger` | 2 clients (symmetric), 2 contract versions and 3 rounds, or 3 checkpoints | `CompletionIsEarned`, `RoundsAreAdmitted`, `VerifiedLineage`, `OutcomeIsFinal`, and that the racing clients implement `Mission` |
| `ledger_file` | 3 processes, 3 records, 2 faults | `OneWriter`, `AppendsAreSerial`, `DamageIsFrozen`, `StampedLocksGo` |
| `store_faults` | 2 trees, 2 checkpoints, 2 faults of 5 kinds, 2 edits | `RecordedCheckpointsAreStored`, `TreeMatchesLedger`, `WorkIsOnlyDiscardedByAFact`, `FactsTellWhatIsThere` |
| `unit` | 1 caller with 3 kinds of actions, 3 crashes anywhere and torn writes; or 2 callers with 2 kinds and 1 crash | `CommandRunsOnce`, `OutcomeIsBacked`; of one caller `LoneSuccessIsReal`, `LoneInterruptionsAreSurvived` |
| `workers` | 2 workers, 1 request, 2 sessions, 1 fault | `RunningWorkIsKnown`, `IdleMissionCanStart`, `StoppedPreviewsAreDead`, `DeliveredPreviewIsLeft` |
| `stops` | 1 worker, 2 requests, 1 session, 1 fault | `StopIsAnswered`, `StoppedWorkersExit` |
| `gateway` | 2 processes, 2 requests, 3 models of 2 providers, 2 attempts, 1 earlier attempt, 1 fault | `CallsAreAccounted`, `OutcomeIsBacked`, `SuccessWasAnswered`, `FailureIsEarned` |
| `production` | 5 policies, 2 commands, 3 tries, 1 aspect, 1 death | `DeliveryWasObserved`, `RepairsAreBudgeted`, `ExecutionEnds` |
| `understanding` | 1 message, 1 choice and a product type, 2 requests, 2 plans, 2 workers, 1 death | `ChargesAreAsked`, `ContractedOnOneDraft`, `PlansHonourEveryAnswer`, `RequestIsAnswered` |
| `toolchain` | 2 missions and 2 workers (symmetric), 3 readings of the clock, 2 faults | `OnlyTheftDamages`, `RecordsAreFacts`, `ReadyIsSelected`, `OnlyTheCrossedAreLeft` |

Type invariants, `ExecutionIsProvisioned` and `NoHopelessAttempt` are theorems for every value of the constants and are not run
again; `workers` and `production` check their `TypeOK` as well, which is cheap there.

The properties, in words (each module states them with the line they are about):
`CompletionIsEarned`: SUCCEEDED rests on a COMPLETE verdict of this round and contract version.
`RoundsAreAdmitted`: every verification round after the first was paid for by its own repair admission.
`VerifiedLineage`: verified checkpoints lie on one line of descent.
`OneWriter`: one process at a time replays and appends, `AppendsAreSerial`: every record follows all those before it, and `DamageIsFrozen`: a
file with an unreadable record is written by nobody but the one process whose own whole line ran into a cut one; all three until a process has
removed another lock than the one it had looked at. `StampedLocksGo`: the lock of a dead process that wrote its pid is gone some
day. `TreeMatchesLedger`: between operations the live tree is the current checkpoint's until it is edited,
and no tree is left aside. `FactsTellWhatIsThere`: a checkpoint that is asked for again after an interruption, by then with another tree, parent
or time, is recorded only if what is stored is what is asked for.
`LoneSuccessIsReal`: a recorded success is that of a finished command, or of the file as it was asked for.
`LoneInterruptionsAreSurvived`: a work unit that is requested again by one process ends recorded.
`RunningWorkIsKnown`: a running worker is the one the server would stop. `IdleMissionCanStart`: no stale entry
answers 409 for a mission nobody works on. `StoppedPreviewsAreDead`: no process is left of a session
that is recorded as stopped. `DeliveredPreviewIsLeft`: a mission succeeds on its newest session, and its preview runs, unless its own
worker was told to stop while it waited for the health observation. `StopIsAnswered`, `StoppedWorkersExit`: whatever the worker does, the request ends and so does the worker.
`CallsAreAccounted`: the Ledger knows of each call a provider received and tells them apart. `OutcomeIsBacked` (of the
gateway): the outcome in the Ledger is the one in evidence, also when two processes came to different ends.
`SuccessWasAnswered`: a success names a route that was called and did not fail. `FailureIsEarned`: a request fails only
when its attempts are spent or no route is left.
`DeliveryWasObserved`: what goes to verification is the checkpoint from which a browser check proved the workflows,
without the data that check left; and the build the browser saw, and the one the certified preview serves, were made of that source where no worker
died and no design correction was taken back. `RepairsAreBudgeted`: the calls bought, and the proposals paid for, keep to
the budgets over all workers. `ExecutionEnds`: as long as workers are started, `execute` comes to an end.
`ChargesAreAsked`: no more calls than requests of the customer, however often the server restarts. `ContractedOnOneDraft`: the obligations
and the approved contract of a mission are of the same draft, its blueprint is the approved one if any was approved, and a draft that ends with the plan
it began with is of that plan throughout. `PlansHonourEveryAnswer`: a plan takes in everything said,
chosen and recorded before it, also by requests that failed. `RequestIsAnswered`: again and again there is something
the customer can act on. `OnlyTheftDamages`: the registry is readable unless a record was cut short or a lock
was lost. `RecordsAreFacts`: what it says of a mission is in that mission's Ledger and was observed, at the same time.
`ReadyIsSelected`: a mission is provisioned on its own selection, which followed its own check. `OnlyTheCrossedAreLeft`:
a mission whose setup cannot succeed any more met another worker or a fault.

Some properties hold only without certain faults or races, and history variables say so instead of a
run of their own: `crossed`, `blind`, `forgotten`, `cut`, `stolen` and `undone` are described above. `happened` (`WorkspaceStore`) is the set of the kinds of faults so far: a crash
or a rename or removal that keeps failing may leave the tree and the Ledger apart, refused facts and torn writes
may not. `lost` (`WorkUnit`) says that a process died
in a window from which the engine does not recover: inside the write of evidence, between two
steps that need the same reading of the clock (`Recoverable` lists the other places), or in a
recovery that has stored its evidence. None of these variables occurs in a guard.

Two clients are enough for the races of `MissionLedger`: a request that was overtaken cannot
tell by whom; three rounds let an old verdict or an admission that was already acted on meet a new round; three checkpoints
let a chain fork below and above a floor. Three faults of a work unit let a recovery be
interrupted, and its recovery again. In `MCMissionLedger` a behaviour has one of two scopes (`scope`): the contract, verdicts and repairs of a mission
with two checkpoints, or the restores, verified marks, release and deletion of its workspace in one round; both include
provisioning, checkpoints and transitions. What a verdict says and where the tree stands meet in no guard, and together they
have more states than are worth it; the theorems do not make the distinction. In `MCWorkUnit` (`lone`) a behaviour
has one caller and three faults, or two callers and one. `CHECK_DEADLOCK FALSE` stands where the system really stops: a mission
in a terminal state, a workspace that is released, a unit that is recorded, a bounded number
of edits or faults that is used up.

In `ledger_file` three processes are a writer that dies, one that takes its lock over, and one beside it, which is what it takes for the second to
remove a lock it has not looked at; two faults are a cut write and a death. Three records are a cut one, one that runs into it and one that follows.
Two workers of `workers` are the one the server knows and the one it has forgotten; a third meets nothing
the second does not. `stops` has one worker, since liveness over the two million
states of `workers` is too much, and two requests, since what can go wrong there is the second request or a deletion
during a stop. In `gateway` either one process makes both requests (one before, one after provisioning) or two workers make the same; two
models of one provider and a third of another let failover stay with a provider and leave it; one earlier
attempt shows that attempts are numbered across tries. In `production` three tries of a command
stand for the seven of the code: the first, one that follows a repair and the last; each policy
mends one thing, because kinds of repairs meet only in their budgets and in the round they share, and the
policy with both a behaviour and a design correction is that of `stale_build`. One death is enough for a resumed worker that meets the traces
of the first. In `understanding` the second request is the one that overtakes, follows or repeats the first, and the second plan
the one that comes while the first is contracted; two workers are one the server knows and one it forgot. Two missions of
`toolchain` meet in the registry and two workers may be of one mission or of two; three readings tell a record that is earlier,
the same or later; the second fault meets what the first left.

Fairness. Five modules need some. `LedgerFile`: `appendRecord` is synchronous, so a process
that began runs on, and a process that runs appends again (weak fairness of its steps). `WorkUnit`: a request whose outcome is not
recorded is made again, which the work loop of the production mission does: weak fairness of
each caller's steps. `MissionWorkers` (`stops`): weak fairness of `System`, the steps of workers and server
together: every wait of `execute`, of the server and of IPC has a time limit, and a behaviour has finitely many
such steps, so none of them needs fairness of its own; nothing makes a customer act or a dead server return.
`Production`: weak fairness of `Progress`, which includes starting a worker for a mission
that is EXECUTING; the server's recovery does that at start-up, and the customer may. `Understanding`: weak fairness of
`ServerStep`: the event loop turns, and a provider that is called answers or times out; no customer, worker or start of a server
is fair. Nothing is fair about faults.

### Where the code does not do what it says

These runs are expected to end with a violation; `PROJECT.json` quotes the lines.

| run | property | what happens |
|---|---|---|
| `stale_build` | `PreviewServesItsSource` | the undo of a design correction keeps the build of the correction: the preview serves, and the mission may deliver, the application that was just taken back |
| `setup_resume` | `InterruptedObservationIsReused` | an interrupted setup leaves an observation with its own time; every retry has another and throws, so the mission stays CONTRACTED |

The models show more of this kind. Where the table says "without" an exception, the formula is the property named with that exception taken away; the
others are formulas of the modules. TLC refutes all within seconds with the
constants given; they have no run of their own, because the run would show one step that goes wrong and little else.

| formula | constants | what happens |
|---|---|---|
| `MissionLedger!LedgerStaysReplayable` | those of `ledger` | `src/README.md:51` says "Authoritative writes still perform complete evidence and checkpoint validation."; the deletion of a provisioned project appends, after validating the chain of records only, a fact that the authoritative replay refuses ever after (`mission-control.js:1740`) |
| `MissionLedger!RestoresRespectFloor` | those of `ledger` | a restore decided before another process verified a checkpoint lands below the new floor (`workspace-service.js:581`) |
| `LedgerFile!OneWriter` without `~crossed` | 3 processes, `MaxRecords = 2`, `MaxFailures = 1`, `WriteFaults = {}` | two processes find the same abandoned lock, and the second removes the one the first has just taken (`mission-control.js:469`) |
| `LedgerFile!DamageIsNeverWritten` | 2 processes, 3 records, 1 fault, `WriteFaults = {"unterminated"}` | `src/README.md:144` says "There is no mutable mission, contract, evidence, provider, or model snapshot that can supersede replayed authority."; a write is cut before its newline, the next line runs into it, and the cache of that process accepts the file it left (`mission-control.js:1419`): it goes on appending, and nobody else can read the Ledger |
| `LedgerFile!AbandonedLocksGo` (with its fair specification) | 2 processes, 1 record, 1 fault | an empty lock file blocks the mission for good (`mission-control.js:482`) |
| `WorkspaceStore!RestoreReproduces` | `Faults = {"remove"}`, 1 fault | a failing clean-up undoes a restore that is recorded (`workspace-service.js:637`) |
| `WorkUnit!UnitIsRecorded` (fair) | one caller, `Actions = {"file"}`, `CrashPlaces = {"observed"}`, 1 fault | after a crash between the evidence of a file action and its checkpoint, the retry has another timestamp than the evidence that is there |
| `MissionWorkers!EndedMissionsLeaveNoPreview` | 1 worker, 1 request, 1 session, no fault | a mission ends without success while a preview server runs on (`runtime-preview-service.js:900`) |
| `MissionWorkers!DeliveredPreviewIsLeft` without `cut` | 1 worker, 1 request, `MaxRounds = 1`, no fault | a stop is heard while the worker waits for the health observation: the preview is killed and recorded as crashed, and `execute` goes on beside the stop and succeeds (`mission-worker.mjs:88`) |
| `ModelGateway!SuccessHasOutput` | those of `gateway` | a request without an eligible route is recorded SUCCEEDED with no output (`model-gateway.js:964`, `:1242`) |
| `ModelGateway!CallsArePermitted` | those of `gateway` | the state of the mission is read once per request, and the second attempt is made after EXECUTING (`model-gateway.js:678`) |
| `Production!MendsWereTried` | those of `production` | a repair of a command that was bought by a worker that died is never applied, and the mission is given up for want of repairs (`production-mission-service.js:6491`) |
| `Production!DeliveryWasObserved` without `~p.undone` | those of `production` | the undo of a design correction keeps the build of it, which is observed next (see `stale_build`) |
| `Production!DeliveryWasObserved` without `faults = 0` | those of `production` | the scoped build of a resumed worker has the number of one a dead worker completed, and is taken for done (`production-mission-service.js:5409`): the browser sees the build of before the correction |
| `Understanding!ContractWasApproved` | those of `understanding` | the workers are opened without the option that asks for an approved blueprint (`project-understanding-service.js:3769`) |
| `Understanding!ContractedOnOnePlan` | those of `understanding`, either setting of `RequireBlueprintApproval` | a plan published between two reads of `contract()` gives the approved contract the workflows of one plan and the blueprint of the next (`project-understanding-service.js:3755-3759`); what `assertDecisionLedgerConsistency` compares (`approved-project-contract.js:160-247`) need not differ |
| `Understanding!ContractLeavesNoQuestion` | those of `understanding` | the questions of the profile are read before the rest of the plan, and a later plan with a question is contracted (`project-understanding-service.js:3755`) |
| `Understanding!BindingsAreOfContract` | those of `understanding` | a selection between the contract and EXECUTING gives the models bindings of a plan that is not the contracted one (`production-mission-service.js:5727`) |
| `Understanding!ContractsAreWhole` | those of `understanding` | a worker dies between the two contracts: `createContract` refuses every later one, and the mission can never be built (`project-understanding-service.js:3912`) |
| `Understanding!AppliedWasRead` | those of `understanding` | a message whose revision failed is shown as applied once a selection made a plan of that version |
| `Toolchain!RegistryStaysReadable` | 2 missions, 2 workers, `MaxTime = 4`, `MaxFaults = 0` | a worker takes a live one's lock that has no pid yet, both append, and no mission can read the registry again (`registry-store.js:582`) |
| `Toolchain!NobodyIsLeft` | the same | the record of another mission is later than the time read before the lock, the append throws (`registry-store.js:622`), and the retry meets its own observation of before |

And these were met while the modules were written; each is a behaviour of a module, or a matter it leaves out.

Ledger, store and work units:

* A blob or checkpoint record that was cut short is refused by every retry (`workspace-store.js:290`).
* A checkpoint that is asked for again after its record was stored is refused unless tree, parent and timestamp are those of before
  (`workspace-store.js:429`); the execution engine reads the clock anew where no start is recorded (next but one).
* A transient directory that cannot be renamed after the swap leaves the live tree at the backup's
  path (`workspace-store.js:524`): with `"rename"` among the faults it allows `TreeMatchesLedger` fails.
* A unit that dies after its pre-work checkpoint was stored and before its start was recorded meets a
  checkpoint with another timestamp (`execution-engine.js:457`), and a recovery that is interrupted cites its
  evidence twice (`execution-engine.js:857`): `CrashPlaces = {"preFact"}`, or `Actions = {"command"}`,
  `CrashPlaces = {"running", "post"}` and `MaxFaults = 2`, refute `UnitIsRecorded` too.
* The checkpoint that is delivered need not be the one the COMPLETE verdict judged
  (`mission-control.js:1479`): `VerdictIsOfDeliveredCheckpoint` is no invariant of `ledger`.
* With two callers `SuccessIsReal` fails (hence `lone` in `LoneSuccessIsReal`), since a recovering caller may take the
  post-work checkpoint before the first caller's command has ended.

Server and workers:

* The exit handler of a worker and the `finally` of a stop delete the mission's entry without asking whose it is
  (`server.mjs:270`): a second worker may then run unknown. This is one way to `forgotten`.
* The server may die and leave its worker running; the recovery of the next server starts a second one.
* An orderly shutdown sends the same `stop` a customer's cancellation does, so it may cancel missions for good.
* The evidence of `setupStack` carries the time of its check and the ids of stop and cancel evidence are fixed: a crash
  between the evidence and its fact leaves a mission in CONTRACTED for good, or makes every later stop throw.
* A verdict recorded by a worker that died before its transition makes the next verification throw, and the mission ends FAILED.
* REPAIRING is entered and never left by `execute`; a mission there is neither recovered nor startable.
* A worker whose mission is complete stays idle for its preview, and `start` answers 409 as long as it lives.
* A resumed worker stops earlier sessions only when a browser check had run since the last restore; otherwise
  the session of the dead worker stays up and recorded.
* The result of the `observeHealth` before the verdict is not consulted: a readiness record it does not leave is made up for by that of the start.

Before the build:

* An interrupted *revision* leaves no trace: the recovery looks for missions without any profile, and what a customer said last
  is recorded, but nothing says that it was not applied (`understanding-recovery.mjs:13`): `RequestIsAnswered` is about new requests only.
* Stop deletes the entry of a job that goes on (`server.mjs:1793`); the plan it comes back with is recorded in the
  cancelled mission, and when it ends it deletes whatever entry the mission then has (`server.mjs:231`).
* `approveBlueprint` asks for no state, and is refused once the workspace is provisioned, since its fact has no checkpoint.
* The finally clause of the registry removes whatever lock is there (`registry-store.js:681`), like that of the Ledger.

Gateway:

* A crash between the `.model` evidence of an outcome and its fact makes every retry pay all its attempts again
  and never record anything (`Conclude` leaves when evidence is there).
* A prototype or readback call that is overtaken by provisioning can never be recorded.
* The recorded attempt count includes the attempts of earlier tries and over-counts by one.
* A second process, whose index is older than the first's announcements, throws on its own announcement.
* An interrupted correction call is dispatched again: `executionRecoveryDecision` (`understanding-recovery.mjs:45-63`)
  asks only whether *any* generation call succeeded, and corrections are generation calls too
  (`production-mission-service.js:6180`), which is not what `server.mjs:1881` and `:1908` say of it.

Production:

* A repair that broke the build or was undone is replayed in the next round before the model is told of its failure (`production-mission-service.js:7567`).
* A correction is bought in the last round and never observed, since the guard that stops early does not look at the round (`:7418`).
* Rounds, time budget and the counters of stalled rounds start anew with each worker (`:7034`); a comment says one minute
  "across all rounds" (`:7052`).
* The undo of a design correction leaves no event an isolation looks for, so a resumed worker undoes the undo (`:6866`).
* A browser check that was interrupted is not in the list of completed ones, so what it left in the project stays (`:6855`):
  hence the exception in `DeliveryWasObserved`.
* With two rounds, an undone design correction ends EXHAUSTED although the behaviour had been proven.
* The command pipeline goes on after the seventh try whatever its result (`:6325`).

## What is proved

For any number of clients, processes, checkpoints, trees, actions and any bounds:

* `MissionLedgerProofs`. Type correctness, `CompletionEarned`, `ExecutionProvisioned`,
  `RoundsAdmitted`, `LineageVerified`, `OutcomeFinal` and `Refinement` (the Ledger implements
  `Mission`). The inductive invariant `IInv` has, beside the types and the safety properties
  themselves: *RequestsAreLegal* (what a client carries was decided by the service on some
  earlier state: needed because `append` relies on it where it does not check again),
  *CompleteStaysInRound* and *VerdictLagsContract* (a COMPLETE verdict is of the present round and of a
  version no later than the present one: without them the gate to SUCCEEDED would not say anything about
  the round), *RoundsHaveBegun* and *RoundsArePaid* (every verification round beyond the first
  has its own admission) and *WorkspaceIsWhole* (the current and the verified checkpoints are in the
  chain, parents precede children: what `VerifiedLineage` rests on).
* `StorageProofs`, `LedgerFile`. For any number of processes, deaths and cut writes, `OneWriter`, `AppendsAreSerial` and
  `DamageIsFrozen` (`OneAtATime`, `SerialAppends`, `DamageFrozen`). The inductive invariant *LockInv* says that as long as nobody `crossed`, who is
  between lock and unlock finds its own lock at the path (*Held*), and that what a process has read or cached for the file as it now is
  counts all its records (*Replayed*), with `blind` the only one that takes a damaged file for whole. `NobodyCrosses` says where the
  exception cannot occur: while nothing has failed, or with at most two processes that have no successors. Types hold under any faults (`FileTypes`).
* `StorageProofs`, `WorkspaceStore`. Whatever fails, the Ledger names only checkpoints that are whole on disk.
  The invariant adds *Published*: a publication at its fact has a whole blob and record of its own,
  at its record a whole blob; it never touches a checkpoint that is in the chain, and a whole
  blob stays whole. `FactsTellWhatIsThere` follows from the same invariant. *Placed* says where an operation has the live tree and the one it moved aside at each of its calls; with it a step
  loses the last copy of a tree only as `WorkIsOnlyDiscardedByAFact` allows. *Told* says that what the Ledger tells of is live, or
  aside until the fact is recorded, as long as facts are refused and writes cut short but nothing else fails: `TreeMatchesLedger`.
* `WorkUnitProofs`. The command is started at most once. The invariant adds *StartIsRecorded* (an
  attempt beyond its start has a start fact in the Ledger), *OneIsFresh* (at most one attempt may
  still spawn, and none once the command ran), and the typing of attempts and indexes. `OutcomeIsBacked` rests on *Sound*: an attempt
  carries the evidence of its result along, at each place as much of it as it has stored, and what is stored stays (*Kept*);
  *EvidenceIsOrdered* is for what a recovery infers from an index that is never refreshed. `LoneSuccessIsReal` (of `MCWorkUnit`, whose
  `lone` it is about) rests on *Settled*: from some place on nothing changes the tree, whoever dies, and a success
  and the checkpoint it names are of a settled tree (*AllIsDone*). It supposes the caller `First` to be one, as the run gives it.
* `ModelGatewayProofs`. For any callers, requests, routes, rankings and numbers of attempts and faults:
  `CallsAreAccounted`, `OutcomeIsBacked`, `SuccessWasAnswered`, `NoHopelessAttempt` and `FailureIsEarned`.
  An attempt belongs to the one process whose evidence took its number, and what the stores say of a number is
  its holder's doing. Beside the types the invariant therefore has *Ownership* (no two processes hold a number in common,
  and every fact has an announced number), *CallsGoWell* (where a call stands agrees with its locals, *Progress*, with what the
  stores say of its last attempt, *Accounted*, and with what earlier ones failed of, *Taught*), *OutcomesAreTrue* (an outcome
  about to be recorded is the one in evidence, and the attempt of a recorded success is *Settled*), and *CallsAreTyped* and
  *Finite* (the locals of a call that is under way, and that attempts can be counted).
* `UnderstandingProofs`. `ChargesAreAsked`, `ContractedOnOneDraft` and `PlansHonourEveryAnswer`, for any messages, workers,
  deaths and either setting of the approval option. The first needs *ChargesAreCovered*: a request that is still to be dispatched (*Owed*) is one
  the customer made and was not charged for, which a restart preserves because it starts a job only where nothing was dispatched. The
  second needs *OneDeal*: what is contracted is agreed between the records (*Deal*) and what each worker holds in
  its hands (*Holds*): only the worker that recorded the contract can be about to approve it, and with the same draft. What a draft may be is *Whole*: its
  parts were read one after the other, so none is of an earlier plan than the one before (*InOrder*, kept by *WorkersHavePlans* while plans are
  published), and its blueprint is the approved one where it has to be. The third needs *KnowsAll*: a
  running job or selection already knows all that is recorded, because the server is *Attentive* to nothing else in between.
* `ToolchainProofs`. `RecordsAreFacts` and `ReadyIsSelected`, for any missions and workers, whatever is stolen, cut or
  refused. Of these two nothing is said of the lock, and nothing needs to be. The invariant says what a worker carries: where it is about to append, its fact and
  observation are there (*Backed*), where it has appended, its record is there (*Found*), and times are readings of
  the clock (*Dated*, *RecordsAreDated*); *SelectionsFollowChecks* is what `ReadyIsSelected` rests on. All of it is stable because
  facts, observations and records are never taken back (*Kept*). `OnlyTheftDamages` is about the lock: while nobody was robbed, who
  is past taking it has it and appends to just what it read (*LockProtects*). `OnlyTheCrossedAreLeft` rests on *OneByOne*: of workers that
  come one after the other and meet no fault, each finds the lock free, the records of its mission undone from where
  it is on, and the file without damage, so that no check it makes fails (*Smooth*).
* `MissionWorkersProofs`. All invariants of `workers` and `DeliveredPreviewIsLeft`, for any number of workers, callers and faults, in
  three layers, each inductive over those below. *Typed*: a process has no preview but that of the session it is at, and every number
  it goes by is that of a recorded session. *WorkIsKnown*: unless `forgotten`, who runs is the entry's child, has a channel, and left neither
  an error nor an exit in its job; so nobody is spawned beside it, and the server stops no preview itself while it
  runs. *PreviewsAreSafe*: who is alone is at the newest session, its own, so nobody records a stop of a process somebody else uses, and at the
  verdict its preview runs unless it killed it itself on a stop it was sent (`cut`). A
  mission left in VERIFYING by a worker that died needs a clause of its own (*VerifiedIsUp*): who comes to it has no session
  and does nothing before it concludes.
* `ProductionProofs`. `TypeOK`, `DeliveryWasObserved` and `RepairsAreBudgeted`, for any pipeline, budgets, numbers of attempts, aspects
  and deaths. *Typed* relates the place of a worker in `execute` to what dead workers recorded before it (*Stands*: it goes by a procedure
  of the pipeline, a call that was bought, a check that was made), and numbers previews: no unit of a check has the number of a
  preview still to be observed, so a resumed worker never takes an earlier worker's check for its own (*CheckIsNew*), although it does
  take commands and files for done by such names. `DeliveryWasObserved` has two halves. That of the checkpoint
  rests on *ChecksAreClean* (checks start from a tree without data, unless one
  was cut short, and leave the source), *TreeIsClean* (what the last check left may be in the tree only before the next preview, and as long as its
  restore is not recorded) and *Watched* (who corrects, finishes or certifies stands on the tree its observation was made of, and for
  a design correction or a certification the behaviour was proven there). Kept and missing builds, replayed and rejected proposals need no clause there: none of
  them moves the source. That of the build is about a first worker that took no correction back (*Calm*): no unit it makes is found begun or done
  (*Fresh*), so every build it needs is made, and *Served* says of which source the build is at each place. `RepairsAreBudgeted` is inductive over *Typed* as it stands. A consequence is `CertificationPasses`: the
  comparison of checkpoints in `captureBrowserVerification` never fails a mission at the very end, because the newest preview was started on the tree of
  the observation (*NewestPreview*). It is stated for this model, in which nobody else edits the tree.

The assumptions on constants are those the modules name. Three of them were made explicit for the proofs: in `WorkUnit` a torn
record is no finding and "no record" is neither a checkpoint nor an index, in `WorkspaceStore` "none" and "torn" are no
records (`UnitAssumption`, `StoreAssumption`). They only say that what the code tells apart (absent, unreadable, present) is
told apart; in the runs these are distinct model values.

Only model-checked:

* liveness, which is out of the prover's reach: `StampedLocksGo`, `LoneInterruptionsAreSurvived`,
  `StopIsAnswered`, `StoppedWorkersExit`, `ExecutionEnds`, `RequestIsAnswered`. Every invariant and every action property that a passing run
  checks is stated by a theorem.

## The order of the work

The most important first: `MissionLifecycle`, `WorkspaceFacts`, `Mission`, `MissionLedger`; `LedgerFile`; `WorkspaceStore`;
`WorkUnit`; `RuntimePreview`, `MissionWorkers`; `ModelGateway`; `Production`; `Understanding`; `Toolchain`; each with its runs and,
its proof. What would be next in this order: the concept jobs of the server. `LedgerFile` and `WorkspaceStore` share a module of
proofs, which is why the specification of the one is called `FileSpec`.

## Not modelled

* *Diagnosis and repair strategist, internally.* Its admissions, findings and blocks are facts of `MissionLedger`;
  how a strategy is chosen is not, and `execute` does not call it: its repairs are those of `Production`.
* *How a verdict is computed.* Either verdict is possible in each round.
* *What models are asked and what is made of the answers.* Prompts, schemas, heuristics on text and the shaping of plans: most of the lines of
  `project-understanding-service.js` and `production-mission-service.js`. A plan, a bundle and a repair are arbitrary here.
* *Prototypes and concepts.* Generation and rendering of drafts, in one process and before anything of the mission depends on them.
* *The AI registry and certification.* The server alone appends to the first, one refresh at a time, under the lock `Toolchain` models;
  no part of the program changes a certification.
* *Web client.* A user interface: selection, validation and formatting of what the local API returns.
* *Documents, artifacts and certification scripts.* Not part of the running system.
* *Path confinement, redaction, hashing, response schemas, prompts, ports and HTTP.* Functions of data that the
  models abstract from. Hashes are taken to be injective, clocks to advance.
* *The power failure of the machine.* A process dies with its last completed system call on disk; files are not lost or reordered.
