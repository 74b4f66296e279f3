---------------------------- MODULE MissionWorkers ----------------------------
(***************************************************************************)
(* Who works on a mission: the local API (apps/web/local-api/server.mjs),  *)
(* the worker processes it spawns (mission-worker.mjs), the production     *)
(* service they run, at the grain of the mission's states and of the       *)
(* preview servers, and the ledger they share.                             *)
(*                                                                         *)
(* One mission.  A worker is one process; `Workers` are the spawns of a    *)
(* behaviour.  JavaScript runs to the next await, so a step of a worker is *)
(* one stretch of `execute` between two waits, and a message of the server *)
(* is heard only while it waits.  A crash can cut a stretch at each record *)
(* it leaves (DiesAtBoot, DiesBetween).                                    *)
(***************************************************************************)
EXTENDS MissionLifecycle, RuntimePreview

CONSTANTS
  Workers,    \* the worker processes that may be spawned
  Callers,    \* stop and delete requests, one each
  MaxRounds,  \* sessions after which no further round of the browser loop is begun
  MaxFaults,  \* bound on crashes, signals, shutdowns and waits that run out
  NoWorker,   \* the mission has no entry in activeJobs
  NoChild     \* its entry has no child: { child: null, error }

ASSUME WorkersAssumption ==
  /\ IsFiniteSet(Workers)
  /\ {NoWorker, NoChild} \intersect Workers = {} /\ NoWorker # NoChild
  /\ MaxRounds \in Nat \ {0} /\ MaxFaults \in Nat

VARIABLES
  mission,      \* the recorded state
  environment,  \* the evidence of the environment check is captured
  provisioned,  \* the workspace of the mission is recorded
  generation,   \* the generation call: "none", "dispatched" or "answered"
  observed,     \* a browser check ran and the workspace was not restored since
  verdict,      \* "none", "COMPLETE" or "INCOMPLETE"
  deleted,      \* a deletion is recorded
  worker,       \* the processes: run, control, session, target, certifying, inbox, outbox
  server,       \* "up", "closing" or "down"
  linked,       \* workers with an IPC channel to the server
  active,       \* activeJobs.get(missionId): a worker, NoChild or NoWorker
  job,          \* the job object of each worker: error, completed, exited
  call,         \* the stop and delete requests: op, pc, child
  faults,       \* faults so far
  forgotten,    \* history: the server dropped or lost a worker it had not seen exit
  cut           \* history: the sessions whose own worker killed them when it was told to stop

ledgerVars == <<mission, environment, provisioned, generation, observed, verdict, deleted>>
serverVars == <<server, linked, active, job, call>>
historyVars == <<faults, forgotten, cut>>
vars == <<ledgerVars, previewVars, worker, serverVars, historyVars>>

(***************************************************************************)
(* The processes.                                                          *)
(***************************************************************************)

\* Where execute waits, and the three points where it does not: the start of
\* the process, the catch block and the end.
Awaiting == { "answering", "build", "launch", "probing", "observe", "halting",
              "health", "idle", "stopping" }
RunPoints == Awaiting \union { "unborn", "boot", "failing", "dead" }

Unborn == [run |-> "unborn", control |-> "none", session |-> 0, target |-> 0,
           certifying |-> FALSE, inbox |-> << >>, outbox |-> "none"]

Live(w) == worker[w].run \notin { "unborn", "dead" }
At(w, point) == worker[w].run = point
Goto(w, point) == worker' = [worker EXCEPT ![w].run = point]

\* The process is gone; what it sent may still be on its way.
Exit(w, sent) == worker' = [worker EXCEPT ![w] = [Unborn EXCEPT !.run = "dead", !.outbox = sent]]

\* Deleting a provisioned mission leaves a ledger authoritative replay refuses
\* (MissionLedger, LedgerStaysReplayable): every read and write of a service throws.
Replayable == ~(deleted /\ provisioned)

\* Production steps require EXECUTING.
Executing == Replayable /\ mission = "EXECUTING"

\* orchestrator.transition.
Transition(to) == /\ IsLegalTransition(mission, to)
                  /\ mission' = to

\* A fault of the environment; their number is bounded.
Fault == /\ faults < MaxFaults
         /\ faults' = faults + 1

NewJob == [error |-> FALSE, completed |-> FALSE, exited |-> FALSE]

Init == /\ PreviewInit
        /\ mission = "INTAKE" /\ environment = FALSE /\ provisioned = FALSE
        /\ generation = "none" /\ observed = FALSE /\ verdict = "none"
        /\ deleted = FALSE
        /\ worker = [w \in Workers |-> Unborn]
        /\ server = "up" /\ linked = {} /\ active = NoWorker
        /\ job = [w \in Workers |-> NewJob]
        /\ call = [c \in Callers |-> [op |-> "none", pc |-> "idle", child |-> NoWorker]]
        /\ faults = 0 /\ forgotten = FALSE /\ cut = {}

(***************************************************************************)
(* execute, production-mission-service.js.  A stretch whose ledger         *)
(* operation is refused throws, and the worker goes to its catch block.    *)
(***************************************************************************)

\* The generation request: recorded as started before it is dispatched, only in
\* EXECUTING; a recorded answer is replayed.
Request(w) == IF generation = "answered"
              THEN Goto(w, "build") /\ UNCHANGED generation
              ELSE generation' = "dispatched" /\ Goto(w, "answering")

\* The evidence of the environment check carries the time of the check, so a
\* second check never matches the first: setupStack throws.
CanSetUp == mission \in { "INTAKE", "CONTRACTED" } /\ ~environment /\ Replayable

\* From INTAKE or CONTRACTED: contract (which refuses a mission without an
\* approved plan), setupStack, PROVISIONING, provisionWorkspace, EXECUTING and
\* the generation request, in one stretch.
BootFresh(w) ==
  /\ At(w, "boot") /\ CanSetUp
  /\ mission' = "EXECUTING"
  /\ environment' = TRUE /\ provisioned' = TRUE
  /\ Request(w)
  /\ UNCHANGED <<observed, verdict, deleted, previewVars, serverVars, historyVars>>

OpenSessions == { n \in DOMAIN sessions : sessions[n].status # "stopped" }

\* Resuming.  A browser check that no restore followed: the open sessions are stopped
\* by their recorded pids, under ids of their own.
CanIsolate == \A n \in OpenSessions : <<"isolate", n>> \notin evidence

BootResume(w) ==
  /\ At(w, "boot") /\ Executing
  /\ observed => CanIsolate
  /\ observed' = FALSE
  /\ IF observed /\ OpenSessions # {}
     THEN /\ alive' = alive \ { Pid(n) : n \in OpenSessions }
          /\ evidence' = evidence \union { <<"isolate", n>> : n \in OpenSessions }
          /\ sessions' = [n \in DOMAIN sessions |-> [sessions[n] EXCEPT !.status = "stopped"]]
          /\ last' \in { n \in OpenSessions : \A m \in OpenSessions : m <= n }
     ELSE UNCHANGED previewVars
  /\ Request(w)
  /\ UNCHANGED <<mission, environment, provisioned, verdict, deleted, serverVars, historyVars>>

\* The verdict has one event id and is recorded once; the transition it asks
\* for follows.  execute returns and the worker sends "completed": on a closed
\* channel that send is an uncaught error.
Conclude(w) ==
  /\ verdict = "none" /\ last # 0
  /\ verdict' \in { "COMPLETE", "INCOMPLETE" }
  /\ mission' = IF verdict' = "COMPLETE" THEN "SUCCEEDED" ELSE "REPAIRING"
  /\ IF w \in linked
     THEN worker' = [worker EXCEPT ![w].run = "idle", ![w].outbox = "completed"]
     ELSE Exit(w, "none")

\* VERIFYING is taken up at finishVerification.
BootVerify(w) ==
  /\ At(w, "boot") /\ Replayable /\ mission = "VERIFYING"
  /\ Conclude(w)
  /\ UNCHANGED <<environment, provisioned, generation, observed, deleted, previewVars,
                 serverVars, historyVars>>

\* What refuses the first stretch: the state, the check or verdict that is
\* recorded already, the plan that was not approved.
BootThrows(w) ==
  /\ At(w, "boot")
  /\ \/ mission = "INTAKE"
     \/ /\ ~CanSetUp
        /\ ~(Executing /\ (observed => CanIsolate))
        /\ ~(Replayable /\ mission = "VERIFYING" /\ verdict = "none")
  /\ Goto(w, "failing")
  /\ UNCHANGED <<ledgerVars, previewVars, serverVars, historyVars>>

\* The provider answers.
Answer(w) ==
  /\ At(w, "answering") /\ Replayable
  /\ generation' = "answered"
  /\ Goto(w, "build")
  /\ UNCHANGED <<mission, environment, provisioned, observed, verdict, deleted,
                 previewVars, serverVars, historyVars>>

\* The command pipeline: built, or out of attempts, which is a transition of its
\* own and then an exception.
Build(w) ==
  /\ At(w, "build") /\ Executing
  /\ \/ Goto(w, "launch") /\ UNCHANGED mission
     \/ /\ \E to \in { "FAILED", "EXHAUSTED" } : Transition(to)
        /\ Goto(w, "failing")
  /\ UNCHANGED <<environment, provisioned, generation, observed, verdict, deleted,
                 previewVars, serverVars, historyVars>>

\* startRuntime and runtime.start up to the wait for an answer.
Launch(w) ==
  /\ At(w, "launch") /\ Executing
  /\ Spawn(w)
  /\ worker' = [worker EXCEPT ![w].run = "probing", ![w].session = NextSession]
  /\ UNCHANGED <<ledgerVars, serverVars, historyVars>>

\* The preview answered or did not.  Nothing is recorded when the evidence is a
\* duplicate, and a preview that answered goes on running then.
Probe(w) ==
  /\ At(w, "probing")
  /\ LET n == worker[w].session
     IN \E ready \in BOOLEAN :
          IF StartIsDuplicate(n) \/ ~Replayable
          THEN /\ alive' = IF ready THEN alive ELSE alive \ { <<w, n>> }
               /\ UNCHANGED <<sessions, last, evidence>>
               /\ Goto(w, "failing")
          ELSE /\ Started(w, n, ready)
               /\ Goto(w, IF ~ready THEN "failing"
                          ELSE IF worker[w].certifying THEN "health" ELSE "observe")
  /\ UNCHANGED <<ledgerVars, serverVars, historyVars>>

\* One round of the browser loop: passed or to be corrected, the preview is
\* killed and awaited; or the attempts are exhausted.
Observe(w) ==
  /\ At(w, "observe") /\ Executing
  /\ observed' = TRUE
  /\ \/ /\ alive' = alive \ { <<w, worker[w].session>> }
        /\ \/ worker' = [worker EXCEPT ![w].run = "halting", ![w].certifying = TRUE]
           \/ Len(sessions) < MaxRounds /\ Goto(w, "halting")
        /\ UNCHANGED mission
     \/ /\ Transition("EXHAUSTED")
        /\ Goto(w, "failing")
        /\ UNCHANGED alive
  /\ UNCHANGED <<environment, provisioned, generation, verdict, deleted,
                 sessions, last, evidence, serverVars, historyVars>>

\* The stop is recorded under an id of its own, the clean checkpoint restored.
Halted(w) ==
  /\ At(w, "halting") /\ Replayable
  /\ StopRecorded(worker[w].session)
  /\ observed' = FALSE
  /\ worker' = [worker EXCEPT ![w].run = "launch", ![w].session = 0]
  /\ UNCHANGED <<mission, environment, provisioned, generation, verdict, deleted,
                 alive, evidence, serverVars, historyVars>>

\* captureBrowserVerification, which reads what the browser saw before, and
\* observeHealth on the clean preview, VERIFYING, the verdict.  What the health
\* observation says is recorded and not consulted: a missing readiness record is
\* made up for by that of the start.
Health(w) ==
  /\ At(w, "health") /\ Executing
  /\ HealthRecorded(worker[w].session)
  /\ Conclude(w)
  /\ UNCHANGED <<environment, provisioned, generation, observed, deleted,
                 alive, evidence, serverVars, historyVars>>

\* A wait that ends in an exception, and a stretch that is refused.
Throw(w) ==
  /\ \/ worker[w].run \in { "answering", "build", "launch", "observe" }
     \/ worker[w].run = "halting" /\ ~Replayable
     \/ worker[w].run = "health" /\ ~Executing
  /\ Goto(w, "failing")
  /\ UNCHANGED <<ledgerVars, previewVars, serverVars, historyVars>>

(***************************************************************************)
(* The rest of mission-worker.mjs: failure, and the server's messages.     *)
(***************************************************************************)

\* production.stop of the newest session when its process is not the caller's
\* own child: kill by the recorded pid, evidence, fact, without an await.
StopLast == IF ToStop = {}
            THEN UNCHANGED previewVars
            ELSE alive' = Killed(last) /\ FixedStop(last)

\* The caller has to wait for its own preview to disappear first.
MustWait(w) == Replayable /\ ToStop # {} /\ OwnPreview(w, last)

\* The states in which a failed worker leaves the mission.
NotMarked == TerminalStates \union { "INTAKE", "CLARIFYING", "CONTRACTED" }

\* FAILED, unless the state forbids it (REPAIRING wants a finding first).
MarkFailed == mission' = IF mission \in NotMarked \/ ~IsLegalTransition(mission, "FAILED")
                            \/ mission = "REPAIRING"
                         THEN mission ELSE "FAILED"

\* "failed" is sent and the process exits.
SendAndExit(w) == Exit(w, IF w \in linked THEN "failed" ELSE "none")

\* The catch block: from the exception to the exit nothing yields, unless the
\* preview to stop is the worker's own.
Fail(w) ==
  /\ At(w, "failing")
  /\ \/ /\ MustWait(w)
        /\ alive' = alive \ { <<w, last>> }
        /\ Goto(w, "stopping")
        /\ UNCHANGED <<mission, sessions, last, evidence>>
     \/ /\ ~MustWait(w)
        /\ IF Replayable THEN StopLast /\ MarkFailed
                        ELSE UNCHANGED <<previewVars, mission>>
        /\ SendAndExit(w)
  /\ UNCHANGED <<environment, provisioned, generation, observed, verdict, deleted,
                 serverVars, historyVars>>

FailAfterStop(w) ==
  /\ At(w, "stopping")
  /\ IF Replayable THEN FixedStop(worker[w].session) /\ MarkFailed
                  ELSE UNCHANGED <<sessions, last, evidence, mission>>
  /\ SendAndExit(w)
  /\ UNCHANGED <<environment, provisioned, generation, observed, verdict, deleted,
                 alive, serverVars, historyVars>>

\* Where cancel ("stop") or production.stop ("shutdown") leaves the mission,
\* `threw` when the runtime's stop threw.  The exception is swallowed.
Cancelled(op, threw) ==
  mission' = IF op = "stop" /\ ~threw /\ ~IsTerminal(mission) THEN "CANCELLED" ELSE mission

\* The calls that return before they touch the runtime.
NothingToStop(op) == ~Replayable \/ (op = "stop" /\ IsTerminal(mission))

\* cancel or production.stop, run through without an await.
StopAtOnce(op) ==
  IF NothingToStop(op)
  THEN UNCHANGED <<previewVars, mission>>
  ELSE StopLast /\ Cancelled(op, ToStop # {} /\ StopIsDuplicate(last))

\* The first message is acted on, `stopping` refuses the others; exit(0).
Hear(w) ==
  /\ worker[w].run \in Awaiting /\ worker[w].inbox # << >>
  /\ LET op   == Head(worker[w].inbox)
         rest == [worker EXCEPT ![w].inbox = Tail(@)]
     IN CASE worker[w].control # "none" ->
               worker' = rest /\ UNCHANGED <<mission, previewVars, cut>>
          [] worker[w].control = "none" /\ MustWait(w) /\ ~NothingToStop(op) ->
               /\ alive' = alive \ { <<w, last>> }
               /\ cut' = cut \union {last}
               /\ worker' = [rest EXCEPT ![w].control = op, ![w].target = last]
               /\ UNCHANGED <<mission, sessions, last, evidence>>
          [] OTHER ->
               /\ StopAtOnce(op)
               /\ Exit(w, worker[w].outbox)
               /\ UNCHANGED cut
  /\ UNCHANGED <<environment, provisioned, generation, observed, verdict, deleted,
                 serverVars, faults, forgotten>>

\* Mutant: the session is stopped and the process goes on.
HearsAndStays(w) ==
  /\ worker[w].control # "none" /\ worker[w].run \in Awaiting
  /\ worker' = [worker EXCEPT ![w].control = "none", ![w].target = 0]
  /\ UNCHANGED <<ledgerVars, previewVars, serverVars, historyVars>>

\* The wait is over.  The session that is recorded as stopped is the one that
\* was killed, whatever execute started meanwhile.
HearOn(w) ==
  /\ worker[w].control # "none" /\ worker[w].run \in Awaiting
  /\ LET n == worker[w].target
     IN IF Replayable
        THEN FixedStop(n) /\ Cancelled(worker[w].control, StopIsDuplicate(n))
        ELSE UNCHANGED <<sessions, last, evidence, mission>>
  /\ Exit(w, worker[w].outbox)
  /\ UNCHANGED <<environment, provisioned, generation, observed, verdict, deleted,
                 alive, serverVars, historyVars>>

(***************************************************************************)
(* The local API.                                                          *)
(***************************************************************************)

\* Mutant: a worker that has completed does not block, alive as it is.
BlocksUntilCompleted == active \in Workers /\ ~job[active].error /\ ~job[active].completed

\* An entry of activeJobs that makes the start route answer 409.
Blocks == active \in Workers /\ ~job[active].error

\* The server can talk to the child of the entry.
Reachable == active \in linked /\ ~job[active].exited

\* startMissionWorker.
Spawned(w) == /\ At(w, "unborn")
              /\ Goto(w, "boot")
              /\ linked' = linked \union {w}
              /\ active' = w

\* POST /missions/:id/start.
Start(w) == /\ server # "down"
            /\ ~Blocks
            /\ Spawned(w)
            /\ UNCHANGED <<ledgerVars, previewVars, server, job, call, historyVars>>

\* An entry is removed: activeJobs.delete(missionId).  The history variable
\* says whether the entry named a worker whose exit the server has not seen.
Drop == /\ active' = NoWorker
        /\ forgotten' = (forgotten \/ (active \in Workers /\ ~job[active].exited))

\* A call is answered, or its connection lost.
Answered == [op |-> "none", pc |-> "answered", child |-> NoWorker]

\* recordProjectDeletion, after stopMissionWork.
Deleting(ops) == deleted' = (deleted \/ "delete" \in ops)

\* Mutant: the stop route does not ask for a cancel.
AlwaysShutdown(op) == "shutdown"

\* The message of a request: the stop route cancels, a deletion does not.
Message(op) == IF op = "cancel" THEN "stop" ELSE "shutdown"

\* stopMissionWork, called by the stop route (cancel) and by deleteProject,
\* which answers at once when a deletion is recorded.  With a child to talk to
\* a message is sent; without, the server does the work itself.
Stop(c, op) ==
  /\ server # "down" /\ call[c].pc = "idle"
  /\ op = "delete" => ~deleted
  /\ IF Reachable
     THEN /\ worker' = [worker EXCEPT ![active].inbox = Append(@, Message(op))]
          /\ call' = [call EXCEPT ![c] = [op |-> op, pc |-> "sending", child |-> active]]
          /\ UNCHANGED <<mission, deleted, previewVars, active, forgotten>>
     ELSE /\ StopAtOnce(Message(op))
          /\ Drop
          /\ Deleting({op})
          /\ call' = [call EXCEPT ![c] = Answered]
          /\ UNCHANGED worker
  /\ UNCHANGED <<environment, provisioned, generation, observed, verdict,
                 server, linked, job, faults, cut>>

\* The callback of child.send; only now does the call listen for the exit.
Sent(c) == /\ server # "down" /\ call[c].pc = "sending"
           /\ call' = [call EXCEPT ![c].pc = "waiting"]
           /\ UNCHANGED <<ledgerVars, previewVars, worker, server, linked, active, job,
                          historyVars>>

\* "completed" and "failed" reach the server.
Heard(w) ==
  /\ server # "down" /\ w \in linked /\ worker[w].outbox # "none"
  /\ job' = [job EXCEPT ![w].error = @ \/ worker[w].outbox = "failed",
                        ![w].completed = @ \/ worker[w].outbox = "completed"]
  /\ worker' = [worker EXCEPT ![w].outbox = "none"]
  /\ UNCHANGED <<ledgerVars, previewVars, server, linked, active, call, historyVars>>

\* The calls that listen for the exit of w.
Listening(w) == { c \in Callers : call[c].pc = "waiting" /\ call[c].child = w }

\* Mutant: an exit without "completed" or "failed" leaves no error.
SilentExit(w) == [job EXCEPT ![w].exited = TRUE]

\* The job's own exit handler: a worker that had not completed has failed.
JobAfterExit(w) == [job EXCEPT ![w].exited = TRUE, ![w].error = @ \/ ~job[w].completed]

\* The exit event: the job's own handler, then every call that listens for it,
\* to its end.
Exited(w) ==
  /\ server # "down" /\ w \in linked /\ At(w, "dead") /\ ~job[w].exited
  /\ worker[w].outbox = "none"
  /\ job' = JobAfterExit(w)
  /\ IF job[w].completed \/ Listening(w) # {}
     THEN active' = NoWorker /\ forgotten' = (forgotten \/ active \in Workers \ {w})
     ELSE UNCHANGED <<active, forgotten>>
  /\ call' = [c \in Callers |-> IF c \in Listening(w) THEN Answered ELSE call[c]]
  /\ Deleting({ call[c].op : c \in Listening(w) })
  /\ UNCHANGED <<mission, environment, provisioned, generation, observed, verdict,
                 previewVars, worker, server, linked, faults, cut>>

\* Mutant: the exit is awaited without a limit.
NeverGivesUp(c) == FALSE /\ UNCHANGED vars

\* Ten seconds without the exit event: it came before the call listened, or the
\* worker is still at work (counted as a fault, to bound it).
GaveUp(c) ==
  /\ server # "down" /\ call[c].pc = "waiting"
  /\ IF Live(call[c].child) THEN Fault ELSE UNCHANGED faults
  /\ Drop
  /\ Deleting({call[c].op})
  /\ call' = [call EXCEPT ![c] = Answered]
  /\ UNCHANGED <<mission, environment, provisioned, generation, observed, verdict,
                 previewVars, worker, server, linked, job, cut>>

\* SIGINT, SIGTERM: the entry's worker is asked to cancel, ...
Shutdown ==
  /\ Fault
  /\ server = "up"
  /\ server' = "closing"
  /\ worker' = IF active \in linked
               THEN [worker EXCEPT ![active].inbox = Append(@, "stop")] ELSE worker
  /\ UNCHANGED <<ledgerVars, previewVars, linked, active, job, call, forgotten, cut>>

\* The process is gone, and with it its channels, jobs and calls.
ServerGone == /\ server' = "down"
              /\ linked' = {}
              /\ active' = NoWorker
              /\ job' = [w \in Workers |-> NewJob]
              /\ call' = [c \in Callers |-> IF call[c].pc = "idle" THEN call[c] ELSE Answered]

\* ... and, once the prototype previews are stopped, killed: a worker leads no
\* process group, so terminateProcessTree kills it and not its preview.
Closed ==
  /\ server = "closing"
  /\ ServerGone
  /\ worker' = IF active \in Workers
               THEN [worker EXCEPT ![active] = [Unborn EXCEPT !.run = "dead"]]
               ELSE worker
  /\ forgotten' = (forgotten \/ \E w \in Workers : worker'[w].run \notin { "unborn", "dead" })
  /\ UNCHANGED <<ledgerVars, previewVars, faults, cut>>

\* The recovery at start-up, with executionRecoveryDecision.
Recovers == ~deleted /\ mission \in { "EXECUTING", "VERIFYING" }
Interrupted == generation = "dispatched"

Restart ==
  /\ server = "down"
  /\ server' = "up"
  /\ IF Recovers /\ ~Interrupted
     THEN \E w \in Workers : Spawned(w)
     ELSE /\ active' = IF Recovers THEN NoChild ELSE NoWorker
          /\ UNCHANGED <<worker, linked>>
  /\ UNCHANGED <<ledgerVars, previewVars, job, call, historyVars>>

(***************************************************************************)
(* Faults: a process dies, or is told to end by the operating system.      *)
(***************************************************************************)

\* A worker dies; its preview lives on.
WorkerDies(w) ==
  /\ Fault
  /\ Live(w)
  /\ Exit(w, worker[w].outbox)
  /\ UNCHANGED <<ledgerVars, previewVars, serverVars, forgotten, cut>>

\* It dies in its first stretch: the environment is checked and nothing else
\* follows, the mission is left in PROVISIONING, or the verdict is recorded.
DiesAtBoot(w) ==
  /\ Fault
  /\ At(w, "boot")
  /\ \/ /\ CanSetUp
        /\ environment' = TRUE
        /\ \/ mission' = "CONTRACTED" /\ UNCHANGED provisioned
           \/ mission' = "PROVISIONING" /\ provisioned' \in BOOLEAN
           \/ mission' = "EXECUTING" /\ provisioned' = TRUE
        /\ UNCHANGED verdict
     \/ /\ Replayable /\ mission = "VERIFYING" /\ verdict = "none"
        /\ verdict' \in { "COMPLETE", "INCOMPLETE" }
        /\ UNCHANGED <<mission, environment, provisioned>>
  /\ Exit(w, "none")
  /\ UNCHANGED <<generation, observed, deleted, previewVars, serverVars, forgotten, cut>>

\* It dies between VERIFYING and the verdict, or between the verdict and its
\* transition.
DiesVerifying(w) ==
  /\ Fault
  /\ At(w, "health") /\ Executing
  /\ mission' = "VERIFYING"
  /\ verdict' \in { "none", "COMPLETE", "INCOMPLETE" }
  /\ HealthRecorded(worker[w].session)
  /\ Exit(w, "none")
  /\ UNCHANGED <<environment, provisioned, generation, observed, deleted, alive, evidence,
                 serverVars, forgotten, cut>>

\* It dies between the evidence of a start or of a stop and the fact.
DiesBetween(w) ==
  /\ Fault
  /\ \/ At(w, "probing") /\ ~StartIsDuplicate(worker[w].session)
        /\ StartCaptured(w, worker[w].session, TRUE)
     \/ /\ \/ At(w, "stopping") /\ StopCaptured(worker[w].session)
           \/ /\ worker[w].run \in Awaiting /\ worker[w].control # "none"
              /\ StopCaptured(worker[w].target)
        /\ UNCHANGED <<alive, sessions, last>>
  /\ Exit(w, worker[w].outbox)
  /\ UNCHANGED <<ledgerVars, serverVars, forgotten, cut>>

\* SIGINT or SIGTERM to the worker alone: cleanup().
Signal(w) ==
  /\ Fault
  /\ worker[w].run \in Awaiting /\ worker[w].control = "none"
  /\ worker' = [worker EXCEPT ![w].inbox = <<"shutdown">> \o @]
  /\ UNCHANGED <<ledgerVars, previewVars, serverVars, forgotten, cut>>

\* The server dies; the workers do not.
ServerDies ==
  /\ Fault
  /\ server # "down"
  /\ ServerGone
  /\ forgotten' = (forgotten \/ \E w \in Workers : Live(w))
  /\ UNCHANGED <<ledgerVars, previewVars, worker, cut>>

(***************************************************************************)
(* The specification.                                                      *)
(***************************************************************************)

WorkerStep(w) ==
  \/ BootFresh(w) \/ BootResume(w) \/ BootVerify(w) \/ BootThrows(w)
  \/ Answer(w) \/ Build(w) \/ Launch(w) \/ Probe(w) \/ Observe(w) \/ Halted(w)
  \/ Health(w) \/ Throw(w) \/ Fail(w) \/ FailAfterStop(w)

ControlStep(w) == Hear(w) \/ HearOn(w)

ServerStep == \/ \E c \in Callers : Sent(c) \/ GaveUp(c)
              \/ \E w \in Workers : Heard(w) \/ Exited(w)
              \/ Closed

Customer == \/ \E w \in Workers : Start(w)
            \/ \E c \in Callers, op \in { "cancel", "delete" } : Stop(c, op)

Faults == \/ ServerDies \/ Shutdown \/ Restart
          \/ \E w \in Workers : WorkerDies(w) \/ DiesAtBoot(w) \/ DiesVerifying(w)
                                 \/ DiesBetween(w) \/ Signal(w)

System == \/ \E w \in Workers : WorkerStep(w) \/ ControlStep(w)
          \/ ServerStep

Next == System \/ Customer \/ Faults

\* Some process that can run does: every wait of execute, and the server's, has a
\* time limit, and a behaviour has finitely many of these steps, so that no one
\* of them needs fairness of its own.  Nothing makes a customer act or a dead
\* server return.
Fairness == WF_vars(System)

Spec == Init /\ [][Next]_vars
FairSpec == Spec /\ Fairness

(***************************************************************************)
(* Properties.                                                             *)
(***************************************************************************)

\* Every variable has its type.
TypeOK ==
  /\ mission \in MissionStates
  /\ generation \in { "none", "dispatched", "answered" }
  /\ verdict \in { "none", "COMPLETE", "INCOMPLETE" }
  /\ { environment, provisioned, observed, deleted, forgotten } \subseteq BOOLEAN
  /\ alive \subseteq Workers \X Nat /\ last \in 0..Len(sessions)
  /\ evidence \subseteq { "start", "stop", "isolate" } \X Nat
  /\ sessions \in Seq([by : Workers, status : SessionStatus])
  /\ \A w \in Workers : /\ worker[w].run \in RunPoints
                        /\ worker[w].control \in { "none", "stop", "shutdown" }
                        /\ worker[w].outbox \in { "none", "completed", "failed" }
  /\ server \in { "up", "closing", "down" } /\ linked \subseteq Workers
  /\ active \in Workers \union { NoWorker, NoChild }
  /\ job \in [Workers -> [error : BOOLEAN, completed : BOOLEAN, exited : BOOLEAN]]
  /\ call \in [Callers -> [op : { "none", "cancel", "delete" },
                          pc : { "idle", "sending", "waiting", "answered" },
                          child : Workers \union { NoWorker }]]
  /\ faults \in 0..MaxFaults /\ cut \subseteq Nat

\* Unless the server died under a worker or dropped one it had not seen exit,
\* a running worker is the one activeJobs names: it can be stopped, and no
\* second one works on the mission.
RunningWorkIsKnown ==
  server # "down" /\ ~forgotten => \A w \in Workers : Live(w) => active = w

\* When nobody works on the mission and the server has seen every exit, the
\* start route accepts: no stale entry shuts the customer out.
IdleMissionCanStart ==
  server # "down" /\ (\A w \in Workers : ~Live(w))
    /\ (\A w \in linked : job[w].exited) => ~Blocks

\* A session recorded as stopped has no process left, as long as one worker at
\* a time ran.
StoppedPreviewsAreDead ==
  ~forgotten => \A n \in DOMAIN sessions :
                  sessions[n].status = "stopped" => Pid(n) \notin alive

\* When a mission succeeds, the newest session is the one it is delivered with,
\* and its preview runs: no stop of an earlier round, of a worker that resumes, of
\* one that fails or of the server has met it.  There is one exception: the worker
\* was told to stop while it waited for the health observation, has killed its
\* preview, and execute goes on beside the stop to the verdict.  The preview is
\* then recorded as crashed, which the verdict does not consult.
DeliveredPreviewIsLeft ==
  [][mission' = "SUCCEEDED" /\ mission # "SUCCEEDED" /\ ~deleted /\ ~forgotten
       => /\ last' = Len(sessions')
          /\ <<sessions'[last'].by, last'>> \in alive' \/ last' \in cut']_vars

\* A stop or delete request is answered, whatever the worker does.
StopIsAnswered ==
  \A c \in Callers : call[c].pc # "idle" ~> call[c].pc = "answered"

\* A worker that is told to stop is gone in the end.
StoppedWorkersExit ==
  \A w \in Workers : worker[w].inbox # << >> ~> ~Live(w)

\* runtime-preview-service.js:900: a mission that has ended without success, and
\* that nobody works on, has no preview server running.
EndedMissionsLeaveNoPreview ==
  mission \in TerminalStates \ {"SUCCEEDED"} /\ (\A w \in Workers : ~Live(w))
    => alive = {}

===============================================================================
