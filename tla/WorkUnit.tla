------------------------------- MODULE WorkUnit -------------------------------
(***************************************************************************)
(* One work unit of the execution engine (executeWorkUnit of               *)
(* src/work-plane/execution-engine.js): the same request is made again and *)
(* again, by one process or by several, until its outcome is recorded;     *)
(* processes die between any two durable steps.                            *)
(*                                                                         *)
(* What is durable: the tree, the pre-work and post-work checkpoints, the  *)
(* evidence records, and the facts of the Ledger.  A second attempt must   *)
(* find everything that is already there equal to what it would write,     *)
(* timestamps included.  A timestamp is the number of the clock reading it *)
(* was taken from; a new reading equals none that is still stored.         *)
(***************************************************************************)
EXTENDS Naturals

CONSTANTS Callers,      \* processes that make the request
          Actions,      \* the actions it may ask for
          Stamps,       \* bound: clock readings that are told apart
          NoStamp,
          NoRecord,     \* no checkpoint record, evidence or index
          Torn,         \* an evidence file whose write was cut short
          CrashPlaces,  \* the places where processes die
          TornWrites,   \* whether they die within a write too
          MaxFaults     \* bound: how often

\* WRITE_FILE and its kin, APPLY_FILE_BUNDLE, RUN_COMMAND.
ActionKinds == { "file", "bundle", "command" }

\* Evidence with a workUnitReference, and the two checkpoint observations.
WorkKinds == { "result", "command", "observed", "recovery" }
Kinds     == WorkKinds \union { "pre", "post" }

\* The durable steps of an attempt, in order.
Places == { "idle", "pre", "preEvidence", "preFact", "check", "start", "act", "running",
            "recovery", "result", "command", "observed",
            "post", "postEvidence", "postFact", "complete" }

Trees    == { "before", "partial", "torn", "after" }
Statuses == { "SUCCEEDED", "FAILED" }
Details  == { "acted", "notRun", "interrupted", "unproven" }

Findings == [ status : Statuses, detail : Details, stamp : Stamps ]

ASSUME UnitAssumption ==
  /\ Actions \subseteq ActionKinds /\ Actions # {}
  /\ NoStamp \notin Stamps
  /\ NoRecord # Torn /\ NoRecord \notin Findings /\ Torn \notin Findings
  /\ NoRecord \notin [ tree : Trees, stamp : Stamps ] /\ \A i \in SUBSET WorkKinds : NoRecord # i
  /\ CrashPlaces \subseteq Places /\ TornWrites \in BOOLEAN /\ MaxFaults \in Nat

VARIABLES
  action,      \* the request's actionType
  tree,        \* "before", "partial" (whole files missing), "torn" or "after"
  checkpoint,  \* checkpoint[c]: its record in the store
  evidence,    \* evidence[k]: its record in the evidence store
  chain,       \* the unit's checkpoints in the Ledger; the last is current
  started,     \* the timestamp of the Ledger's start fact
  outcome,     \* the unit's record in the Ledger
  attempt,     \* attempt[p]: the call of executeWorkUnit that p runs
  index,       \* index[p]: the evidence of the unit that p's index knows
  runs,        \* history: how often the command was started
  faults,      \* crashes so far
  lost         \* history: one of them was where the engine cannot go on after it

ledger == <<chain, started, outcome>>
disk   == <<tree, checkpoint, evidence>>
vars   == <<action, disk, ledger, attempt, index, runs, faults, lost>>

-------------------------------------------------------------------------------
NoResult == [ status |-> "FAILED", detail |-> "acted", stamp |-> NoStamp,
              reused |-> {}, unproven |-> FALSE, twice |-> FALSE ]
Results  == [ status : Statuses, detail : Details, stamp : Stamps,
              reused : SUBSET WorkKinds,   \* evidence of earlier attempts it rests on
              unproven : BOOLEAN,          \* requiresRecoveryEvidence
              twice : BOOLEAN ]            \* it cites a record of evidence twice
Indexes  == (SUBSET WorkKinds) \union {NoRecord}
Idle     == [ at |-> "idle", stamp |-> NoStamp, prior |-> FALSE, posted |-> FALSE,
              result |-> NoResult ]

TypeOK ==
  /\ action \in Actions /\ tree \in Trees
  /\ checkpoint \in [ { "pre", "post" } ->
                        [ tree : Trees, stamp : Stamps ] \union {NoRecord} ]
  /\ evidence \in [ Kinds -> Findings \union {NoRecord, Torn} ]
  /\ chain \in { {}, { "pre" }, { "pre", "post" } }
  /\ started \in Stamps \union {NoStamp}
  /\ outcome \in [ status : Statuses, cites : SUBSET WorkKinds ] \union {NoRecord}
  /\ attempt \in [ Callers -> [ at : Places, stamp : Stamps \union {NoStamp},
                                prior : BOOLEAN, posted : BOOLEAN,
                                result : Results \union {NoResult} ] ]
  /\ index \in [ Callers -> Indexes ]
  /\ runs \in Nat /\ faults \in 0 .. MaxFaults /\ lost \in BOOLEAN

Init ==
  /\ action \in Actions /\ tree = "before"
  /\ checkpoint = [ c \in { "pre", "post" } |-> NoRecord ]
  /\ evidence = [ k \in Kinds |-> NoRecord ]
  /\ chain = {} /\ started = NoStamp /\ outcome = NoRecord
  /\ attempt = [ p \in Callers |-> Idle ]
  /\ index = [ p \in Callers |-> NoRecord ]
  /\ runs = 0 /\ faults = 0 /\ lost = FALSE

-------------------------------------------------------------------------------
At(p, place) == attempt[p].at = place
Result(p)    == attempt[p].result
To(p, place) == attempt' = [ attempt EXCEPT ![p].at = place ]
Yield(p, place, result) ==
  attempt' = [ attempt EXCEPT ![p].at = place, ![p].result = result ]

\* The timestamps somebody still holds.
Held == { started }
        \union { checkpoint[c].stamp : c \in { d \in { "pre", "post" } : checkpoint[d] # NoRecord } }
        \union { evidence[k].stamp : k \in { j \in Kinds : evidence[j] \notin {NoRecord, Torn} } }
        \union { attempt[p].stamp : p \in Callers }
        \union { attempt[p].result.stamp : p \in Callers }

\* clock(): a reading that nobody holds.
Readable == \E s \in Stamps : s \notin Held
Now == CHOOSE s \in Stamps : s \notin Held

Observation(stamp) == [ status |-> "SUCCEEDED", detail |-> "acted", stamp |-> stamp ]
Finding(p) == [ status |-> Result(p).status, detail |-> Result(p).detail,
                stamp |-> Result(p).stamp ]

\* captureOrReuse: a record that exists must be the same.
MayCapture(kind, record) == evidence[kind] \in { NoRecord, record }
Capture(p, kind, record, next) ==
  /\ MayCapture(kind, record)
  /\ evidence' = [ evidence EXCEPT ![kind] = record ]
  /\ index' = IF kind \in WorkKinds /\ index[p] # NoRecord
              THEN [ index EXCEPT ![p] = @ \union {kind} ] ELSE index
  /\ To(p, next)
  /\ UNCHANGED <<action, tree, checkpoint, ledger, runs, faults, lost>>

\* persistCheckpoint likewise; the tree is captured now.
Record(stamp) == [ tree |-> tree, stamp |-> stamp ]
MayPersist(c, stamp) == c \notin chain /\ checkpoint[c] \in { NoRecord, Record(stamp) }
Persist(p, c, stamp, next) ==
  /\ MayPersist(c, stamp)
  /\ checkpoint' = [ checkpoint EXCEPT ![c] = Record(stamp) ]
  /\ To(p, next)
  /\ UNCHANGED <<action, tree, evidence, ledger, index, runs, faults, lost>>

-------------------------------------------------------------------------------
(* Before the action.                                                      *)

\* Mutant: an earlier start is not looked for.
BeginAfresh(p) ==
  /\ At(p, "idle") /\ outcome = NoRecord /\ Readable
  /\ attempt' = [ attempt EXCEPT ![p] =
       [ Idle EXCEPT !.at = IF "pre" \in chain THEN "check" ELSE "pre", !.stamp = Now ] ]
  /\ UNCHANGED <<action, disk, ledger, index, runs, faults, lost>>

\* A request whose outcome is recorded returns it; any other begins an attempt
\* with the timestamp of the first one that was recorded as started.
Begin(p) ==
  /\ At(p, "idle") /\ outcome = NoRecord
  /\ started = NoStamp => Readable
  /\ attempt' = [ attempt EXCEPT ![p] =
       [ Idle EXCEPT !.at = IF "pre" \in chain THEN "check" ELSE "pre",
                     !.stamp = IF started = NoStamp THEN Now ELSE started,
                     !.prior = started # NoStamp ] ]
  /\ UNCHANGED <<action, disk, ledger, index, runs, faults, lost>>

PreCheckpoint(p) == At(p, "pre") /\ Persist(p, "pre", attempt[p].stamp, "preEvidence")

PreEvidence(p) ==
  At(p, "preEvidence") /\ Capture(p, "pre", Observation(attempt[p].stamp), "preFact")

PreFact(p) ==
  /\ At(p, "preFact") /\ chain = {}
  /\ chain' = { "pre" }
  /\ To(p, "check")
  /\ UNCHANGED <<action, disk, started, outcome, index, runs, faults, lost>>

\* The unit's own checkpoints are the only ones taken meanwhile.
Check(p) ==
  /\ At(p, "check")
  /\ attempt' = [ attempt EXCEPT ![p].at = IF attempt[p].prior THEN "act" ELSE "start",
                                 ![p].posted = "post" \in chain ]
  /\ UNCHANGED <<action, disk, ledger, index, runs, faults, lost>>

Start(p) ==
  /\ At(p, "start") /\ started = NoStamp
  /\ started' = attempt[p].stamp
  /\ To(p, "act")
  /\ UNCHANGED <<action, disk, chain, outcome, index, runs, faults, lost>>

-------------------------------------------------------------------------------
(* The action, or what is known of an earlier attempt at it.               *)

\* findByWorkUnit: the first query of a process reads every record there is, later
\* ones only those it knows of.
Known(p) == IF index[p] = NoRecord
            THEN { k \in WorkKinds : evidence[k] # NoRecord } ELSE index[p]
Readables(p) == \A k \in (IF index[p] = NoRecord THEN Kinds ELSE index[p]) : evidence[k] # Torn
Query(p) == Readables(p) /\ index' = [ index EXCEPT ![p] = Known(p) ]

\* The first WORK_UNIT_RESULT by identifier: "....recovery" sorts before "....result".
HasPrimary(p) == Known(p) \intersect { "recovery", "result" } # {}
Primary(p) == evidence[IF "recovery" \in Known(p) THEN "recovery" ELSE "result"]

\* What an earlier attempt left, when complete; otherwise a failure that needs
\* evidence of its own.
Reused(p, complete, detail) ==
  [ status |-> IF complete /\ HasPrimary(p) THEN Primary(p).status ELSE "FAILED",
    detail |-> IF complete /\ HasPrimary(p) THEN Primary(p).detail ELSE detail,
    stamp  |-> IF HasPrimary(p) THEN Primary(p).stamp ELSE Now,
    reused |-> Known(p), unproven |-> ~complete,
    twice  |-> ~complete /\ "recovery" \in Known(p) ]

Recall(p, complete, detail) ==
  /\ HasPrimary(p) \/ Readable
  /\ Yield(p, IF complete THEN "post" ELSE "recovery", Reused(p, complete, detail))
  /\ UNCHANGED <<action, disk, ledger, runs, faults, lost>>

\* The post-work checkpoint is there and so is evidence.
RecallPosted(p) ==
  /\ At(p, "act") /\ Query(p) /\ attempt[p].posted /\ Known(p) # {}
  /\ Recall(p, action = "command" => "command" \in Known(p), "unproven")

Acts(p) == At(p, "act") /\ Query(p) /\ ~(attempt[p].posted /\ Known(p) # {})

\* Mutant: an interrupted command is started again.
SpawnAgain(p) ==
  /\ Acts(p) /\ action = "command" /\ attempt[p].prior
  /\ runs' = runs + 1
  /\ To(p, "running")
  /\ UNCHANGED <<action, disk, ledger, faults, lost>>

\* A command is never started by an attempt that finds an earlier one started.
RecallCommand(p) ==
  /\ Acts(p) /\ action = "command" /\ attempt[p].prior
  /\ Recall(p, HasPrimary(p) /\ "command" \in Known(p), "interrupted")

\* runControlledCommand: the child process runs while others go on.
Spawn(p) ==
  /\ Acts(p) /\ action = "command" /\ ~attempt[p].prior
  /\ runs' = runs + 1
  /\ To(p, "running")
  /\ UNCHANGED <<action, disk, ledger, faults, lost>>

\* The command is refused before a child is spawned: it is not a procedure of the
\* stack, or its directory does not resolve.
NotRun(p) ==
  /\ Acts(p) /\ action = "command" /\ ~attempt[p].prior /\ Readable
  /\ Yield(p, "result", [ NoResult EXCEPT !.detail = "notRun", !.stamp = Now ])
  /\ UNCHANGED <<action, disk, ledger, runs, faults, lost>>

Acted(p, status) ==
  Yield(p, "result", [ NoResult EXCEPT !.status = status, !.stamp = Now ])

\* The child exits; a failed one may have changed the tree or not.
Exit(p) ==
  /\ At(p, "running") /\ Readable
  /\ \/ tree' = "after" /\ Acted(p, "SUCCEEDED")
     \/ tree' \in { tree, "partial", "after" } /\ Acted(p, "FAILED")
  /\ UNCHANGED <<action, checkpoint, evidence, ledger, index, runs, faults, lost>>

\* A file that is there already must be whole, and for WRITE_FILE an earlier
\* attempt must have started; a bundle fills in what is missing.
Writable(p) ==
  \/ tree = "before"
  \/ action = "file" /\ attempt[p].prior /\ tree = "after"
  \/ action = "bundle" /\ tree # "torn"

Writing(p) == Acts(p) /\ action # "command" /\ Readable

\* Mutant: whatever an interrupted attempt left at the path counts as written.
TrustExisting(p) ==
  /\ Writing(p)
  /\ tree' = IF tree = "before" THEN "after" ELSE tree
  /\ Acted(p, "SUCCEEDED")
  /\ UNCHANGED <<action, checkpoint, evidence, ledger, runs, faults, lost>>

Write(p) ==
  /\ Writing(p)
  /\ \/ Writable(p) /\ tree' = "after" /\ Acted(p, "SUCCEEDED")
     \/ ~Writable(p) /\ UNCHANGED tree /\ Acted(p, "FAILED")
  /\ UNCHANGED <<action, checkpoint, evidence, ledger, runs, faults, lost>>

-------------------------------------------------------------------------------
(* The evidence of the attempt, its checkpoint and its outcome.            *)

RecoveryEvidence(p) == At(p, "recovery") /\ Capture(p, "recovery", Finding(p), "post")

ResultEvidence(p) ==
  /\ At(p, "result")
  /\ Capture(p, "result", Finding(p),
             IF action = "command" /\ Result(p).detail = "acted" THEN "command"
             ELSE IF Result(p).status = "SUCCEEDED" THEN "observed" ELSE "post")

\* Mutant: the command's own evidence is cited and never captured.
SkipCommandEvidence(p) ==
  /\ At(p, "command") /\ To(p, "post")
  /\ UNCHANGED <<action, disk, ledger, index, runs, faults, lost>>

CommandEvidence(p) == At(p, "command") /\ Capture(p, "command", Finding(p), "post")

\* The listing, existence, hash and content of what was written.
ObservedEvidence(p) == At(p, "observed") /\ Capture(p, "observed", Finding(p), "post")

\* Whether the checkpoint is there is read again.
SkipPost(p) ==
  /\ At(p, "post") /\ "post" \in chain
  /\ To(p, "complete")
  /\ UNCHANGED <<action, disk, ledger, index, runs, faults, lost>>

PostCheckpoint(p) == At(p, "post") /\ Persist(p, "post", Result(p).stamp, "postEvidence")

PostEvidence(p) ==
  At(p, "postEvidence") /\ Capture(p, "post", Observation(Result(p).stamp), "postFact")

PostFact(p) ==
  /\ At(p, "postFact") /\ chain = { "pre" }
  /\ chain' = { "pre", "post" }
  /\ To(p, "complete")
  /\ UNCHANGED <<action, disk, started, outcome, index, runs, faults, lost>>

\* The evidence the record cites: what is reused, or what this attempt captured.
Cites(p) ==
  IF Result(p).unproven THEN Result(p).reused \union { "recovery" }
  ELSE IF Result(p).reused # {} THEN Result(p).reused
  ELSE IF action = "command" /\ Result(p).detail = "acted" THEN { "result", "command" }
  ELSE IF Result(p).status = "SUCCEEDED" THEN { "result", "observed" } ELSE { "result" }

MayComplete(p) == outcome = NoRecord /\ ~Result(p).twice

Complete(p) ==
  /\ At(p, "complete") /\ MayComplete(p)
  /\ outcome' = [ status |-> Result(p).status, cites |-> Cites(p) ]
  /\ attempt' = [ attempt EXCEPT ![p] = Idle ]
  /\ UNCHANGED <<action, disk, chain, started, index, runs, faults, lost>>

-------------------------------------------------------------------------------
(* Errors and faults.                                                      *)

\* Every way executeWorkUnit throws.
Refused(p) ==
  \/ At(p, "pre") /\ ~MayPersist("pre", attempt[p].stamp)
  \/ At(p, "preEvidence") /\ ~MayCapture("pre", Observation(attempt[p].stamp))
  \/ At(p, "preFact") /\ chain # {}
  \/ At(p, "start") /\ started # NoStamp
  \/ At(p, "act") /\ ~Readables(p)
  \/ \E k \in WorkKinds : At(p, k) /\ ~MayCapture(k, Finding(p))
  \/ At(p, "post") /\ "post" \notin chain /\ ~MayPersist("post", Result(p).stamp)
  \/ At(p, "postEvidence") /\ ~MayCapture("post", Observation(Result(p).stamp))
  \/ At(p, "postFact") /\ chain # { "pre" }
  \/ At(p, "complete") /\ ~MayComplete(p)

Throw(p) ==
  /\ Refused(p)
  /\ attempt' = [ attempt EXCEPT ![p] = Idle ]
  /\ UNCHANGED <<action, disk, ledger, index, runs, faults, lost>>

\* The places from which a later attempt can go on: nothing is stored by then that
\* carries a reading of the clock which is not stored with it for later attempts; of
\* a command's result the reading is reused with the result.
\* An attempt that is itself a recovery has no such place once it stored evidence.
Recoverable ==
  { "pre", "check", "start", "act", "running", "recovery", "result", "complete" }
  \union IF action = "command" THEN { "command", "post", "postEvidence", "postFact" } ELSE {}

Die(p, damage) ==
  /\ faults < MaxFaults /\ faults' = faults + 1
  /\ lost' = (lost \/ damage \/ attempt[p].at \notin Recoverable
              \/ evidence["recovery"] # NoRecord)
  /\ attempt' = [ attempt EXCEPT ![p] = Idle ]
  /\ index' = [ index EXCEPT ![p] = NoRecord ]

\* The process dies before the durable step it is at.
Crash(p) ==
  /\ attempt[p].at \in CrashPlaces \ { "idle" } /\ Die(p, FALSE)
  /\ UNCHANGED <<action, disk, ledger, runs>>

\* The process dies while it writes files.
CrashInWrite(p) ==
  /\ TornWrites /\ At(p, "act") /\ Die(p, FALSE)
  /\ action # "command" /\ tree = "before"
  /\ tree' \in IF action = "bundle" THEN { "partial", "torn" } ELSE { "torn" }
  /\ UNCHANGED <<action, checkpoint, evidence, ledger, runs>>

\* The process dies while it writes the evidence of kind k.
CrashInCapture(p) ==
  /\ TornWrites /\ Die(p, TRUE)
  /\ \E k \in WorkKinds : /\ At(p, k) /\ evidence[k] = NoRecord
                         /\ evidence' = [ evidence EXCEPT ![k] = Torn ]
  /\ UNCHANGED <<action, tree, checkpoint, ledger, runs>>

\* The process dies after the command did something and before it is observed.
CrashAfterRun(p) ==
  /\ "running" \in CrashPlaces /\ At(p, "running") /\ Die(p, FALSE)
  /\ tree' \in { "partial", "after" }
  /\ UNCHANGED <<action, checkpoint, evidence, ledger, runs>>

-------------------------------------------------------------------------------
Step(p) ==
  \/ PreCheckpoint(p) \/ PreEvidence(p) \/ PreFact(p) \/ Check(p) \/ Start(p)
  \/ RecallPosted(p) \/ RecallCommand(p) \/ NotRun(p) \/ Spawn(p) \/ Exit(p) \/ Write(p)
  \/ RecoveryEvidence(p) \/ ResultEvidence(p) \/ CommandEvidence(p) \/ ObservedEvidence(p)
  \/ SkipPost(p) \/ PostCheckpoint(p) \/ PostEvidence(p) \/ PostFact(p)
  \/ Complete(p) \/ Throw(p)

Next ==
  \E p \in Callers : 
    \/ Begin(p) \/ Step(p)
    \/ Crash(p) \/ CrashInWrite(p) \/ CrashInCapture(p) \/ CrashAfterRun(p)

\* A process that began an attempt carries it out, and one that did not see an
\* outcome makes the request again, as the production mission's work loop does.
Spec == Init /\ [][Next]_vars /\ \A p \in Callers : WF_vars(Begin(p) \/ Step(p))

-------------------------------------------------------------------------------
(* Properties.                                                             *)

\* test/milestone-7.test.js:442: a command is not repeated blindly: however often
\* the request is made and interrupted, and by however many processes, the child
\* process is started at most once.
CommandRunsOnce == runs <= 1

\* A unit recorded as succeeded did what it was asked to do, and its post-work
\* checkpoint holds it.
SuccessIsReal ==
  outcome # NoRecord /\ outcome.status = "SUCCEEDED" =>
    checkpoint["post"] # NoRecord /\ checkpoint["post"].tree = "after"

\* A recorded outcome rests on whole evidence of that very outcome, and on both
\* checkpoints.
OutcomeIsBacked ==
  outcome # NoRecord =>
    /\ chain = { "pre", "post" } /\ started # NoStamp
    /\ \A k \in outcome.cites : evidence[k] \in Findings
    /\ \E k \in outcome.cites : evidence[k].status = outcome.status

\* test/milestone-7.test.js:408: "recovers an interrupted real file mutation without
\* repeating or losing it": a unit that is requested again ends up recorded.
UnitIsRecorded == <>(outcome # NoRecord)

\* So it does, however often it is interrupted, unless a process dies inside the
\* write of evidence or between two steps that need the same reading of the clock.
InterruptionsAreSurvived == <>(outcome # NoRecord \/ lost)

===============================================================================
