---------------------------- MODULE WorkUnitProofs ----------------------------
(***************************************************************************)
(* What executeWorkUnit promises, whatever the number of processes that    *)
(* request the unit and of crashes: proofs about the specification of      *)
(* WorkUnit, and about the lone request of MCWorkUnit.                     *)
(*                                                                         *)
(* - The command is started at most once: only an attempt that recorded    *)
(*   the start fact itself may start it (Fresh), the Ledger takes that     *)
(*   fact once, and an attempt that finds the fact never becomes Fresh.    *)
(* - An outcome rests on whole evidence of that very outcome: an attempt   *)
(*   carries its evidence with it (Sound), what is stored stays (Kept),    *)
(*   and evidence of a command comes after that of its result.             *)
(* - A success of a lone request is real: once the tree is settled nothing *)
(*   changes it, a result is given, and the post-work checkpoint taken, of *)
(*   a settled tree only (AllIsDone).                                      *)
(***************************************************************************)
EXTENDS MCWorkUnit, TLAPS

Attempts == [ at : Places, stamp : Stamps \union {NoStamp}, prior : BOOLEAN,
              posted : BOOLEAN, result : Results \union {NoResult} ]

\* The places at which the attempt has a result.
Late == { "recovery", "result", "command", "observed", "post", "postEvidence",
          "postFact", "complete" }

AttemptOK(a) == /\ a.at # "idle" => a.stamp \in Stamps
                /\ a.at \in Late => a.result \in Results

AttemptsAreOK == \A p \in Callers : AttemptOK(attempt[p])

IndexIsCaptured ==
  \A p \in Callers : index[p] # NoRecord => \A k \in index[p] : evidence[k] # NoRecord

\* The attempt is about to start the command.
Fresh(p) == attempt[p].at = "act" /\ ~attempt[p].prior

StartIsRecorded ==
  \A p \in Callers : attempt[p].prior \/ attempt[p].at = "act" => started # NoStamp

OneIsFresh ==
  /\ \A p \in Callers : Fresh(p) => runs = 0
  /\ \A p, q \in Callers : Fresh(p) /\ Fresh(q) => p = q
  /\ started = NoStamp => runs = 0
  /\ runs <= 1

IInv == TypeOK /\ AttemptsAreOK /\ IndexIsCaptured /\ StartIsRecorded /\ OneIsFresh

Types == TypeOK /\ AttemptsAreOK /\ IndexIsCaptured

\* A step that brings nobody nearer to starting the command.
Quiet ==
  /\ started' = started /\ runs' = runs
  /\ \A q \in Callers :
       /\ attempt'[q].prior => attempt[q].prior
       /\ attempt'[q].at = "act" => attempt[q].at = "act" /\ attempt'[q].prior = attempt[q].prior

-------------------------------------------------------------------------------
(* What the operators of the module yield.                                 *)

\* The clock reading that is taken is a stamp.
LEMMA NowIsAStamp == Readable => Now \in Stamps
  BY DEF Readable, Now

\* An attempt that has not begun is well formed.
LEMMA IdleIsOK == Idle \in Attempts /\ AttemptOK(Idle)
  BY DEF Idle, Attempts, AttemptOK, Late, Places, NoResult

\* What an index of the evidence store may be.
LEMMA IndexesAre ==
  /\ NoRecord \in Indexes
  /\ \A i \in Indexes : i # NoRecord => i \subseteq WorkKinds
  /\ \A s \in SUBSET WorkKinds : s \in Indexes
  <1>1. NoRecord \in Indexes
    BY DEF Indexes
  <1>2. ASSUME NEW i \in Indexes, i # NoRecord
        PROVE  i \subseteq WorkKinds
    <2>1. i \in SUBSET WorkKinds
      BY <1>2, Zenon DEF Indexes
    <2> QED
      BY <2>1
  <1>3. ASSUME NEW s \in SUBSET WorkKinds
        PROVE  s \in Indexes
    BY Zenon DEF Indexes
  <1> QED
    BY <1>1, <1>2, <1>3

\* An attempt that goes on to its next place stays well formed, and is quiet when the
\* facts of the Ledger stay.
LEMMA Moved ==
  ASSUME Types, NEW p \in Callers, NEW place \in Places, To(p, place),
         attempt[p].at # "idle", place # "act",
         place \in Late => attempt[p].result \in Results
  PROVE  /\ attempt' \in [Callers -> Attempts] /\ AttemptsAreOK'
         /\ started' = started /\ runs' = runs => Quiet
  <1>1. attempt \in [Callers -> Attempts]
    BY DEF Types, TypeOK, Attempts
  <1>2. attempt' = [ attempt EXCEPT ![p] = [ attempt[p] EXCEPT !.at = place ] ]
    BY DEF To
  <1>3. AttemptOK(attempt[p])
    BY DEF Types, AttemptsAreOK
  <1>4. [ attempt[p] EXCEPT !.at = place ] \in Attempts
    BY <1>1 DEF Attempts
  <1>5. AttemptOK([ attempt[p] EXCEPT !.at = place ])
    BY <1>1, <1>3 DEF Attempts, AttemptOK
  <1>6. attempt' \in [Callers -> Attempts]
    BY <1>1, <1>2, <1>4
  <1>7. AttemptsAreOK'
    BY <1>1, <1>2, <1>5 DEF Types, AttemptsAreOK
  <1>8. started' = started /\ runs' = runs => Quiet
    BY <1>1, <1>2 DEF Quiet, Attempts
  <1> QED
    BY <1>6, <1>7, <1>8

\* So it does when it has a result.
LEMMA Yielded ==
  ASSUME Types, NEW p \in Callers, NEW place \in Places, NEW result \in Results,
         Yield(p, place, result), attempt[p].at # "idle", place # "act"
  PROVE  /\ attempt' \in [Callers -> Attempts] /\ AttemptsAreOK'
         /\ started' = started /\ runs' = runs => Quiet
  <1> DEFINE a == [ attempt[p] EXCEPT !.at = place, !.result = result ]
  <1>1. attempt \in [Callers -> Attempts]
    BY DEF Types, TypeOK, Attempts
  <1>2. attempt' = [ attempt EXCEPT ![p] = a ]
    BY <1>1 DEF Yield, Attempts
  <1>3. AttemptOK(attempt[p])
    BY DEF Types, AttemptsAreOK
  <1>4. a \in Attempts /\ a.at = place /\ a.result = result /\ a.stamp = attempt[p].stamp
          /\ a.prior = attempt[p].prior
    BY <1>1 DEF Attempts
  <1>5. AttemptOK(a)
    BY <1>3, <1>4 DEF AttemptOK
  <1> HIDE DEF a
  <1>6. attempt' \in [Callers -> Attempts]
    BY <1>1, <1>2, <1>4
  <1>7. AttemptsAreOK'
    BY <1>1, <1>2, <1>5 DEF Types, AttemptsAreOK
  <1>8. started' = started /\ runs' = runs => Quiet
    BY <1>1, <1>2, <1>4 DEF Quiet
  <1> QED
    BY <1>6, <1>7, <1>8

\* So it does when it ends.
LEMMA Reset ==
  ASSUME Types, NEW p \in Callers, attempt' = [ attempt EXCEPT ![p] = Idle ]
  PROVE  /\ attempt' \in [Callers -> Attempts] /\ AttemptsAreOK'
         /\ started' = started /\ runs' = runs => Quiet
  <1>1. attempt \in [Callers -> Attempts]
    BY DEF Types, TypeOK, Attempts
  <1>2. Idle.prior = FALSE /\ Idle.at = "idle"
    BY DEF Idle
  <1>3. attempt' \in [Callers -> Attempts] /\ AttemptsAreOK'
    BY <1>1, IdleIsOK DEF Types, AttemptsAreOK
  <1>4. started' = started /\ runs' = runs => Quiet
    BY <1>1, <1>2 DEF Quiet
  <1> QED
    BY <1>3, <1>4

\* Evidence that is captured or reused is well typed.
LEMMA Captured ==
  ASSUME Types, NEW p \in Callers, NEW kind \in Kinds, NEW record \in Findings,
         NEW next \in Places, Capture(p, kind, record, next),
         attempt[p].at # "idle", next # "act",
         next \in Late => attempt[p].result \in Results
  PROVE  Types' /\ Quiet
  <1>1. attempt' \in [Callers -> Attempts] /\ AttemptsAreOK' /\ Quiet
    BY Moved DEF Capture, ledger
  <1>2. /\ evidence' \in [ Kinds -> Findings \union {NoRecord, Torn} ]
        /\ evidence'[kind] = record
        /\ \A k \in Kinds : evidence'[k] # evidence[k] => k = kind
    BY DEF Types, TypeOK, Capture
  <1>3. record # NoRecord \/ evidence' = evidence
    BY DEF Capture, MayCapture, Types, TypeOK
  <1> QED
    <2>1. IndexIsCaptured'
      <3> SUFFICES ASSUME NEW q \in Callers, index'[q] # NoRecord, NEW k \in index'[q]
                   PROVE  evidence'[k] # NoRecord
        BY DEF IndexIsCaptured
      <3>1. index \in [ Callers -> Indexes ]
        BY DEF Types, TypeOK
      <3>2. k = kind \/ (index[q] # NoRecord /\ k \in index[q])
        BY <3>1 DEF Capture
      <3>3. CASE k = kind
        BY <1>2, <3>3, UnitAssumption
      <3>4. CASE k # kind
        <4>1. index[q] # NoRecord /\ k \in index[q]
          BY <3>2, <3>4
        <4>2. index[q] \subseteq WorkKinds
          BY <3>1, <4>1, IndexesAre
        <4>3. k \in Kinds
          BY <4>1, <4>2 DEF Kinds
        <4> QED
          BY <1>2, <3>4, <4>1, <4>3 DEF Types, IndexIsCaptured
      <3> QED
        BY <3>3, <3>4
    <2>2. index' \in [ Callers -> Indexes ]
      <3>1. index \in [ Callers -> Indexes ]
        BY DEF Types, TypeOK
      <3>2. CASE kind \in WorkKinds /\ index[p] # NoRecord
        <4>1. index[p] \union {kind} \in Indexes
          BY <3>1, <3>2, IndexesAre
        <4> QED
          BY <3>1, <3>2, <4>1 DEF Capture
      <3>3. CASE ~(kind \in WorkKinds /\ index[p] # NoRecord)
        BY <3>1, <3>3 DEF Capture
      <3> QED
        BY <3>2, <3>3
    <2>3. TypeOK'
      BY <1>1, <1>2, <2>2 DEF Types, TypeOK, Capture, ledger, Attempts
    <2> QED
      BY <1>1, <2>1, <2>3 DEF Types

\* A checkpoint record that is written or reused is well typed.
LEMMA Persisted ==
  ASSUME Types, NEW p \in Callers, NEW c \in { "pre", "post" }, NEW stamp \in Stamps,
         NEW next \in Places, Persist(p, c, stamp, next),
         attempt[p].at # "idle", next # "act",
         next \in Late => attempt[p].result \in Results
  PROVE  Types' /\ Quiet
  <1>1. attempt' \in [Callers -> Attempts] /\ AttemptsAreOK' /\ Quiet
    BY Moved DEF Persist, ledger
  <1>2. Record(stamp) \in [ tree : Trees, stamp : Stamps ]
    BY DEF Record, Types, TypeOK
  <1>3. TypeOK'
    BY <1>1, <1>2 DEF Types, TypeOK, Persist, ledger, Attempts
  <1> QED
    BY <1>1, <1>3 DEF Types, IndexIsCaptured, Persist

\* A finding is one while the attempt has a result.
LEMMA FindingIsOne ==
  ASSUME Types, NEW p \in Callers, attempt[p].at \in Late
  PROVE  attempt[p].result \in Results /\ Finding(p) \in Findings
  <1>1. attempt[p].result \in Results
    BY DEF Types, AttemptsAreOK, AttemptOK
  <1> QED
    BY <1>1 DEF Finding, Findings, Result, Results

\* An attempt that began has read the clock.
LEMMA StampIsOne ==
  ASSUME Types, NEW p \in Callers, attempt[p].at # "idle"
  PROVE  attempt[p].stamp \in Stamps /\ Observation(attempt[p].stamp) \in Findings
  BY DEF Types, AttemptsAreOK, AttemptOK, Observation, Findings, Statuses, Details

\* What a query finds is evidence that is there, and whole.
LEMMA Queried ==
  ASSUME Types, NEW p \in Callers, Query(p)
  PROVE  /\ Known(p) \subseteq WorkKinds
         /\ \A k \in Known(p) : evidence[k] \in Findings
         /\ index' \in [ Callers -> Indexes ]
         /\ UNCHANGED evidence => IndexIsCaptured'
  <1>1. index \in [ Callers -> Indexes ]
    BY DEF Types, TypeOK
  <1>2. Known(p) \subseteq WorkKinds /\ WorkKinds \subseteq Kinds
    <2>1. index[p] # NoRecord => index[p] \subseteq WorkKinds
      BY <1>1, IndexesAre
    <2> QED
      BY <2>1 DEF Known, Kinds
  <1>3. \A k \in Known(p) : evidence[k] # NoRecord /\ evidence[k] # Torn
    BY <1>1, <1>2 DEF Known, Query, Readables, Types, IndexIsCaptured
  <1>4. \A k \in Known(p) : evidence[k] \in Findings
    BY <1>2, <1>3 DEF Types, TypeOK
  <1>5. index' = [ index EXCEPT ![p] = Known(p) ]
    BY DEF Query
  <1>6. index' \in [ Callers -> Indexes ]
    BY <1>1, <1>2, <1>5, IndexesAre
  <1>7. ASSUME UNCHANGED evidence
        PROVE  IndexIsCaptured'
    BY <1>1, <1>3, <1>5, <1>7 DEF Types, IndexIsCaptured
  <1> QED
    BY <1>2, <1>4, <1>6, <1>7

\* An attempt that recalls evidence of an earlier one has a result.
LEMMA Recalled ==
  ASSUME Types, NEW p \in Callers, Query(p), At(p, "act"), NEW complete \in BOOLEAN,
         NEW detail \in Details, Recall(p, complete, detail)
  PROVE  Types' /\ Quiet
  <1>1. Known(p) \subseteq WorkKinds /\ \A k \in Known(p) : evidence[k] \in Findings
    BY Queried
  <1>2. HasPrimary(p) => Primary(p) \in Findings
    BY <1>1 DEF HasPrimary, Primary
  <1>3. HasPrimary(p) \/ Now \in Stamps
    BY NowIsAStamp DEF Recall
  <1>4. Reused(p, complete, detail) \in Results
    <2> DEFINE r == Reused(p, complete, detail)
    <2>1. "FAILED" \in Statuses
      BY DEF Statuses
    <2>2. r.status \in Statuses /\ r.detail \in Details /\ r.stamp \in Stamps
      BY <1>2, <1>3, <2>1 DEF Reused, Findings
    <2> QED
      BY <1>1, <2>2 DEF Reused, Results
  <1>5. attempt' \in [Callers -> Attempts] /\ AttemptsAreOK' /\ Quiet
    <2>1. Yield(p, IF complete THEN "post" ELSE "recovery", Reused(p, complete, detail))
            /\ started' = started /\ runs' = runs /\ attempt[p].at # "idle"
      BY DEF Recall, At, ledger
    <2>2. (IF complete THEN "post" ELSE "recovery") \in Places \ { "act" }
      BY DEF Places
    <2> QED
      BY <1>4, <2>1, <2>2, Yielded
  <1>6. UNCHANGED evidence
    BY DEF Recall, disk
  <1>7. IndexIsCaptured' /\ index' \in [ Callers -> Indexes ]
    BY <1>6, Queried
  <1>8. TypeOK'
    BY <1>5, <1>7 DEF Types, TypeOK, Recall, disk, ledger, Attempts
  <1> QED
    BY <1>5, <1>7, <1>8 DEF Types

\* The end of an action.
LEMMA Ended ==
  ASSUME Types, NEW p \in Callers, NEW status \in Statuses, Acted(p, status), Readable,
         attempt[p].at # "idle", started' = started, runs' = runs
  PROVE  attempt' \in [Callers -> Attempts] /\ AttemptsAreOK' /\ Quiet
  <1>1. [ NoResult EXCEPT !.status = status, !.stamp = Now ] \in Results
    BY NowIsAStamp DEF NoResult, Results, Details
  <1>2. "result" \in Places \ { "act" }
    BY DEF Places
  <1> QED
    BY <1>1, <1>2, Yielded DEF Acted

-------------------------------------------------------------------------------
(* Every step keeps the types; all but three are quiet.                    *)

\* All calls but the look at the start fact, its append and the start of the command
\* leave alone what the invariant says of commands.
LEMMA QuietCalls ==
  ASSUME Types, NEW p \in Callers,
         \/ PreCheckpoint(p) \/ PreEvidence(p) \/ PreFact(p)
         \/ RecallPosted(p) \/ RecallCommand(p) \/ NotRun(p) \/ Exit(p) \/ Write(p)
         \/ RecoveryEvidence(p) \/ ResultEvidence(p) \/ CommandEvidence(p)
         \/ ObservedEvidence(p) \/ SkipPost(p) \/ PostCheckpoint(p) \/ PostEvidence(p)
         \/ PostFact(p) \/ Complete(p) \/ Throw(p)
  PROVE  Types' /\ Quiet
  <1>1. CASE PreCheckpoint(p)
    BY <1>1, Persisted, StampIsOne DEF PreCheckpoint, At, Places, Late
  <1>2. CASE PreEvidence(p)
    BY <1>2, Captured, StampIsOne DEF PreEvidence, At, Places, Late, Kinds
  <1>3. CASE PreFact(p)
    <2>1. attempt' \in [Callers -> Attempts] /\ AttemptsAreOK' /\ Quiet
      BY <1>3, Moved DEF PreFact, At, Places, Late
    <2> QED
      BY <1>3, <2>1 DEF PreFact, Types, TypeOK, IndexIsCaptured, disk, Attempts
  <1>4. CASE RecallPosted(p)
    BY <1>4, Recalled DEF RecallPosted, Details
  <1>5. CASE RecallCommand(p)
    BY <1>5, Recalled DEF RecallCommand, Acts, Details
  <1>6. CASE Exit(p)
    <2>1. attempt' \in [Callers -> Attempts] /\ AttemptsAreOK' /\ Quiet
      BY <1>6, Ended DEF Exit, At, Statuses, ledger
    <2>2. tree' \in Trees
      BY <1>6 DEF Exit, Trees, Types, TypeOK
    <2> QED
      BY <1>6, <2>1, <2>2 DEF Exit, Types, TypeOK, IndexIsCaptured, ledger, Attempts
  <1>7. CASE Write(p)
    <2>1. attempt' \in [Callers -> Attempts] /\ AttemptsAreOK' /\ Quiet
      BY <1>7, Ended DEF Write, Writing, Acts, At, Statuses, ledger
    <2>2. tree' \in Trees
      BY <1>7 DEF Write, Trees, Types, TypeOK
    <2>3. IndexIsCaptured' /\ index' \in [ Callers -> Indexes ]
      BY <1>7, Queried DEF Write, Writing, Acts
    <2> QED
      BY <1>7, <2>1, <2>2, <2>3 DEF Write, Types, TypeOK, ledger, Attempts
  <1>8. CASE RecoveryEvidence(p)
    BY <1>8, Captured, FindingIsOne DEF RecoveryEvidence, At, Places, Late, Kinds, WorkKinds
  <1>9. CASE ResultEvidence(p)
    BY <1>9, Captured, FindingIsOne DEF ResultEvidence, At, Places, Late, Kinds, WorkKinds
  <1>10. CASE CommandEvidence(p)
    BY <1>10, Captured, FindingIsOne DEF CommandEvidence, At, Places, Late, Kinds, WorkKinds
  <1>11. CASE ObservedEvidence(p)
    BY <1>11, Captured, FindingIsOne DEF ObservedEvidence, At, Places, Late, Kinds, WorkKinds
  <1>12. CASE SkipPost(p)
    <2>1. attempt[p].at \in Late /\ "complete" \in Places \ { "act" } /\ attempt[p].at # "idle"
      BY <1>12 DEF SkipPost, At, Places, Late
    <2>2. attempt' \in [Callers -> Attempts] /\ AttemptsAreOK' /\ Quiet
      BY <1>12, <2>1, Moved, FindingIsOne DEF SkipPost, ledger
    <2> QED
      BY <1>12, <2>2 DEF SkipPost, Types, TypeOK, IndexIsCaptured, disk, ledger, Attempts
  <1>13. CASE PostCheckpoint(p)
    <2>1. attempt[p].at \in Late /\ attempt[p].at # "idle" /\ "postEvidence" \in Places \ { "act" }
      BY <1>13 DEF PostCheckpoint, At, Places, Late
    <2>2. attempt[p].result \in Results /\ Result(p).stamp \in Stamps
      BY <2>1, FindingIsOne DEF Results, Result
    <2> QED
      BY <1>13, <2>1, <2>2, Persisted DEF PostCheckpoint
  <1>14. CASE PostEvidence(p)
    <2>1. attempt[p].at \in Late /\ attempt[p].at # "idle" /\ "postFact" \in Places \ { "act" }
            /\ "post" \in Kinds
      BY <1>14 DEF PostEvidence, At, Places, Late, Kinds
    <2>2. attempt[p].result \in Results /\ Observation(Result(p).stamp) \in Findings
      BY <2>1, FindingIsOne DEF Results, Result, Observation, Findings, Statuses, Details
    <2> QED
      BY <1>14, <2>1, <2>2, Captured DEF PostEvidence
  <1>15. CASE PostFact(p)
    <2>1. attempt[p].at \in Late /\ "complete" \in Places \ { "act" } /\ attempt[p].at # "idle"
      BY <1>15 DEF PostFact, At, Places, Late
    <2>2. attempt' \in [Callers -> Attempts] /\ AttemptsAreOK' /\ Quiet
      BY <1>15, <2>1, Moved, FindingIsOne DEF PostFact
    <2> QED
      BY <1>15, <2>2 DEF PostFact, Types, TypeOK, IndexIsCaptured, disk, Attempts
  <1>16. CASE Complete(p)
    <2>1. attempt' \in [Callers -> Attempts] /\ AttemptsAreOK' /\ Quiet
      BY <1>16, Reset DEF Complete
    <2>2. attempt[p].result \in Results
      BY <1>16, FindingIsOne DEF Complete, At, Late
    <2>3. Result(p).status \in Statuses /\ Result(p).reused \subseteq WorkKinds
      BY <2>2 DEF Results, Result
    <2>4. Cites(p) \subseteq WorkKinds
      BY <2>3 DEF Cites, WorkKinds
    <2>5. outcome' \in [ status : Statuses, cites : SUBSET WorkKinds ]
      BY <1>16, <2>3, <2>4 DEF Complete
    <2> QED
      BY <1>16, <2>1, <2>5 DEF Complete, Types, TypeOK, IndexIsCaptured, disk, Attempts
  <1>17. CASE NotRun(p)
    <2>1. [ NoResult EXCEPT !.detail = "notRun", !.stamp = Now ] \in Results
      BY <1>17, NowIsAStamp DEF NotRun, NoResult, Results, Details, Statuses
    <2>2. "result" \in Places \ { "act" } /\ attempt[p].at # "idle"
      BY <1>17 DEF NotRun, Acts, At, Places
    <2>3. attempt' \in [Callers -> Attempts] /\ AttemptsAreOK' /\ Quiet
      BY <1>17, <2>1, <2>2, Yielded DEF NotRun, ledger
    <2>4. IndexIsCaptured' /\ index' \in [ Callers -> Indexes ]
      BY <1>17, Queried DEF NotRun, Acts, disk
    <2> QED
      BY <1>17, <2>3, <2>4 DEF NotRun, Types, TypeOK, disk, ledger, Attempts
  <1>18. CASE Throw(p)
    <2>1. attempt' \in [Callers -> Attempts] /\ AttemptsAreOK' /\ Quiet
      BY <1>18, Reset DEF Throw, ledger
    <2> QED
      BY <1>18, <2>1 DEF Throw, Types, TypeOK, IndexIsCaptured, disk, ledger, Attempts
  <1> QED
    BY <1>1, <1>2, <1>3, <1>4, <1>5, <1>6, <1>7, <1>8, <1>9, <1>10, <1>11, <1>12, <1>13,
       <1>14, <1>15, <1>16, <1>17, <1>18

\* A process that dies loses its attempt and its index.
LEMMA Died ==
  ASSUME Types, NEW p \in Callers, NEW damage \in BOOLEAN, Die(p, damage),
         UNCHANGED <<action, ledger, runs>>,
         tree' \in Trees, checkpoint' = checkpoint,
         evidence' \in [ Kinds -> Findings \union {NoRecord, Torn} ],
         \A k \in Kinds : evidence[k] # NoRecord => evidence'[k] # NoRecord
  PROVE  Types' /\ Quiet
  <1>1. attempt' \in [Callers -> Attempts] /\ AttemptsAreOK' /\ Quiet
    BY Reset DEF Die, ledger
  <1>2. faults' \in 0 .. MaxFaults /\ lost' \in BOOLEAN
    BY UnitAssumption DEF Die, Types, TypeOK
  <1>3. index \in [ Callers -> Indexes ]
          /\ index' = [ index EXCEPT ![p] = NoRecord ]
    BY DEF Types, TypeOK, Die
  <1>4. IndexIsCaptured'
    <2> SUFFICES ASSUME NEW q \in Callers, index'[q] # NoRecord, NEW k \in index'[q]
                 PROVE  evidence'[k] # NoRecord
      BY DEF IndexIsCaptured
    <2>1. index'[q] = index[q] /\ index[q] # NoRecord
      BY <1>3
    <2>2. index[q] \subseteq WorkKinds
      BY <1>3, <2>1, IndexesAre
    <2> QED
      BY <2>1, <2>2 DEF Types, IndexIsCaptured, Kinds
  <1>5. index' \in [ Callers -> Indexes ]
    BY <1>3, IndexesAre
  <1>6. TypeOK'
    BY <1>1, <1>2, <1>5 DEF Types, TypeOK, ledger, Attempts
  <1> QED
    BY <1>1, <1>4, <1>6 DEF Types

\* So does every way a process can die.
LEMMA QuietFaults ==
  ASSUME Types, NEW p \in Callers,
         Crash(p) \/ CrashInWrite(p) \/ CrashInCapture(p) \/ CrashAfterRun(p)
  PROVE  Types' /\ Quiet
  <1>1. CASE Crash(p)
    BY <1>1, Died DEF Crash, disk, Types, TypeOK
  <1>2. CASE CrashInWrite(p)
    BY <1>2, Died DEF CrashInWrite, Types, TypeOK, Trees
  <1>3. CASE CrashInCapture(p)
    <2>1. evidence' \in [ Kinds -> Findings \union {NoRecord, Torn} ]
      BY <1>3 DEF CrashInCapture, Types, TypeOK
    <2>2. \A k \in Kinds : evidence[k] # NoRecord => evidence'[k] # NoRecord
      BY <1>3, UnitAssumption DEF CrashInCapture, Types, TypeOK
    <2> QED
      BY <1>3, <2>1, <2>2, Died DEF CrashInCapture, Types, TypeOK
  <1>4. CASE CrashAfterRun(p)
    BY <1>4, Died DEF CrashAfterRun, Types, TypeOK, Trees
  <1> QED
    BY <1>1, <1>2, <1>3, <1>4

-------------------------------------------------------------------------------
(* The invariant.                                                          *)

\* A unit nobody requested satisfies the invariant.
LEMMA InitIsFine == Init => IInv
  <1> SUFFICES ASSUME Init PROVE IInv
    OBVIOUS
  <1>1. attempt \in [Callers -> Attempts] /\ \A p \in Callers : attempt[p] = Idle
    BY IdleIsOK DEF Init
  <1>2. Idle.at = "idle" /\ Idle.prior = FALSE
    BY DEF Idle
  <1>3. TypeOK
    <2>1. index \in [ Callers -> Indexes ]
      BY IndexesAre DEF Init
    <2>2. 0 \in 0 .. MaxFaults
      BY UnitAssumption
    <2> QED
      BY <1>1, <2>1, <2>2 DEF Init, TypeOK, Attempts, Trees
  <1>4. AttemptsAreOK
    BY <1>1, IdleIsOK DEF AttemptsAreOK
  <1>5. IndexIsCaptured
    BY DEF Init, IndexIsCaptured
  <1>6. StartIsRecorded /\ OneIsFresh
    BY <1>1, <1>2 DEF Init, StartIsRecorded, OneIsFresh, Fresh
  <1> QED
    BY <1>3, <1>4, <1>5, <1>6 DEF IInv

\* What is quiet keeps the invariant.
LEMMA QuietIsFine ==
  ASSUME IInv, Types', Quiet
  PROVE  IInv'
  <1>1. StartIsRecorded'
    BY DEF IInv, StartIsRecorded, Quiet
  <1>2. \A p \in Callers : Fresh(p)' => Fresh(p)
    BY DEF Fresh, Quiet
  <1>3. OneIsFresh'
    BY <1>2 DEF IInv, OneIsFresh, Quiet
  <1> QED
    BY <1>1, <1>3 DEF IInv, Types

\* The three steps that lead to the command.
LEMMA BeginIsFine ==
  ASSUME IInv, NEW p \in Callers, Begin(p)
  PROVE  IInv'
  <1> DEFINE a == [ Idle EXCEPT !.at = IF "pre" \in chain THEN "check" ELSE "pre",
                                !.stamp = IF started = NoStamp THEN Now ELSE started,
                                !.prior = started # NoStamp ]
  <1>1. attempt \in [Callers -> Attempts] /\ attempt' = [ attempt EXCEPT ![p] = a ]
    BY DEF Begin, IInv, TypeOK, Attempts
  <1>2. (IF started = NoStamp THEN Now ELSE started) \in Stamps
    BY NowIsAStamp DEF Begin, IInv, TypeOK
  <1>3. a \in Attempts /\ a.at \in { "check", "pre" } /\ a.prior = (started # NoStamp)
          /\ AttemptOK(a)
    BY <1>2 DEF Idle, Attempts, AttemptOK, Late, Places, NoResult
  <1> HIDE DEF a
  <1>4. attempt' \in [Callers -> Attempts] /\ AttemptsAreOK'
    BY <1>1, <1>3 DEF IInv, AttemptsAreOK
  <1>5. TypeOK' /\ IndexIsCaptured'
    BY <1>4 DEF IInv, Begin, TypeOK, IndexIsCaptured, disk, ledger, Attempts
  <1>6. StartIsRecorded'
    BY <1>1, <1>3 DEF IInv, Begin, StartIsRecorded, ledger
  <1>7. \A q \in Callers : Fresh(q)' => Fresh(q)
    BY <1>1, <1>3 DEF Fresh
  <1>8. OneIsFresh'
    BY <1>7 DEF IInv, Begin, OneIsFresh, ledger
  <1> QED
    BY <1>4, <1>5, <1>6, <1>8 DEF IInv

\* An attempt learns whether the unit was started before.
LEMMA CheckIsFine ==
  ASSUME IInv, NEW p \in Callers, Check(p)
  PROVE  IInv'
  <1> DEFINE place == IF attempt[p].prior THEN "act" ELSE "start"
             there == "post" \in chain
             a == [ attempt[p] EXCEPT !.at = place, !.posted = there ]
  <1>0. place \in { "act", "start" } /\ there \in BOOLEAN
          /\ (place = "act" <=> attempt[p].prior)
    OBVIOUS
  <1>1. attempt \in [Callers -> Attempts] /\ attempt' = [ attempt EXCEPT ![p] = a ]
    <2>1. attempt \in [Callers -> Attempts]
      BY DEF IInv, TypeOK, Attempts
    <2>2. attempt' = [ attempt EXCEPT ![p].at = place, ![p].posted = there ]
      BY DEF Check
    <2> HIDE DEF place, there
    <2> QED
      BY <2>1, <2>2
  <1>2. AttemptOK(attempt[p]) /\ attempt[p].at = "check"
    BY DEF Check, At, IInv, AttemptsAreOK
  <1> HIDE DEF place, there
  <1>3. a \in Attempts /\ a.at = place /\ a.prior = attempt[p].prior
          /\ a.stamp = attempt[p].stamp
    BY <1>0, <1>1 DEF Attempts, Places
  <1>4. AttemptOK(a)
    BY <1>0, <1>2, <1>3 DEF AttemptOK, Late
  <1> HIDE DEF a
  <1>5. attempt' \in [Callers -> Attempts] /\ AttemptsAreOK'
    BY <1>1, <1>3, <1>4 DEF IInv, AttemptsAreOK
  <1>6. TypeOK' /\ IndexIsCaptured'
    BY <1>5 DEF IInv, Check, TypeOK, IndexIsCaptured, disk, ledger, Attempts
  <1>7. StartIsRecorded'
    BY <1>0, <1>1, <1>3 DEF IInv, Check, StartIsRecorded, ledger
  <1>8. \A q \in Callers : Fresh(q)' => Fresh(q)
    BY <1>0, <1>1, <1>3 DEF Fresh
  <1>9. OneIsFresh'
    BY <1>8 DEF IInv, Check, OneIsFresh, ledger
  <1> QED
    BY <1>5, <1>6, <1>7, <1>9 DEF IInv

\* Only one attempt appends the start fact, and it is the fresh one.
LEMMA StartIsFine ==
  ASSUME IInv, NEW p \in Callers, Start(p)
  PROVE  IInv'
  <1> DEFINE a == [ attempt[p] EXCEPT !.at = "act" ]
  <1>1. attempt \in [Callers -> Attempts] /\ attempt' = [ attempt EXCEPT ![p] = a ]
    BY DEF Start, To, IInv, TypeOK, Attempts
  <1>2. AttemptOK(attempt[p]) /\ attempt[p].stamp \in Stamps
    BY DEF Start, At, IInv, AttemptsAreOK, AttemptOK
  <1>3. a \in Attempts /\ a.at = "act" /\ a.stamp = attempt[p].stamp
    BY <1>1 DEF Attempts, Places
  <1>4. AttemptOK(a)
    BY <1>2, <1>3 DEF AttemptOK, Late
  <1> HIDE DEF a
  <1>5. attempt' \in [Callers -> Attempts] /\ AttemptsAreOK'
    BY <1>1, <1>3, <1>4 DEF IInv, AttemptsAreOK
  <1>6. started' \in Stamps /\ started' # NoStamp
    BY <1>2, UnitAssumption DEF Start
  <1>7. TypeOK' /\ IndexIsCaptured'
    BY <1>5, <1>6 DEF IInv, Start, TypeOK, IndexIsCaptured, disk, Attempts
  <1>8. started = NoStamp /\ runs' = runs /\ runs = 0
    BY DEF Start, IInv, OneIsFresh
  <1>9. \A q \in Callers : Fresh(q)' => q = p
    BY <1>1, <1>8 DEF IInv, StartIsRecorded, Fresh
  <1>10. StartIsRecorded' /\ OneIsFresh'
    BY <1>6, <1>8, <1>9 DEF StartIsRecorded, OneIsFresh
  <1> QED
    BY <1>5, <1>7, <1>10 DEF IInv

\* Only the fresh attempt starts the command; none is fresh afterwards.
LEMMA SpawnIsFine ==
  ASSUME IInv, NEW p \in Callers, Spawn(p)
  PROVE  IInv'
  <1>1. Types /\ Fresh(p) /\ attempt[p].at = "act"
    BY DEF IInv, Types, Spawn, Acts, At, Fresh
  <1>2. "running" \in Places /\ "running" # "act" /\ "running" \notin Late
    BY DEF Places, Late
  <1>3. attempt' \in [Callers -> Attempts] /\ AttemptsAreOK'
    BY <1>1, <1>2, Moved DEF Spawn
  <1>4. index' \in [ Callers -> Indexes ] /\ IndexIsCaptured'
    BY <1>1, Queried DEF Spawn, Acts, disk
  <1>5. runs = 0 /\ runs' = 1 /\ started' = started /\ started # NoStamp
    BY <1>1 DEF IInv, OneIsFresh, StartIsRecorded, Spawn, ledger
  <1>6. TypeOK'
    BY <1>3, <1>4, <1>5 DEF IInv, TypeOK, Spawn, disk, ledger, Attempts
  <1>7. attempt \in [Callers -> Attempts]
          /\ attempt' = [ attempt EXCEPT ![p] = [ attempt[p] EXCEPT !.at = "running" ] ]
    BY <1>1 DEF Spawn, To, Types, TypeOK, Attempts
  <1>8. \A q \in Callers : ~Fresh(q)'
    <2> TAKE q \in Callers
    <2>1. CASE q = p
      BY <1>7, <2>1 DEF Fresh, Attempts
    <2>2. CASE q # p
      BY <1>1, <1>7, <2>2 DEF Fresh, IInv, OneIsFresh
    <2> QED
      BY <2>1, <2>2
  <1>9. StartIsRecorded' /\ OneIsFresh'
    BY <1>5, <1>8 DEF StartIsRecorded, OneIsFresh
  <1> QED
    BY <1>3, <1>4, <1>6, <1>9 DEF IInv

\* Every step keeps the invariant.
LEMMA NextIsFine == IInv /\ [Next]_vars => IInv'
  <1> SUFFICES ASSUME IInv, [Next]_vars PROVE IInv'
    OBVIOUS
  <1>1. Types
    BY DEF IInv, Types
  <1>2. CASE UNCHANGED vars
    <2>1. Types'
      BY <1>1, <1>2 DEF Types, TypeOK, AttemptsAreOK, IndexIsCaptured, vars, disk, ledger
    <2>2. Quiet
      BY <1>2 DEF Quiet, vars, ledger
    <2> QED
      BY <2>1, <2>2, QuietIsFine
  <1>3. ASSUME NEW p \in Callers,
               Begin(p) \/ Step(p) \/ Crash(p) \/ CrashInWrite(p) \/ CrashInCapture(p)
                 \/ CrashAfterRun(p)
        PROVE  IInv'
    <2>1. CASE Begin(p)
      BY <2>1, BeginIsFine
    <2>2. CASE Check(p)
      BY <2>2, CheckIsFine
    <2>3. CASE Start(p)
      BY <2>3, StartIsFine
    <2>4. CASE Spawn(p)
      BY <2>4, SpawnIsFine
    <2>5. CASE Crash(p) \/ CrashInWrite(p) \/ CrashInCapture(p) \/ CrashAfterRun(p)
      BY <1>1, <2>5, QuietFaults, QuietIsFine
    <2>6. CASE Step(p) /\ ~(Check(p) \/ Start(p) \/ Spawn(p))
      BY <1>1, <2>6, QuietCalls, QuietIsFine DEF Step
    <2> QED
      BY <1>3, <2>1, <2>2, <2>3, <2>4, <2>5, <2>6
  <1> QED
    BY <1>2, <1>3 DEF Next

\* The inductive invariant holds.
THEOREM Invariance == Spec => []IInv
  BY InitIsFine, NextIsFine, PTL DEF Spec

\* The state of a work unit is always well formed: of the types in TypeOK.
THEOREM TypeCorrectness == Spec => []TypeOK
  <1>1. IInv => TypeOK
    BY DEF IInv
  <1> QED
    BY <1>1, Invariance, PTL

\* However many processes make the request, however often they die and wherever,
\* executeWorkUnit starts the command at most once.
THEOREM CommandsRunOnce == Spec => []CommandRunsOnce
  <1>1. IInv => CommandRunsOnce
    BY DEF IInv, OneIsFresh, CommandRunsOnce
  <1> QED
    BY <1>1, Invariance, PTL

-------------------------------------------------------------------------------
(* What the outcome of a unit rests on.                                    *)

Whole(k) == evidence[k] \in Findings

Last == { "post", "postEvidence", "postFact", "complete" }

\* Everything a result cites is there, and some of it says what the result says.
Rests(p) ==
  /\ \A k \in Cites(p) : Whole(k)
  /\ \E k \in Cites(p) : evidence[k].status = Result(p).status

\* How far an attempt has come with the evidence of its result.
Sound(p) ==
  /\ attempt[p].at \in Late \union { "running" } => started # NoStamp
  /\ attempt[p].at = "running" => action = "command" /\ index[p] # NoRecord
  /\ At(p, "recovery") =>
       /\ Result(p).unproven /\ Result(p).status = "FAILED"
       /\ \A k \in Result(p).reused : Whole(k)
  /\ attempt[p].at \in { "result", "command", "observed" } =>
       ~Result(p).unproven /\ Result(p).reused = {} /\ index[p] # NoRecord
  /\ attempt[p].at \in { "command", "observed" } =>
       "result" \in index[p] /\ evidence["result"] = Finding(p)
  /\ At(p, "command") => action = "command" /\ Result(p).detail = "acted"
  /\ At(p, "observed") =>
       Result(p).status = "SUCCEEDED" /\ ~(action = "command" /\ Result(p).detail = "acted")
  /\ attempt[p].at \in Last => Rests(p)
  /\ At(p, "complete") => "post" \in chain

\* The evidence of a command or of what was written comes after that of the result, in
\* the store and in every index.
EvidenceIsOrdered ==
  /\ \A k \in { "command", "observed" } :
       evidence[k] # NoRecord => evidence["result"] # NoRecord
  /\ \A p \in Callers :
       index[p] # NoRecord /\ index[p] \intersect { "command", "observed" } # {}
         => "result" \in index[p]

AllIsBacked ==
  (\A p \in Callers : Sound(p)) /\ EvidenceIsOrdered /\ OutcomeIsBacked

\* What is stored stays.
Kept ==
  /\ action' = action /\ chain \subseteq chain'
  /\ \A k \in Kinds : evidence[k] \in Findings => evidence'[k] = evidence[k]
  /\ \A k \in Kinds : evidence[k] # NoRecord => evidence'[k] # NoRecord
  /\ started # NoStamp => started' # NoStamp

\* What a result cites is evidence of the unit.
LEMMA CitesAre ==
  ASSUME Types, NEW p \in Callers, attempt[p].at \in Late
  PROVE  Cites(p) \subseteq Kinds /\ Result(p).reused \subseteq Kinds
  <1>1. attempt[p].result \in Results
    BY FindingIsOne
  <1>2. Result(p).reused \subseteq WorkKinds
    BY <1>1 DEF Results, Result
  <1> QED
    BY <1>2 DEF Cites, WorkKinds, Kinds

\* What a result rests on stays.
LEMMA RestsStay ==
  ASSUME Types, Kept, NEW p \in Callers, attempt[p].at \in Late, Rests(p),
         attempt'[p].result = attempt[p].result
  PROVE  Rests(p)'
  <1>1. Cites(p) \subseteq Kinds
    BY CitesAre
  <1>2. Cites(p)' = Cites(p) /\ Result(p)' = Result(p)
    BY DEF Kept, Cites, Result
  <1>3. \A k \in Cites(p) : evidence[k] \in Findings /\ evidence'[k] = evidence[k]
    BY <1>1 DEF Rests, Whole, Kept
  <1> QED
    BY <1>2, <1>3 DEF Rests, Whole

\* The others are not affected by what a process does.
LEMMA OthersStaySound ==
  ASSUME Types, Kept, NEW q \in Callers, Sound(q),
         attempt'[q] = attempt[q], index'[q] = index[q]
  PROVE  Sound(q)'
  <1>1. attempt[q].at \in Late => Result(q).reused \subseteq Kinds
    BY CitesAre
  <1>2. At(q, "recovery") => \A k \in Result(q).reused : Whole(k)'
    BY <1>1 DEF Sound, At, Late, Whole, Kept
  <1>3. attempt[q].at \in Last => Rests(q)'
    BY RestsStay DEF Sound, Last, Late
  <1>4. attempt[q].at \in { "command", "observed" } => evidence'["result"] = evidence["result"]
    <2>1. attempt[q].at \in { "command", "observed" } => evidence["result"] \in Findings
      BY FindingIsOne DEF Sound, Late
    <2> QED
      BY <2>1 DEF Kept, Kinds, WorkKinds
  <1>5. Result(q)' = Result(q) /\ Finding(q)' = Finding(q) /\ action' = action
        /\ chain \subseteq chain' /\ (started # NoStamp => started' # NoStamp)
    BY DEF Kept, Result, Finding
  <1> QED
    BY <1>2, <1>3, <1>4, <1>5 DEF Sound, At

LEMMA OutcomeStays ==
  ASSUME Types, Types', Kept, OutcomeIsBacked, outcome' = outcome
  PROVE  OutcomeIsBacked'
  <1> SUFFICES ASSUME outcome # NoRecord PROVE OutcomeIsBacked'
    BY DEF OutcomeIsBacked
  <1>1. outcome.cites \subseteq Kinds
    BY DEF Types, TypeOK, Kinds
  <1>2. \A k \in outcome.cites : evidence[k] \in Findings /\ evidence'[k] = evidence[k]
    BY <1>1 DEF OutcomeIsBacked, Kept
  <1>3. chain' = { "pre", "post" } /\ started' # NoStamp
    BY DEF OutcomeIsBacked, Kept, Types, TypeOK
  <1> QED
    BY <1>2, <1>3 DEF OutcomeIsBacked

\* It is enough to look at the process that made the step.
LEMMA OneIsSound ==
  ASSUME Types, Types', AllIsBacked, Kept, NEW p \in Callers,
         \A q \in Callers \ {p} : attempt'[q] = attempt[q] /\ index'[q] = index[q],
         Sound(p)', EvidenceIsOrdered', OutcomeIsBacked'
  PROVE  AllIsBacked'
  <1>1. ASSUME NEW q \in Callers \ {p} PROVE Sound(q)'
    BY OthersStaySound DEF AllIsBacked
  <1> QED
    BY <1>1 DEF AllIsBacked

\* An attempt that has no result has nothing to rest on.
LEMMA EarlyIsSound ==
  ASSUME NEW p \in Callers, attempt[p].at \notin Late \union { "running" }
  PROVE  Sound(p)
  BY DEF Sound, At, Late, Last

LEMMA EarlyIsSoundNext ==
  ASSUME NEW p \in Callers, attempt'[p].at \notin Late \union { "running" }
  PROVE  Sound(p)'
  BY DEF Sound, At, Late, Last

\* Where an attempt is after it went on.
LEMMA ToIs ==
  ASSUME Types, NEW p \in Callers, NEW place, To(p, place)
  PROVE  /\ attempt'[p].at = place /\ attempt'[p].result = attempt[p].result
         /\ attempt'[p].stamp = attempt[p].stamp /\ attempt'[p].prior = attempt[p].prior
         /\ attempt'[p].posted = attempt[p].posted
         /\ \A q \in Callers \ {p} : attempt'[q] = attempt[q]
  <1>1. attempt \in [ Callers -> Attempts ]
    BY DEF Types, TypeOK, Attempts
  <1> QED
    BY <1>1 DEF To, Attempts

LEMMA YieldIs ==
  ASSUME Types, NEW p \in Callers, NEW place, NEW result, Yield(p, place, result)
  PROVE  /\ attempt'[p].at = place /\ attempt'[p].result = result
         /\ attempt'[p].stamp = attempt[p].stamp /\ attempt'[p].prior = attempt[p].prior
         /\ attempt'[p].posted = attempt[p].posted
         /\ \A q \in Callers \ {p} : attempt'[q] = attempt[q]
  <1>1. attempt \in [ Callers -> Attempts ]
    BY DEF Types, TypeOK, Attempts
  <1> QED
    BY <1>1 DEF Yield, Attempts

\* Evidence that is captured is there, and the process knows of it.
LEMMA CapturedIs ==
  ASSUME Types, AllIsBacked, NEW p \in Callers, NEW kind \in Kinds, NEW record \in Findings,
         NEW next, Capture(p, kind, record, next)
  PROVE  /\ Kept /\ outcome' = outcome /\ evidence'[kind] = record
         /\ \A k \in Kinds \ {kind} : evidence'[k] = evidence[k]
         /\ \A q \in Callers \ {p} : attempt'[q] = attempt[q] /\ index'[q] = index[q]
         /\ index[p] # NoRecord /\ kind \in WorkKinds => index'[p] = index[p] \union {kind}
         /\ index[p] = NoRecord \/ kind \notin WorkKinds => index'[p] = index[p]
         /\ attempt'[p].at = next /\ attempt'[p].result = attempt[p].result
  <1>1. evidence \in [ Kinds -> Findings \union {NoRecord, Torn} ]
        /\ index \in [ Callers -> Indexes ]
    BY DEF Types, TypeOK
  <1>2. evidence'[kind] = record /\ \A k \in Kinds \ {kind} : evidence'[k] = evidence[k]
    BY <1>1 DEF Capture
  <1>3. evidence[kind] \in { NoRecord, record } /\ NoRecord \notin Findings
    BY UnitAssumption DEF Capture, MayCapture
  <1>4. Kept
    BY <1>2, <1>3 DEF Kept, Capture, ledger
  <1>5. To(p, next) /\ outcome' = outcome
    BY DEF Capture, ledger
  <1>6. /\ \A q \in Callers \ {p} : index'[q] = index[q]
        /\ index[p] # NoRecord /\ kind \in WorkKinds => index'[p] = index[p] \union {kind}
        /\ index[p] = NoRecord \/ kind \notin WorkKinds => index'[p] = index[p]
    BY <1>1 DEF Capture
  <1> QED
    BY <1>2, <1>4, <1>5, <1>6, ToIs

\* An index or a store that grows as it should is ordered.
LEMMA OrderIsKept ==
  ASSUME Types, AllIsBacked, NEW p \in Callers, NEW kind \in Kinds, NEW record \in Findings,
         NEW next, Capture(p, kind, record, next),
         kind \in { "command", "observed" } =>
           evidence["result"] # NoRecord /\ (index[p] # NoRecord => "result" \in index[p])
  PROVE  EvidenceIsOrdered'
  <1>1. /\ evidence'[kind] = record /\ \A k \in Kinds \ {kind} : evidence'[k] = evidence[k]
        /\ \A q \in Callers \ {p} : index'[q] = index[q]
        /\ index[p] # NoRecord /\ kind \in WorkKinds => index'[p] = index[p] \union {kind}
        /\ index[p] = NoRecord \/ kind \notin WorkKinds => index'[p] = index[p]
    BY CapturedIs
  <1>2. EvidenceIsOrdered /\ NoRecord \notin Findings
    BY UnitAssumption DEF AllIsBacked
  <1>3. \A k \in { "command", "observed" } :
          evidence'[k] # NoRecord => evidence'["result"] # NoRecord
    BY <1>1, <1>2 DEF EvidenceIsOrdered, Kinds, WorkKinds
  <1>4. ASSUME NEW q \in Callers, index'[q] # NoRecord,
               index'[q] \intersect { "command", "observed" } # {}
        PROVE  "result" \in index'[q]
    <2>1. CASE q # p \/ index'[p] = index[p]
      BY <1>1, <1>2, <1>4, <2>1 DEF EvidenceIsOrdered
    <2>2. CASE q = p /\ index[p] # NoRecord /\ index'[p] = index[p] \union {kind}
      BY <1>2, <1>4, <2>2 DEF EvidenceIsOrdered
    <2> QED
      BY <1>1, <2>1, <2>2
  <1> QED
    BY <1>3, <1>4 DEF EvidenceIsOrdered

-------------------------------------------------------------------------------
(* Every step keeps it.                                                    *)

\* What a query finds is ordered as the store is.
LEMMA QueryIs ==
  ASSUME Types, AllIsBacked, NEW p \in Callers, Query(p)
  PROVE  /\ index'[p] = Known(p) /\ Known(p) # NoRecord
         /\ \A k \in Known(p) : Whole(k)
         /\ \A q \in Callers \ {p} : index'[q] = index[q]
         /\ Known(p) # {} => HasPrimary(p)
         /\ UNCHANGED evidence => EvidenceIsOrdered'
  <1>1. index \in [ Callers -> Indexes ] /\ index' = [ index EXCEPT ![p] = Known(p) ]
    BY DEF Types, TypeOK, Query
  <1>2. Known(p) \subseteq WorkKinds /\ \A k \in Known(p) : evidence[k] \in Findings
    BY Queried
  <1>3. Known(p) # NoRecord
    BY <1>2, UnitAssumption
  <1>4. Known(p) \intersect { "command", "observed" } # {} => "result" \in Known(p)
    BY DEF AllIsBacked, EvidenceIsOrdered, Known, WorkKinds
  <1>5. Known(p) # {} => HasPrimary(p)
    BY <1>2, <1>4 DEF HasPrimary, WorkKinds
  <1>6. ASSUME UNCHANGED evidence PROVE EvidenceIsOrdered'
    BY <1>1, <1>4, <1>6 DEF AllIsBacked, EvidenceIsOrdered
  <1> QED
    BY <1>1, <1>2, <1>3, <1>5, <1>6 DEF Whole

\* Steps that leave what is stored as it is.
LEMMA NothingStored ==
  ASSUME UNCHANGED <<action, evidence, chain, started>> PROVE Kept
  BY DEF Kept

\* What is recalled.
LEMMA ReusedIs ==
  ASSUME NEW p \in Callers, NEW complete \in BOOLEAN, NEW detail
  PROVE  /\ complete => Reused(p, complete, detail).unproven = FALSE
         /\ ~complete => Reused(p, complete, detail).unproven = TRUE
         /\ Reused(p, complete, detail).reused = Known(p)
         /\ Reused(p, complete, detail).status =
              IF complete /\ HasPrimary(p) THEN Primary(p).status ELSE "FAILED"
  BY DEF Reused

\* Evidence that is recalled is what the result rests on, when it is complete.
LEMMA RecallIsSound ==
  ASSUME IInv, AllIsBacked, Types', NEW p \in Callers, At(p, "act"), Query(p),
         NEW complete \in BOOLEAN, NEW detail, Recall(p, complete, detail),
         complete => Known(p) # {}
  PROVE  AllIsBacked'
  <1>1. Types
    BY DEF IInv, Types
  <1>2. Kept /\ OutcomeIsBacked' /\ UNCHANGED <<action, evidence, chain, started>>
    BY <1>1, NothingStored, OutcomeStays DEF Recall, disk, ledger, AllIsBacked
  <1>3. /\ attempt'[p].at = IF complete THEN "post" ELSE "recovery"
        /\ attempt'[p].result = Reused(p, complete, detail)
        /\ \A q \in Callers \ {p} : attempt'[q] = attempt[q]
    BY <1>1, YieldIs DEF Recall
  <1>4. /\ index'[p] = Known(p) /\ \A k \in Known(p) : Whole(k)
        /\ \A q \in Callers \ {p} : index'[q] = index[q]
        /\ Known(p) # {} => HasPrimary(p)
        /\ EvidenceIsOrdered'
    BY <1>1, <1>2, QueryIs
  <1>5. started # NoStamp
    BY DEF IInv, StartIsRecorded, At
  <1>6. CASE ~complete
    <2>1. /\ attempt'[p].at = "recovery" /\ attempt'[p].result.unproven = TRUE
          /\ attempt'[p].result.status = "FAILED" /\ attempt'[p].result.reused = Known(p)
      BY <1>3, <1>6, ReusedIs
    <2>2. \A k \in attempt'[p].result.reused : Whole(k)'
      BY <1>2, <1>4, <2>1 DEF Whole
    <2>3. Sound(p)'
      BY <1>2, <1>5, <2>1, <2>2 DEF Sound, At, Result, Last, Late
    <2> QED
      BY <1>1, <1>2, <1>3, <1>4, <2>3, OneIsSound
  <1>7. CASE complete
    <2>1. /\ attempt'[p].at = "post" /\ attempt'[p].result.unproven = FALSE
          /\ attempt'[p].result.status = Primary(p).status
          /\ attempt'[p].result.reused = Known(p) /\ Known(p) # {}
      <3>1. HasPrimary(p) /\ Known(p) # {}
        BY <1>4, <1>7
      <3> QED
        BY <1>3, <1>7, <3>1, ReusedIs
    <2>2. PICK known : known = Known(p)
      OBVIOUS
    <2>3. Cites(p)' = known
      BY <2>1, <2>2 DEF Cites, Result
    <2>4. \E k \in known : evidence'[k].status = Result(p)'.status
      BY <1>2, <1>4, <2>1, <2>2 DEF HasPrimary, Primary, Result
    <2>5. \A k \in known : Whole(k)'
      BY <1>2, <1>4, <2>2 DEF Whole
    <2>6. Rests(p)'
      BY <2>3, <2>4, <2>5 DEF Rests
    <2>7. Sound(p)'
      BY <1>2, <1>5, <2>1, <2>6 DEF Sound, At, Last, Late
    <2> QED
      BY <1>1, <1>2, <1>3, <1>4, <2>7, OneIsSound
  <1> QED
    BY <1>6, <1>7

\* A command that is started, and an action that was carried out or refused.
LEMMA ActingIsSound ==
  ASSUME IInv, AllIsBacked, Types', NEW p \in Callers,
         Spawn(p) \/ NotRun(p) \/ Write(p) \/ Exit(p)
  PROVE  AllIsBacked'
  <1>1. Types /\ attempt[p].at \in { "act", "running" }
    BY DEF IInv, Types, Spawn, NotRun, Write, Writing, Acts, Exit, At
  <1>2. Kept /\ OutcomeIsBacked' /\ UNCHANGED <<action, evidence, chain, started>>
    BY <1>1, NothingStored, OutcomeStays
       DEF Spawn, NotRun, Write, Exit, disk, ledger, AllIsBacked
  <1>3. started # NoStamp
    BY <1>1 DEF IInv, StartIsRecorded, AllIsBacked, Sound
  <1>4. /\ index'[p] # NoRecord /\ EvidenceIsOrdered'
        /\ \A q \in Callers \ {p} : index'[q] = index[q]
    <2>1. CASE Exit(p)
      BY <1>2, <2>1 DEF Exit, At, AllIsBacked, Sound, EvidenceIsOrdered
    <2>2. CASE Spawn(p) \/ NotRun(p) \/ Write(p)
      BY <1>1, <1>2, <2>2, QueryIs DEF Spawn, NotRun, Write, Writing, Acts
    <2> QED
      BY <2>1, <2>2
  <1>5. CASE Spawn(p)
    <2>1. attempt'[p].at = "running" /\ action = "command"
          /\ \A q \in Callers \ {p} : attempt'[q] = attempt[q]
      BY <1>1, <1>5, ToIs DEF Spawn
    <2>2. Sound(p)'
      BY <1>2, <1>3, <1>4, <2>1 DEF Sound, At, Last, Late
    <2> QED
      BY <1>1, <1>2, <1>4, <2>1, <2>2, OneIsSound
  <1>6. CASE NotRun(p) \/ Write(p) \/ Exit(p)
    <2>1. PICK result : /\ Yield(p, "result", result)
                        /\ ~result.unproven /\ result.reused = {}
      <3>1. CASE NotRun(p)
        <4> DEFINE refused == [ NoResult EXCEPT !.detail = "notRun", !.stamp = Now ]
        <4>1. Yield(p, "result", refused)
          BY <3>1 DEF NotRun
        <4>2. ~refused.unproven /\ refused.reused = {}
          BY DEF NoResult
        <4> QED
          BY <4>1, <4>2
      <3>2. CASE Write(p) \/ Exit(p)
        <4>1. PICK status : Acted(p, status)
          BY <3>2 DEF Write, Exit
        <4> DEFINE acted == [ NoResult EXCEPT !.status = status, !.stamp = Now ]
        <4>2. Yield(p, "result", acted)
          BY <4>1 DEF Acted
        <4>3. ~acted.unproven /\ acted.reused = {}
          BY DEF NoResult
        <4> QED
          BY <4>2, <4>3
      <3> QED
        BY <1>6, <3>1, <3>2
    <2>2. attempt'[p].at = "result" /\ attempt'[p].result = result
          /\ \A q \in Callers \ {p} : attempt'[q] = attempt[q]
      BY <1>1, <2>1, YieldIs
    <2>3. Sound(p)'
      BY <1>2, <1>3, <1>4, <2>1, <2>2 DEF Sound, At, Result, Last, Late
    <2> QED
      BY <1>1, <1>2, <1>4, <2>2, <2>3, OneIsSound
  <1> QED
    BY <1>5, <1>6

\* The evidence of the result is what the later evidence goes with.
LEMMA ResultIsSound ==
  ASSUME IInv, AllIsBacked, Types', NEW p \in Callers, ResultEvidence(p)
  PROVE  AllIsBacked'
  <1> DEFINE next == IF action = "command" /\ Result(p).detail = "acted" THEN "command"
                     ELSE IF Result(p).status = "SUCCEEDED" THEN "observed" ELSE "post"
  <1>1. Types /\ attempt[p].at = "result" /\ Capture(p, "result", Finding(p), next)
    BY DEF IInv, Types, ResultEvidence, At
  <1>2. Finding(p) \in Findings /\ "result" \in Kinds /\ "result" \in WorkKinds
    BY <1>1, FindingIsOne DEF Late, Kinds, WorkKinds
  <1>3. ~Result(p).unproven /\ Result(p).reused = {} /\ index[p] # NoRecord
        /\ started # NoStamp
    BY <1>1 DEF AllIsBacked, Sound, Late
  <1>4. /\ Kept /\ outcome' = outcome /\ evidence'["result"] = Finding(p)
        /\ \A q \in Callers \ {p} : attempt'[q] = attempt[q] /\ index'[q] = index[q]
        /\ index'[p] = index[p] \union { "result" }
        /\ attempt'[p].at = next /\ attempt'[p].result = attempt[p].result
    BY <1>1, <1>2, <1>3, CapturedIs
  <1>5. EvidenceIsOrdered'
    BY <1>1, <1>2, OrderIsKept
  <1>6. OutcomeIsBacked'
    BY <1>1, <1>4, OutcomeStays DEF AllIsBacked
  <1>7. Result(p)' = Result(p) /\ Finding(p)' = Finding(p) /\ action' = action
        /\ started' # NoStamp
    BY <1>3, <1>4 DEF Result, Finding, Kept
  <1>8. index'[p] # NoRecord /\ "result" \in index'[p]
    <2>1. index[p] \subseteq WorkKinds
      BY <1>1, <1>3, IndexesAre DEF Types, TypeOK
    <2>2. index'[p] \in SUBSET WorkKinds
      BY <1>4, <2>1 DEF WorkKinds
    <2> QED
      BY <1>4, <2>2, UnitAssumption
  <1>9. CASE next = "post"
    <2>1. Cites(p)' = { "result" }
      BY <1>3, <1>7, <1>9 DEF Cites
    <2>2. Rests(p)'
      BY <1>2, <1>4, <1>7, <2>1 DEF Rests, Whole, Finding
    <2> QED
      BY <1>1, <1>4, <1>5, <1>6, <1>7, <1>9, <2>2, OneIsSound DEF Sound, At, Last, Late
  <1>10. CASE next # "post"
    <2>1. Sound(p)'
      BY <1>3, <1>4, <1>7, <1>8, <1>10 DEF Sound, At, Last, Late
    <2> QED
      BY <1>1, <1>4, <1>5, <1>6, <2>1, OneIsSound
  <1> QED
    BY <1>9, <1>10

\* The evidence of what the result was reached by, or of why it was not.
LEMMA EvidenceIsSound ==
  ASSUME IInv, AllIsBacked, Types', NEW p \in Callers,
         RecoveryEvidence(p) \/ CommandEvidence(p) \/ ObservedEvidence(p)
  PROVE  AllIsBacked'
  <1>1. Types
    BY DEF IInv, Types
  <1>2. PICK kind \in { "recovery", "command", "observed" } :
          attempt[p].at = kind /\ Capture(p, kind, Finding(p), "post")
    BY DEF RecoveryEvidence, CommandEvidence, ObservedEvidence, At
  <1>3. Finding(p) \in Findings /\ kind \in Kinds /\ kind \in WorkKinds
    BY <1>1, <1>2, FindingIsOne DEF Late, Kinds, WorkKinds
  <1>4. /\ Sound(p) /\ started # NoStamp
        /\ kind \in { "command", "observed" } =>
             evidence["result"] = Finding(p) /\ "result" \in index[p]
    BY <1>2 DEF AllIsBacked, Sound, Late
  <1>5. /\ Kept /\ outcome' = outcome /\ evidence'[kind] = Finding(p)
        /\ \A k \in Kinds \ {kind} : evidence'[k] = evidence[k]
        /\ \A q \in Callers \ {p} : attempt'[q] = attempt[q] /\ index'[q] = index[q]
        /\ attempt'[p].at = "post" /\ attempt'[p].result = attempt[p].result
    BY <1>1, <1>2, <1>3, CapturedIs
  <1>6. EvidenceIsOrdered'
    BY <1>1, <1>2, <1>3, <1>4, OrderIsKept, UnitAssumption
  <1>7. OutcomeIsBacked'
    BY <1>1, <1>5, OutcomeStays DEF AllIsBacked
  <1>8. Result(p)' = Result(p) /\ action' = action /\ started' # NoStamp
        /\ Finding(p).status = Result(p).status
    BY <1>4, <1>5 DEF Result, Finding, Kept
  <1>9. Rests(p)'
    <2>1. CASE kind = "recovery"
      <3>1. Result(p).unproven /\ \A k \in Result(p).reused : k \in Kinds /\ Whole(k)
        BY <1>1, <1>2, <1>4, <2>1, CitesAre DEF Sound, At, Late
      <3>2. PICK reused : reused = Result(p).reused
        OBVIOUS
      <3>3. Cites(p)' = reused \union { "recovery" }
        BY <1>8, <3>1, <3>2 DEF Cites
      <3>4. \A k \in reused : evidence'[k] \in Findings
        BY <1>5, <3>1, <3>2 DEF Kept, Whole
      <3>5. evidence'["recovery"] \in Findings /\ evidence'["recovery"].status = Result(p)'.status
        BY <1>3, <1>5, <1>8, <2>1
      <3> QED
        BY <3>3, <3>4, <3>5 DEF Rests, Whole
    <2>2. CASE kind \in { "command", "observed" }
      <3>1. Cites(p)' = { "result", kind }
        BY <1>2, <1>4, <1>8, <2>2 DEF Cites, Sound, At
      <3>2. evidence'["result"] = Finding(p)
        BY <1>4, <1>5, <2>2 DEF Kinds, WorkKinds
      <3> QED
        BY <1>3, <1>5, <1>8, <3>1, <3>2 DEF Rests, Whole
    <2> QED
      BY <2>1, <2>2
  <1>10. Sound(p)'
    BY <1>5, <1>8, <1>9 DEF Sound, At, Last, Late
  <1> QED
    BY <1>1, <1>5, <1>6, <1>7, <1>10, OneIsSound

\* The post-work checkpoint.
LEMMA PostIsSound ==
  ASSUME IInv, AllIsBacked, Types', NEW p \in Callers,
         SkipPost(p) \/ PostCheckpoint(p) \/ PostEvidence(p) \/ PostFact(p)
  PROVE  AllIsBacked'
  <1>1. Types /\ attempt[p].at \in Last /\ attempt[p].at \in Late
    BY DEF IInv, Types, SkipPost, PostCheckpoint, PostEvidence, PostFact, At, Last, Late
  <1>2. /\ Kept /\ outcome' = outcome /\ EvidenceIsOrdered'
        /\ \A q \in Callers \ {p} : attempt'[q] = attempt[q] /\ index'[q] = index[q]
        /\ attempt'[p].at \in Last /\ attempt'[p].result = attempt[p].result
        /\ attempt'[p].at = "complete" => "post" \in chain'
    <2>1. CASE PostEvidence(p)
      <3>1. /\ Capture(p, "post", Observation(Result(p).stamp), "postFact")
            /\ "post" \in Kinds /\ "post" \notin WorkKinds
        BY <2>1 DEF PostEvidence, Kinds, WorkKinds
      <3>2. Observation(Result(p).stamp) \in Findings
        <4>1. attempt[p].result \in Results
          BY <1>1, FindingIsOne
        <4> QED
          BY <4>1 DEF Results, Result, Observation, Findings, Statuses, Details
      <3> QED
        BY <1>1, <3>1, <3>2, CapturedIs, OrderIsKept DEF Last
    <2>2. CASE SkipPost(p) \/ PostCheckpoint(p)
      <3>1. Kept /\ outcome' = outcome /\ UNCHANGED <<evidence, index, chain>>
        BY <2>2, NothingStored DEF SkipPost, PostCheckpoint, Persist, disk, ledger
      <3>2. EvidenceIsOrdered'
        BY <3>1 DEF AllIsBacked, EvidenceIsOrdered
      <3>3. PICK place \in { "complete", "postEvidence" } :
              To(p, place) /\ (place = "complete" => "post" \in chain)
        BY <2>2 DEF SkipPost, PostCheckpoint, Persist
      <3> QED
        BY <1>1, <3>1, <3>2, <3>3, ToIs DEF Last
    <2>3. CASE PostFact(p)
      <3>1. Kept /\ outcome' = outcome /\ UNCHANGED <<evidence, index>> /\ "post" \in chain'
        BY <2>3 DEF PostFact, Kept, disk
      <3>2. EvidenceIsOrdered'
        BY <3>1 DEF AllIsBacked, EvidenceIsOrdered
      <3> QED
        BY <1>1, <2>3, <3>1, <3>2, ToIs DEF PostFact, Last
    <2> QED
      BY <2>1, <2>2, <2>3
  <1>3. OutcomeIsBacked'
    BY <1>1, <1>2, OutcomeStays DEF AllIsBacked
  <1>4. Rests(p)'
    BY <1>1, <1>2, RestsStay DEF AllIsBacked, Sound
  <1>5. started' # NoStamp
    BY <1>1, <1>2 DEF AllIsBacked, Sound, Kept
  <1>6. Sound(p)'
    BY <1>2, <1>4, <1>5 DEF Sound, At, Last, Late
  <1> QED
    BY <1>1, <1>2, <1>3, <1>6, OneIsSound

\* What is completed rests on what the result rests on.
LEMMA CompleteIsSound ==
  ASSUME IInv, AllIsBacked, Types', NEW p \in Callers, Complete(p)
  PROVE  AllIsBacked'
  <1>1. Types /\ attempt[p].at = "complete"
    BY DEF IInv, Types, Complete, At
  <1>2. Kept /\ UNCHANGED <<evidence, index, chain, started>>
    BY NothingStored DEF Complete, disk
  <1>3. Rests(p) /\ "post" \in chain /\ started # NoStamp
    BY <1>1 DEF AllIsBacked, Sound, At, Last, Late
  <1>4. chain = { "pre", "post" }
    BY <1>3 DEF IInv, TypeOK
  <1>5. OutcomeIsBacked'
    BY <1>2, <1>3, <1>4 DEF OutcomeIsBacked, Complete, Rests, Whole
  <1>6. attempt'[p].at = "idle" /\ \A q \in Callers \ {p} : attempt'[q] = attempt[q]
    BY DEF Complete, IInv, TypeOK, Idle
  <1>7. Sound(p)' /\ EvidenceIsOrdered'
    BY <1>2, <1>6, EarlyIsSoundNext DEF Late, AllIsBacked, EvidenceIsOrdered
  <1> QED
    BY <1>1, <1>2, <1>5, <1>6, <1>7, OneIsSound

\* The steps of an attempt that has no result, and the end of one.
LEMMA EarlyStepsAreSound ==
  ASSUME IInv, AllIsBacked, Types', NEW p \in Callers,
         \/ Begin(p) \/ PreCheckpoint(p) \/ PreEvidence(p) \/ PreFact(p) \/ Check(p) \/ Start(p)
         \/ Throw(p)
  PROVE  AllIsBacked'
  <1>1. Types
    BY DEF IInv, Types
  <1>2. /\ Kept /\ outcome' = outcome /\ EvidenceIsOrdered'
        /\ \A q \in Callers \ {p} : attempt'[q] = attempt[q] /\ index'[q] = index[q]
        /\ attempt'[p].at \notin Late \union { "running" }
    <2>1. CASE PreEvidence(p)
      <3>1. Capture(p, "pre", Observation(attempt[p].stamp), "preFact")
            /\ Observation(attempt[p].stamp) \in Findings /\ "pre" \in Kinds
        BY <1>1, <2>1, StampIsOne DEF PreEvidence, At, Kinds
      <3> QED
        BY <1>1, <3>1, CapturedIs, OrderIsKept DEF Late
    <2>2. CASE Begin(p) \/ Check(p) \/ Throw(p)
      <3>1. Kept /\ outcome' = outcome /\ UNCHANGED <<evidence, index>>
        BY <2>2, NothingStored DEF Begin, Check, Throw, disk, ledger
      <3>2. EvidenceIsOrdered'
        BY <3>1 DEF AllIsBacked, EvidenceIsOrdered
      <3>3. attempt \in [ Callers -> Attempts ]
        BY <1>1 DEF Types, TypeOK, Attempts
      <3>4. attempt'[p].at \in { "check", "pre", "act", "start", "idle" }
        <4>1. CASE Begin(p)
          BY <3>3, <4>1 DEF Begin, Idle
        <4>2. CASE Check(p)
          BY <3>3, <4>2 DEF Check, Attempts
        <4>3. CASE Throw(p)
          BY <3>3, <4>3 DEF Throw, Idle
        <4> QED
          BY <2>2, <4>1, <4>2, <4>3
      <3>5. \A q \in Callers \ {p} : attempt'[q] = attempt[q]
        BY <2>2, <3>3 DEF Begin, Check, Throw
      <3> QED
        BY <3>1, <3>2, <3>4, <3>5 DEF Late
    <2>3. CASE PreCheckpoint(p) \/ PreFact(p) \/ Start(p)
      <3>1. Kept /\ outcome' = outcome /\ UNCHANGED <<evidence, index>>
        BY <1>1, <2>3, StampIsOne, UnitAssumption
           DEF PreCheckpoint, Persist, PreFact, Start, Kept, At, disk, ledger
      <3>2. EvidenceIsOrdered'
        BY <3>1 DEF AllIsBacked, EvidenceIsOrdered
      <3>3. PICK place \in { "preEvidence", "check", "act" } : To(p, place)
        BY <2>3 DEF PreCheckpoint, Persist, PreFact, Start
      <3> QED
        BY <1>1, <3>1, <3>2, <3>3, ToIs DEF Late
    <2> QED
      BY <2>1, <2>2, <2>3
  <1>3. OutcomeIsBacked'
    BY <1>1, <1>2, OutcomeStays DEF AllIsBacked
  <1>4. Sound(p)'
    BY <1>2, EarlyIsSoundNext
  <1> QED
    BY <1>1, <1>2, <1>3, <1>4, OneIsSound

\* Who dies leaves what is stored, or a record of evidence cut short where there was none.
LEMMA DyingIsSound ==
  ASSUME IInv, AllIsBacked, Types', NEW p \in Callers,
         Crash(p) \/ CrashInWrite(p) \/ CrashInCapture(p) \/ CrashAfterRun(p)
  PROVE  AllIsBacked'
  <1>1. Types /\ outcome' = outcome
    BY DEF IInv, Types, Crash, CrashInWrite, CrashInCapture, CrashAfterRun, ledger
  <1>2. /\ attempt' = [ attempt EXCEPT ![p] = Idle ] /\ index' = [ index EXCEPT ![p] = NoRecord ]
        /\ UNCHANGED <<action, chain, started>>
    BY DEF Crash, CrashInWrite, CrashInCapture, CrashAfterRun, Die, ledger
  <1>3. /\ attempt'[p].at = "idle" /\ index'[p] = NoRecord
        /\ \A q \in Callers \ {p} : attempt'[q] = attempt[q] /\ index'[q] = index[q]
    BY <1>1, <1>2 DEF Types, TypeOK, Idle
  <1>4. /\ Kept
        /\ \A k \in { "command", "observed" } :
             evidence'[k] # NoRecord => evidence'["result"] # NoRecord
    <2>1. CASE UNCHANGED evidence
      BY <1>2, <2>1 DEF Kept, AllIsBacked, EvidenceIsOrdered
    <2>2. CASE CrashInCapture(p)
      <3>1. PICK k \in WorkKinds : /\ At(p, k) /\ evidence[k] = NoRecord
                                   /\ evidence' = [ evidence EXCEPT ![k] = Torn ]
        BY <2>2 DEF CrashInCapture
      <3>2. evidence'[k] = Torn /\ \A j \in Kinds \ {k} : evidence'[j] = evidence[j]
        BY <1>1, <3>1 DEF Types, TypeOK, Kinds
      <3>3. Kept
        BY <1>2, <3>1, <3>2, UnitAssumption DEF Kept
      <3>4. k \in { "command", "observed" } => evidence["result"] # NoRecord
        BY <1>1, <3>1, FindingIsOne, UnitAssumption DEF AllIsBacked, Sound, At, Late
      <3> QED
        BY <3>2, <3>3, <3>4, UnitAssumption
           DEF AllIsBacked, EvidenceIsOrdered, Kinds, WorkKinds
    <2> QED
      BY <2>1, <2>2 DEF Crash, CrashInWrite, CrashAfterRun, disk
  <1>5. EvidenceIsOrdered'
    BY <1>3, <1>4 DEF AllIsBacked, EvidenceIsOrdered
  <1>6. OutcomeIsBacked'
    BY <1>1, <1>4, OutcomeStays DEF AllIsBacked
  <1>7. Sound(p)'
    BY <1>3, EarlyIsSoundNext DEF Late
  <1> QED
    BY <1>1, <1>3, <1>4, <1>5, <1>6, <1>7, OneIsSound

LEMMA FirstIsBacked == Init => AllIsBacked
  <1> SUFFICES ASSUME Init PROVE AllIsBacked
    OBVIOUS
  <1>1. \A p \in Callers : attempt[p].at = "idle"
    BY DEF Init, Idle
  <1>2. \A p \in Callers : Sound(p)
    BY <1>1, EarlyIsSound DEF Late
  <1> QED
    BY <1>2 DEF Init, AllIsBacked, EvidenceIsOrdered, OutcomeIsBacked, Kinds, WorkKinds

LEMMA BackingStays == IInv /\ IInv' /\ AllIsBacked /\ [Next]_vars => AllIsBacked'
  <1> SUFFICES ASSUME IInv, IInv', AllIsBacked, [Next]_vars PROVE AllIsBacked'
    OBVIOUS
  <1>1. Types'
    BY DEF IInv, Types
  <1>2. CASE UNCHANGED vars
    BY <1>2 DEF vars, disk, ledger, AllIsBacked, Sound, EvidenceIsOrdered, OutcomeIsBacked,
       Rests, Whole, Cites, Result, Finding, At
  <1>3. ASSUME NEW p \in Callers,
               Begin(p) \/ Step(p) \/ Crash(p) \/ CrashInWrite(p) \/ CrashInCapture(p)
                 \/ CrashAfterRun(p)
        PROVE  AllIsBacked'
    <2>1. CASE RecallPosted(p) \/ RecallCommand(p)
      <3>1. CASE RecallPosted(p)
        BY <1>1, <3>1, RecallIsSound DEF RecallPosted
      <3>2. CASE RecallCommand(p)
        <4>1. HasPrimary(p) => Known(p) # {}
          BY DEF HasPrimary
        <4> QED
          BY <1>1, <3>2, <4>1, RecallIsSound DEF RecallCommand, Acts
      <3> QED
        BY <2>1, <3>1, <3>2
    <2> QED
      BY <1>1, <1>3, <2>1, EarlyStepsAreSound, ActingIsSound, ResultIsSound, EvidenceIsSound,
         PostIsSound, CompleteIsSound, DyingIsSound DEF Step
  <1> QED
    BY <1>2, <1>3 DEF Next

\* An outcome that is recorded rests on whole evidence that says the same, and on both
\* checkpoints (execution-engine.js, executeWorkUnit and its recovery), whatever the
\* number of processes that make the request and wherever they die.
THEOREM OutcomesAreBacked == Spec => []OutcomeIsBacked
  <1>1. AllIsBacked => OutcomeIsBacked
    BY DEF AllIsBacked
  <1> QED
    BY <1>1, FirstIsBacked, BackingStays, Invariance, PTL DEF Spec

-------------------------------------------------------------------------------
(* One process at a time: what succeeded did what it was asked to do.      *)

\* Nothing changes the tree any more.
Settled ==
  IF action = "command"
  THEN started # NoStamp /\ \A p \in Callers : ~Fresh(p) /\ ~At(p, "running")
  ELSE tree \in { "after", "torn" }

\* A result of success is that of a tree that is as it should be.
ResultIsDone(p) ==
  attempt[p].at \in Late => Settled /\ (Result(p).status = "SUCCEEDED" => tree = "after")

TreeIsDone ==
  /\ \A p \in Callers : ResultIsDone(p)
  /\ evidence["result"] \in Findings /\ evidence["result"].status = "SUCCEEDED"
       => Settled /\ tree = "after"
  /\ evidence["recovery"] \in Findings => evidence["recovery"].status = "FAILED"
  /\ action = "file" => tree # "partial"

\* What an attempt knows of the post-work checkpoint is so.
PostIsThere(p) ==
  /\ attempt[p].at \in { "postEvidence", "postFact" } => checkpoint["post"] # NoRecord
  /\ attempt[p].posted => "post" \in chain

\* The post-work checkpoint is of the tree there is, for good.
CheckpointIsOfTheTree ==
  /\ checkpoint["post"] # NoRecord => checkpoint["post"].tree = tree /\ Settled
  /\ "post" \in chain => checkpoint["post"] # NoRecord
  /\ \A p \in Callers : PostIsThere(p)

Alone(p) == \A q \in Callers \ {p} : At(q, "idle")

AllIsDone == TreeIsDone /\ CheckpointIsOfTheTree /\ SuccessIsReal

\* A step of p after which everything is as it should be, where it was before.
Tidy(p) ==
  /\ Kept /\ \A q \in Callers \ {p} : attempt'[q] = attempt[q]
  /\ Settled => tree' = tree
  /\ Settled /\ action = "command" => ~Fresh(p)' /\ ~At(p, "running")'
  /\ action = "file" => tree' # "partial"
  /\ \/ evidence'["result"] = evidence["result"] \/ evidence'["result"] \notin Findings
     \/ attempt[p].at \in Late /\ evidence'["result"].status = Result(p).status
  /\ \/ evidence'["recovery"] = evidence["recovery"] \/ evidence'["recovery"] \notin Findings
     \/ evidence'["recovery"].status = "FAILED"
  /\ \/ checkpoint'["post"] = checkpoint["post"]
     \/ checkpoint["post"] = NoRecord /\ checkpoint'["post"].tree = tree' /\ Settled
  /\ "post" \in chain' => "post" \in chain \/ checkpoint["post"] # NoRecord

LEMMA SettledStays ==
  ASSUME Types, NEW p \in Callers, Alone(p), Tidy(p), Settled
  PROVE  Settled'
  <1>1. CASE action = "command"
    <2>1. started' # NoStamp /\ action' = "command"
      BY <1>1 DEF Settled, Tidy, Kept
    <2>2. \A q \in Callers \ {p} : ~Fresh(q)' /\ ~At(q, "running")'
      BY DEF Alone, Tidy, Fresh, At
    <2>3. ~Fresh(p)' /\ ~At(p, "running")'
      BY <1>1 DEF Tidy
    <2> QED
      BY <2>1, <2>2, <2>3 DEF Settled
  <1>2. CASE action # "command"
    BY <1>2 DEF Settled, Tidy, Kept
  <1> QED
    BY <1>1, <1>2

LEMMA TidyStepsKeep ==
  ASSUME Types, Types', AllIsDone, NEW p \in Callers, Alone(p), Tidy(p),
         ResultIsDone(p)', PostIsThere(p)', SuccessIsReal'
  PROVE  AllIsDone' /\ Alone(p)'
  <1>1. Alone(p)'
    BY DEF Alone, At, Tidy
  <1>2. \A q \in Callers : ResultIsDone(q)'
    BY <1>1 DEF Alone, At, ResultIsDone, Late
  <1>3. evidence'["result"] \in Findings /\ evidence'["result"].status = "SUCCEEDED"
          => Settled' /\ tree' = "after"
    <2> SUFFICES ASSUME evidence'["result"] \in Findings,
                        evidence'["result"].status = "SUCCEEDED"
                 PROVE  Settled' /\ tree' = "after"
      OBVIOUS
    <2>1. Settled /\ tree = "after"
      BY DEF Tidy, AllIsDone, TreeIsDone, ResultIsDone
    <2> QED
      BY <2>1, SettledStays DEF Tidy
  <1>4. TreeIsDone'
    BY <1>2, <1>3 DEF Tidy, Kept, AllIsDone, TreeIsDone
  <1>5. checkpoint'["post"] # NoRecord => checkpoint'["post"].tree = tree' /\ Settled'
    BY SettledStays DEF Tidy, AllIsDone, CheckpointIsOfTheTree
  <1>6. "post" \in chain' => checkpoint'["post"] # NoRecord
    <2>1. "post" \in chain' => checkpoint["post"] # NoRecord
      BY DEF Tidy, AllIsDone, CheckpointIsOfTheTree
    <2> QED
      BY <2>1 DEF Tidy
  <1>7. ASSUME NEW q \in Callers \ {p} PROVE PostIsThere(q)'
    BY DEF Alone, At, Tidy, Kept, AllIsDone, CheckpointIsOfTheTree, PostIsThere
  <1> QED
    BY <1>1, <1>4, <1>5, <1>6, <1>7 DEF AllIsDone, CheckpointIsOfTheTree

\* The outcome is as real as it was when no other is recorded.
LEMMA SuccessStays ==
  ASSUME AllIsDone, NEW p \in Callers, Tidy(p), outcome' = outcome
  PROVE  SuccessIsReal'
  BY DEF AllIsDone, SuccessIsReal, Tidy

\* A step in which p has no result and changes no tree.
LEMMA EarlyStepsAreTidy ==
  ASSUME IInv, AllIsBacked, Types', AllIsDone, NEW p \in Callers, Alone(p),
         \/ Begin(p) \/ PreCheckpoint(p) \/ PreEvidence(p) \/ PreFact(p) \/ Check(p) \/ Start(p)
         \/ Throw(p) \/ Crash(p)
  PROVE  AllIsDone' /\ Alone(p)'
  <1>1. Types /\ attempt \in [ Callers -> Attempts ]
    BY DEF IInv, Types, TypeOK, Attempts
  <1>2. attempt'[p].at \notin Late \union { "running" }
        /\ \A q \in Callers \ {p} : attempt'[q] = attempt[q]
    <2>1. CASE Begin(p)
      BY <1>1, <2>1 DEF Begin, Idle, Late
    <2>2. CASE Check(p)
      BY <1>1, <2>2 DEF Check, Attempts, Late
    <2>3. CASE Throw(p) \/ Crash(p)
      BY <1>1, <2>3 DEF Throw, Crash, Die, Idle, Late
    <2>4. CASE PreCheckpoint(p) \/ PreEvidence(p) \/ PreFact(p) \/ Start(p)
      <3>1. PICK place \in { "preEvidence", "preFact", "check", "act" } : To(p, place)
        BY <2>4 DEF PreCheckpoint, Persist, PreEvidence, Capture, PreFact, Start
      <3> QED
        BY <1>1, <3>1, ToIs DEF Late
    <2> QED
      BY <2>1, <2>2, <2>3, <2>4
  <1>3. PostIsThere(p)'
    <2>1. "post" \in chain => "post" \in chain'
      BY DEF Begin, PreCheckpoint, Persist, PreEvidence, Capture, PreFact, Check, Start, Throw,
             Crash, ledger
    <2>2. attempt'[p].posted => "post" \in chain
      <3>1. CASE Begin(p)
        BY <1>1, <3>1 DEF Begin, Idle
      <3>2. CASE Check(p)
        BY <1>1, <3>2 DEF Check, Attempts
      <3>3. CASE Throw(p) \/ Crash(p)
        BY <1>1, <3>3 DEF Throw, Crash, Die, Idle
      <3>4. CASE PreCheckpoint(p) \/ PreEvidence(p) \/ PreFact(p) \/ Start(p)
        <4>1. attempt'[p].posted = attempt[p].posted
          BY <1>1, <3>4, ToIs DEF PreCheckpoint, Persist, PreEvidence, Capture, PreFact, Start
        <4> QED
          BY <4>1 DEF AllIsDone, CheckpointIsOfTheTree, PostIsThere
      <3> QED
        BY <3>1, <3>2, <3>3, <3>4
    <2> QED
      BY <1>2, <2>1, <2>2 DEF PostIsThere, Late
  <1>4. Tidy(p)
    <2>1. /\ tree' = tree /\ checkpoint'["post"] = checkpoint["post"]
          /\ evidence'["result"] = evidence["result"]
          /\ evidence'["recovery"] = evidence["recovery"]
          /\ "post" \in chain' => "post" \in chain
      <3>1. CASE PreCheckpoint(p)
        BY <1>1, <3>1 DEF PreCheckpoint, Persist, ledger, Types, TypeOK
      <3>2. CASE PreEvidence(p)
        BY <1>1, <3>2 DEF PreEvidence, Capture, ledger, Types, TypeOK, Kinds, WorkKinds
      <3>3. CASE Begin(p) \/ PreFact(p) \/ Check(p) \/ Start(p) \/ Throw(p) \/ Crash(p)
        BY <3>3 DEF Begin, PreFact, Check, Start, Throw, Crash, disk, ledger
      <3> QED
        BY <3>1, <3>2, <3>3
    <2>2. Kept
      <3>1. CASE PreEvidence(p)
        <4>1. Capture(p, "pre", Observation(attempt[p].stamp), "preFact")
              /\ Observation(attempt[p].stamp) \in Findings /\ "pre" \in Kinds
          BY <1>1, <3>1, StampIsOne DEF PreEvidence, At, Kinds
        <4> QED
          BY <1>1, <4>1, CapturedIs
      <3>2. CASE Begin(p) \/ PreCheckpoint(p) \/ PreFact(p) \/ Check(p) \/ Start(p) \/ Throw(p)
                   \/ Crash(p)
        BY <1>1, <3>2, StampIsOne, UnitAssumption
           DEF Begin, PreCheckpoint, Persist, PreFact, Check, Start, Throw, Crash, Kept, At,
               disk, ledger
      <3> QED
        BY <3>1, <3>2
    <2>3. Settled /\ action = "command" => ~Fresh(p)'
      <3>1. CASE Check(p)
        BY <1>1, <3>1 DEF Check, Attempts, Fresh
      <3>2. CASE Start(p)
        BY <3>2 DEF Start, Settled
      <3>3. CASE Begin(p)
        BY <1>1, <3>3 DEF Begin, Idle, Fresh
      <3>4. CASE Throw(p) \/ Crash(p)
        BY <1>1, <3>4 DEF Throw, Crash, Die, Idle, Fresh
      <3>5. CASE PreCheckpoint(p) \/ PreEvidence(p) \/ PreFact(p)
        <4>1. attempt'[p].at # "act"
          BY <1>1, <3>5, ToIs DEF PreCheckpoint, Persist, PreEvidence, Capture, PreFact
        <4> QED
          BY <4>1 DEF Fresh
      <3> QED
        BY <3>1, <3>2, <3>3, <3>4, <3>5
    <2>4. ~At(p, "running")'
      BY <1>2 DEF At
    <2> QED
      BY <1>2, <2>1, <2>2, <2>3, <2>4 DEF Tidy, AllIsDone, TreeIsDone
  <1>5. outcome' = outcome
    BY DEF Begin, PreCheckpoint, Persist, PreEvidence, Capture, PreFact, Check, Start, Throw,
           Crash, ledger
  <1>6. ResultIsDone(p)'
    BY <1>2 DEF ResultIsDone
  <1> QED
    BY <1>1, <1>3, <1>4, <1>5, <1>6, TidyStepsKeep, SuccessStays

\* A step that carries the action out, or recalls what is known of it.
LEMMA RecallIsTidy ==
  ASSUME IInv, AllIsBacked, Types', AllIsDone, NEW p \in Callers, Alone(p), At(p, "act"),
         Query(p), NEW complete \in BOOLEAN, NEW detail, Recall(p, complete, detail),
         Settled, action = "command" => attempt[p].prior
  PROVE  AllIsDone' /\ Alone(p)'
  <1>1. Types
    BY DEF IInv, Types
  <1>2. Kept /\ outcome' = outcome /\ UNCHANGED <<disk, ledger>>
    BY NothingStored DEF Recall, disk, ledger
  <1>3. /\ attempt'[p].at \in { "post", "recovery" }
        /\ attempt'[p].result = Reused(p, complete, detail)
        /\ attempt'[p].posted = attempt[p].posted
        /\ \A q \in Callers \ {p} : attempt'[q] = attempt[q]
    BY <1>1, YieldIs DEF Recall
  <1>4. Tidy(p)
    BY <1>2, <1>3 DEF Tidy, Fresh, At, disk, ledger, AllIsDone, TreeIsDone
  <1>5. attempt'[p].result.status = "SUCCEEDED" => tree = "after"
    <2> SUFFICES ASSUME attempt'[p].result.status = "SUCCEEDED" PROVE tree = "after"
      OBVIOUS
    <2>1. HasPrimary(p) /\ Primary(p).status = "SUCCEEDED"
      <3>1. Reused(p, complete, detail).status = "SUCCEEDED"
        BY <1>3
      <3>2. Reused(p, complete, detail).status =
              IF complete /\ HasPrimary(p) THEN Primary(p).status ELSE "FAILED"
        BY ReusedIs
      <3> QED
        BY <3>1, <3>2
    <2>2. \A k \in Known(p) : evidence[k] \in Findings
      BY <1>1, QueryIs DEF Whole
    <2> QED
      BY <2>1, <2>2 DEF HasPrimary, Primary, AllIsDone, TreeIsDone
  <1>6. ResultIsDone(p)'
    BY <1>1, <1>2, <1>4, <1>5, SettledStays DEF ResultIsDone, Result, disk
  <1>7. PostIsThere(p)'
    BY <1>2, <1>3 DEF PostIsThere, AllIsDone, CheckpointIsOfTheTree, ledger
  <1> QED
    BY <1>1, <1>2, <1>4, <1>6, <1>7, TidyStepsKeep, SuccessStays

\* Nobody else is at anything, so a command that is not running is over.
LEMMA CommandIsOver ==
  ASSUME Types, NEW p \in Callers, Alone(p), started # NoStamp, action = "command",
         ~Fresh(p), ~At(p, "running")
  PROVE  Settled
  BY DEF Settled, Alone, Fresh, At

LEMMA RecallsAreTidy ==
  ASSUME IInv, AllIsBacked, Types', AllIsDone, NEW p \in Callers, Alone(p),
         RecallPosted(p) \/ RecallCommand(p)
  PROVE  AllIsDone' /\ Alone(p)'
  <1>1. Types
    BY DEF IInv, Types
  <1>2. CASE RecallPosted(p)
    <2>1. Settled
      BY <1>2 DEF RecallPosted, AllIsDone, CheckpointIsOfTheTree, PostIsThere
    <2>2. action = "command" => attempt[p].prior
      BY <1>2, <2>1 DEF RecallPosted, Settled, Fresh, At
    <2> QED
      BY <1>2, <2>1, <2>2, RecallIsTidy DEF RecallPosted
  <1>3. CASE RecallCommand(p)
    <2>1. At(p, "act") /\ Query(p) /\ action = "command" /\ attempt[p].prior
          /\ Recall(p, HasPrimary(p) /\ "command" \in Known(p), "interrupted")
      BY <1>3 DEF RecallCommand, Acts
    <2>2. Settled
      BY <1>1, <2>1, CommandIsOver DEF IInv, StartIsRecorded, Fresh, At
    <2> QED
      BY <2>1, <2>2, RecallIsTidy
  <1> QED
    BY <1>2, <1>3

LEMMA SpawnIsTidy ==
  ASSUME IInv, AllIsBacked, Types', AllIsDone, NEW p \in Callers, Alone(p), Spawn(p)
  PROVE  AllIsDone' /\ Alone(p)'
  <1>1. Types /\ Fresh(p) /\ action = "command"
    BY DEF IInv, Types, Spawn, Acts, Fresh, At
  <1>2. ~Settled
    BY <1>1 DEF Settled
  <1>3. Kept /\ outcome' = outcome /\ UNCHANGED <<disk, ledger>>
    BY NothingStored DEF Spawn, disk, ledger
  <1>4. /\ attempt'[p].at = "running" /\ attempt'[p].posted = attempt[p].posted
        /\ \A q \in Callers \ {p} : attempt'[q] = attempt[q]
    BY <1>1, ToIs DEF Spawn
  <1>5. Tidy(p)
    BY <1>1, <1>2, <1>3, <1>4 DEF Tidy, disk, ledger
  <1>6. ResultIsDone(p)' /\ PostIsThere(p)'
    BY <1>3, <1>4 DEF ResultIsDone, Late, PostIsThere, AllIsDone, CheckpointIsOfTheTree, ledger
  <1> QED
    BY <1>1, <1>3, <1>5, <1>6, TidyStepsKeep, SuccessStays

\* Who yields a result of its own has settled the tree, and what is recorded of an
\* earlier one is of the same tree.
LEMMA YieldIsTidy ==
  ASSUME IInv, AllIsBacked, Types', AllIsDone, NEW p \in Callers, Alone(p),
         attempt[p].at \in { "act", "running" }, NEW result, Yield(p, "result", result),
         UNCHANGED <<action, checkpoint, evidence, ledger>>,
         Settled => tree' = tree, action = "file" => tree' # "partial",
         action # "command" => tree' \in { "after", "torn" },
         result.status = "SUCCEEDED" => tree' = "after"
  PROVE  AllIsDone' /\ Alone(p)'
  <1>1. Types /\ started # NoStamp
    BY DEF IInv, Types, StartIsRecorded, AllIsBacked, Sound
  <1>2. Kept /\ outcome' = outcome /\ chain' = chain
    BY NothingStored DEF ledger
  <1>3. /\ attempt'[p].at = "result" /\ attempt'[p].result = result
        /\ attempt'[p].posted = attempt[p].posted
        /\ \A q \in Callers \ {p} : attempt'[q] = attempt[q]
    BY <1>1, YieldIs
  <1>4. Tidy(p)
    BY <1>2, <1>3 DEF Tidy, Fresh, At
  <1>5. Settled'
    <2>1. \A q \in Callers : ~Fresh(q)' /\ ~At(q, "running")'
      BY <1>3 DEF Alone, At, Fresh
    <2> QED
      BY <1>1, <2>1 DEF Settled, ledger
  <1>6. ResultIsDone(p)'
    BY <1>3, <1>5 DEF ResultIsDone, Result
  <1>7. PostIsThere(p)'
    BY <1>2, <1>3 DEF PostIsThere, AllIsDone, CheckpointIsOfTheTree
  <1> QED
    BY <1>1, <1>2, <1>4, <1>6, <1>7, TidyStepsKeep, SuccessStays

LEMMA ActingIsTidy ==
  ASSUME IInv, AllIsBacked, Types', AllIsDone, NEW p \in Callers, Alone(p),
         NotRun(p) \/ Write(p) \/ Exit(p)
  PROVE  AllIsDone' /\ Alone(p)'
  <1>1. Types /\ tree \in Trees /\ action \in ActionKinds
    BY UnitAssumption DEF IInv, Types, TypeOK
  <1>2. CASE NotRun(p)
    <2> DEFINE refused == [ NoResult EXCEPT !.detail = "notRun", !.stamp = Now ]
    <2>1. Yield(p, "result", refused)
      BY <1>2 DEF NotRun
    <2>2. refused.status = "FAILED"
      BY DEF NoResult
    <2>3. At(p, "act") /\ action = "command" /\ UNCHANGED <<action, disk, ledger>>
      BY <1>2 DEF NotRun, Acts
    <2> HIDE DEF refused
    <2> QED
      BY <2>1, <2>2, <2>3, YieldIsTidy DEF disk, At
  <1>3. CASE Exit(p)
    <2>1. PICK status : /\ Acted(p, status)
                        /\ status = "SUCCEEDED" => tree' = "after"
      BY <1>3 DEF Exit
    <2> DEFINE acted == [ NoResult EXCEPT !.status = status, !.stamp = Now ]
    <2>2. Yield(p, "result", acted)
      BY <2>1 DEF Acted
    <2>3. acted.status = status
      BY DEF NoResult
    <2>4. At(p, "running") /\ action = "command"
          /\ UNCHANGED <<action, checkpoint, evidence, ledger>>
      BY <1>3 DEF Exit, AllIsBacked, Sound, At
    <2>5. ~Settled
      BY <2>4 DEF Settled
    <2> HIDE DEF acted
    <2> QED
      BY <2>1, <2>2, <2>3, <2>4, <2>5, YieldIsTidy DEF At
  <1>4. CASE Write(p)
    <2>1. PICK status : /\ Acted(p, status)
                        /\ \/ status = "SUCCEEDED" /\ Writable(p) /\ tree' = "after"
                           \/ status = "FAILED" /\ ~Writable(p) /\ tree' = tree
      BY <1>4 DEF Write
    <2> DEFINE acted == [ NoResult EXCEPT !.status = status, !.stamp = Now ]
    <2>2. Yield(p, "result", acted)
      BY <2>1 DEF Acted
    <2>3. acted.status = status
      BY DEF NoResult
    <2>4. At(p, "act") /\ action # "command"
          /\ UNCHANGED <<action, checkpoint, evidence, ledger>>
      BY <1>4 DEF Write, Writing, Acts
    <2>5. tree = "partial" => action = "bundle"
      BY <1>1, <2>4 DEF ActionKinds, AllIsDone, TreeIsDone
    <2>6. tree' \in { "after", "torn" }
      BY <1>1, <2>1, <2>4, <2>5 DEF Trees, Writable
    <2>7. Settled => tree' = tree
      BY <2>1, <2>4 DEF Settled, Writable
    <2> HIDE DEF acted
    <2> QED
      BY <2>1, <2>2, <2>3, <2>4, <2>6, <2>7, YieldIsTidy DEF At
  <1> QED
    BY <1>2, <1>3, <1>4

\* A step that records what the result rests on, or checkpoints the tree.
LEMMA LateStepsAreTidy ==
  ASSUME IInv, AllIsBacked, Types', AllIsDone, NEW p \in Callers, Alone(p),
         \/ RecoveryEvidence(p) \/ ResultEvidence(p) \/ CommandEvidence(p)
         \/ ObservedEvidence(p)
         \/ SkipPost(p) \/ PostCheckpoint(p) \/ PostEvidence(p) \/ PostFact(p)
  PROVE  AllIsDone' /\ Alone(p)'
  <1>1. Types /\ attempt[p].at \in Late
    BY DEF IInv, Types, RecoveryEvidence, ResultEvidence, CommandEvidence, ObservedEvidence,
       SkipPost, PostCheckpoint, PostEvidence, PostFact, At, Late
  <1>2. Settled /\ (Result(p).status = "SUCCEEDED" => tree = "after")
    BY <1>1 DEF AllIsDone, TreeIsDone, ResultIsDone
  <1>3. Finding(p) \in Findings /\ Observation(Result(p).stamp) \in Findings
    <2>1. attempt[p].result \in Results
      BY <1>1, FindingIsOne
    <2> QED
      BY <1>1, <2>1, FindingIsOne
         DEF Results, Result, Observation, Findings, Statuses, Details
  <1>4. PICK next \in Late : To(p, next)
    BY DEF RecoveryEvidence, ResultEvidence, CommandEvidence, ObservedEvidence, Capture,
       SkipPost, PostCheckpoint, Persist, PostEvidence, PostFact, Late
  <1>5. /\ attempt'[p].at = next /\ attempt'[p].result = attempt[p].result
        /\ attempt'[p].posted = attempt[p].posted
        /\ \A q \in Callers \ {p} : attempt'[q] = attempt[q]
    BY <1>1, <1>4, ToIs
  <1>6. ~Fresh(p)' /\ ~At(p, "running")'
    BY <1>4, <1>5 DEF Fresh, At, Late
  <1>7. outcome' = outcome /\ tree' = tree
    BY DEF RecoveryEvidence, ResultEvidence, CommandEvidence, ObservedEvidence, Capture,
       SkipPost, PostCheckpoint, Persist, PostEvidence, PostFact, disk, ledger
  <1>8. /\ Kept /\ ("post" \in chain' => "post" \in chain \/ checkpoint["post"] # NoRecord)
        /\ \/ checkpoint'["post"] = checkpoint["post"]
           \/ checkpoint["post"] = NoRecord /\ checkpoint'["post"].tree = tree'
        /\ attempt'[p].at \in { "postEvidence", "postFact" } => checkpoint'["post"] # NoRecord
        /\ \/ evidence'["result"] = evidence["result"]
           \/ evidence'["result"].status = Result(p).status
        /\ \/ evidence'["recovery"] = evidence["recovery"]
           \/ evidence'["recovery"].status = "FAILED"
    <2>1. CASE RecoveryEvidence(p)
      <3>1. Capture(p, "recovery", Finding(p), "post") /\ "recovery" \in Kinds
            /\ Result(p).status = "FAILED"
        BY <2>1 DEF RecoveryEvidence, Kinds, WorkKinds, AllIsBacked, Sound
      <3>2. attempt'[p].at = "post" /\ UNCHANGED <<checkpoint, chain>>
        BY <1>1, <3>1, ToIs DEF Capture, ledger
      <3> QED
        BY <1>1, <1>3, <3>1, <3>2, CapturedIs DEF Finding, Kinds, WorkKinds
    <2>2. CASE ResultEvidence(p) \/ CommandEvidence(p) \/ ObservedEvidence(p)
      <3>1. PICK kind \in { "result", "command", "observed" },
                 place \in { "command", "observed", "post" } :
              Capture(p, kind, Finding(p), place)
        BY <2>2 DEF ResultEvidence, CommandEvidence, ObservedEvidence
      <3>2. attempt'[p].at = place /\ UNCHANGED <<checkpoint, chain>> /\ kind \in Kinds
        BY <1>1, <3>1, ToIs DEF Capture, ledger, Kinds, WorkKinds
      <3> QED
        BY <1>1, <1>3, <3>1, <3>2, CapturedIs DEF Finding, Kinds, WorkKinds
    <2>3. CASE PostEvidence(p)
      <3>1. Capture(p, "post", Observation(Result(p).stamp), "postFact") /\ "post" \in Kinds
            /\ checkpoint["post"] # NoRecord /\ UNCHANGED <<checkpoint, chain>>
        BY <2>3 DEF PostEvidence, Capture, ledger, Kinds, At, AllIsDone,
           CheckpointIsOfTheTree, PostIsThere
      <3> QED
        BY <1>1, <1>3, <3>1, CapturedIs DEF Kinds, WorkKinds
    <2>4. CASE PostCheckpoint(p)
      <3>1. /\ checkpoint["post"] \in { NoRecord, Record(Result(p).stamp) }
            /\ checkpoint'["post"] = Record(Result(p).stamp)
            /\ UNCHANGED <<evidence, chain>> /\ Kept
        BY <1>1, <2>4 DEF PostCheckpoint, Persist, MayPersist, Types, TypeOK, Kept, ledger
      <3>2. Record(Result(p).stamp) \in [ tree : Trees, stamp : Stamps ]
        BY <1>1, FindingIsOne DEF Record, Types, TypeOK, Result, Results
      <3> QED
        BY <1>7, <3>1, <3>2, UnitAssumption DEF Record
    <2>5. CASE SkipPost(p) \/ PostFact(p)
      <3>1. attempt'[p].at = "complete" /\ UNCHANGED <<checkpoint, evidence>>
        BY <1>1, <2>5, ToIs DEF SkipPost, PostFact, disk
      <3>2. "post" \in chain \/ checkpoint["post"] # NoRecord
        BY <2>5 DEF SkipPost, PostFact, At, AllIsDone, CheckpointIsOfTheTree, PostIsThere
      <3>3. Kept
        BY <2>5 DEF SkipPost, PostFact, Kept, disk, ledger
      <3> QED
        BY <3>1, <3>2, <3>3
    <2> QED
      BY <2>1, <2>2, <2>3, <2>4, <2>5
  <1>9. Tidy(p)
    BY <1>1, <1>2, <1>5, <1>6, <1>7, <1>8 DEF Tidy, AllIsDone, TreeIsDone
  <1>10. PostIsThere(p)'
    BY <1>5, <1>8 DEF PostIsThere, AllIsDone, CheckpointIsOfTheTree, Kept
  <1>11. ResultIsDone(p)'
    BY <1>1, <1>2, <1>5, <1>7, <1>9, SettledStays DEF ResultIsDone, Result
  <1> QED
    BY <1>1, <1>7, <1>9, <1>10, <1>11, TidyStepsKeep, SuccessStays

\* What is recorded as done is done, and checkpointed.
LEMMA CompleteIsTidy ==
  ASSUME IInv, AllIsBacked, Types', AllIsDone, NEW p \in Callers, Alone(p), Complete(p)
  PROVE  AllIsDone' /\ Alone(p)'
  <1>1. Types /\ attempt[p].at = "complete" /\ attempt \in [ Callers -> Attempts ]
    BY DEF IInv, Types, TypeOK, Attempts, Complete, At
  <1>2. Kept /\ UNCHANGED <<disk, chain, started>>
    BY NothingStored DEF Complete, disk
  <1>3. attempt'[p] = Idle /\ \A q \in Callers \ {p} : attempt'[q] = attempt[q]
    BY <1>1 DEF Complete
  <1>4. Idle.at = "idle" /\ Idle.posted = FALSE
    BY DEF Idle
  <1>5. Tidy(p)
    BY <1>2, <1>3, <1>4 DEF Tidy, Fresh, At, disk, AllIsDone, TreeIsDone
  <1>6. ResultIsDone(p)' /\ PostIsThere(p)'
    BY <1>3, <1>4 DEF ResultIsDone, PostIsThere, Late
  <1>7. SuccessIsReal'
    <2>1. "post" \in chain /\ (Result(p).status = "SUCCEEDED" => tree = "after")
      BY <1>1 DEF AllIsBacked, Sound, At, AllIsDone, TreeIsDone, ResultIsDone, Late
    <2>2. checkpoint["post"] # NoRecord /\ checkpoint["post"].tree = tree
      BY <2>1 DEF AllIsDone, CheckpointIsOfTheTree
    <2>3. outcome'.status = Result(p).status
      BY DEF Complete
    <2> QED
      BY <1>2, <2>1, <2>2, <2>3 DEF SuccessIsReal, disk
  <1> QED
    BY <1>1, <1>5, <1>6, <1>7, TidyStepsKeep

\* Who dies within a write leaves what it was writing unfinished.
LEMMA DyingIsTidy ==
  ASSUME IInv, AllIsBacked, Types', AllIsDone, NEW p \in Callers, Alone(p),
         CrashInWrite(p) \/ CrashInCapture(p) \/ CrashAfterRun(p)
  PROVE  AllIsDone' /\ Alone(p)'
  <1>1. Types /\ attempt \in [ Callers -> Attempts ] /\ outcome' = outcome /\ chain' = chain
        /\ UNCHANGED <<action, checkpoint, started>>
    BY DEF IInv, Types, TypeOK, Attempts, CrashInWrite, CrashInCapture, CrashAfterRun, ledger
  <1>2. attempt'[p] = Idle /\ \A q \in Callers \ {p} : attempt'[q] = attempt[q]
    BY <1>1 DEF CrashInWrite, CrashInCapture, CrashAfterRun, Die
  <1>3. Idle.at = "idle" /\ Idle.posted = FALSE
    BY DEF Idle
  <1>4. ResultIsDone(p)' /\ PostIsThere(p)' /\ ~Fresh(p)' /\ ~At(p, "running")'
    BY <1>2, <1>3 DEF ResultIsDone, PostIsThere, Late, Fresh, At
  <1>5. CASE CrashInCapture(p)
    <2>1. PICK kind \in WorkKinds : /\ evidence[kind] = NoRecord
                                    /\ evidence' = [ evidence EXCEPT ![kind] = Torn ]
      BY <1>5 DEF CrashInCapture
    <2>2. evidence'[kind] = Torn /\ \A k \in Kinds \ {kind} : evidence'[k] = evidence[k]
      BY <1>1, <2>1 DEF Types, TypeOK, Kinds
    <2>3. Kept
      BY <1>1, <2>1, <2>2, UnitAssumption DEF Kept
    <2>4. \A k \in { "result", "recovery" } :
            evidence'[k] = evidence[k] \/ evidence'[k] \notin Findings
      BY <2>2, UnitAssumption DEF Kinds, WorkKinds
    <2>5. tree' = tree
      BY <1>5 DEF CrashInCapture
    <2>6. Tidy(p)
      BY <1>1, <1>2, <1>4, <2>3, <2>4, <2>5 DEF Tidy, AllIsDone, TreeIsDone
    <2> QED
      BY <1>1, <1>4, <2>6, TidyStepsKeep, SuccessStays
  <1>6. CASE CrashInWrite(p) \/ CrashAfterRun(p)
    <2>1. evidence' = evidence
      BY <1>6 DEF CrashInWrite, CrashAfterRun
    <2>2. Kept
      BY <1>1, <2>1, NothingStored
    <2>3. ~Settled /\ (action = "file" => tree' # "partial")
      <3>1. CASE CrashInWrite(p)
        BY <3>1 DEF CrashInWrite, Settled
      <3>2. CASE CrashAfterRun(p)
        BY <3>2 DEF CrashAfterRun, AllIsBacked, Sound, At, Settled
      <3> QED
        BY <1>6, <3>1, <3>2
    <2>4. Tidy(p)
      BY <1>1, <1>2, <1>4, <2>1, <2>2, <2>3 DEF Tidy
    <2> QED
      BY <1>1, <1>4, <2>4, TidyStepsKeep, SuccessStays
  <1> QED
    BY <1>5, <1>6

LEMMA FirstIsDone == Init => AllIsDone
  <1> SUFFICES ASSUME Init PROVE AllIsDone
    OBVIOUS
  <1>1. \A p \in Callers : attempt[p].at = "idle" /\ attempt[p].posted = FALSE
    BY DEF Init, Idle
  <1>2. evidence["result"] = NoRecord /\ evidence["recovery"] = NoRecord
        /\ checkpoint["post"] = NoRecord /\ tree = "before" /\ outcome = NoRecord /\ chain = {}
    BY DEF Init, Kinds, WorkKinds
  <1> QED
    BY <1>1, <1>2, UnitAssumption
       DEF AllIsDone, TreeIsDone, ResultIsDone, CheckpointIsOfTheTree, PostIsThere,
           SuccessIsReal, Late

\* What holds of a request that one process at a time makes.
Lone == lone => Alone(First) /\ AllIsDone

LEMMA LoneStays ==
  ASSUME First \in Callers
  PROVE  IInv /\ IInv' /\ AllIsBacked /\ Lone /\ [MCNext]_<<vars, lone>> => Lone'
  <1> SUFFICES ASSUME IInv, IInv', AllIsBacked, Lone, [MCNext]_<<vars, lone>>, lone'
               PROVE  Alone(First)' /\ AllIsDone'
    BY DEF Lone
  <1>1. Types'
    BY DEF IInv, Types
  <1>2. CASE UNCHANGED <<vars, lone>>
    BY <1>2 DEF Lone, vars, disk, ledger, Alone, At, AllIsDone, TreeIsDone, ResultIsDone,
       CheckpointIsOfTheTree, PostIsThere, SuccessIsReal, Settled, Fresh, Result
  <1>3. CASE MCNext
    <2>1. PICK p \in Callers :
            /\ Calls(p)
            /\ \/ Begin(p) \/ Step(p) \/ Crash(p)
               \/ CrashInWrite(p) \/ CrashInCapture(p) \/ CrashAfterRun(p)
      BY <1>3 DEF MCNext, Goes
    <2>2. p = First /\ Alone(First) /\ AllIsDone
      BY <2>1 DEF Calls, Lone
    <2> QED
      BY <1>1, <2>1, <2>2, EarlyStepsAreTidy, RecallsAreTidy, SpawnIsTidy, ActingIsTidy,
         LateStepsAreTidy, CompleteIsTidy, DyingIsTidy DEF Step
  <1> QED
    BY <1>2, <1>3

\* A unit recorded as succeeded did what it was asked to do, and its post-work
\* checkpoint holds it (execution-engine.js, executeWorkUnit), wherever the process that
\* makes the request dies and however often, as long as one process at a time makes it.
THEOREM LoneSuccessesAreReal ==
  ASSUME First \in Callers
  PROVE  MCSpec => []LoneSuccessIsReal
  <1>1. MCInit => Init /\ IInv /\ AllIsBacked /\ Lone
    <2>1. Init => Alone(First)
      BY DEF Init, Alone, At, Idle
    <2> QED
      BY <2>1, InitIsFine, FirstIsBacked, FirstIsDone DEF MCInit, Lone
  <1>2. [MCNext]_<<vars, lone>> => [Next]_vars
    BY DEF MCNext, Goes, Next
  <1>3. IInv /\ [Next]_vars => IInv'
    BY NextIsFine
  <1>4. Lone => LoneSuccessIsReal
    BY DEF Lone, AllIsDone, LoneSuccessIsReal
  <1> QED
    BY <1>1, <1>2, <1>3, <1>4, BackingStays, LoneStays, PTL DEF MCSpec

===============================================================================
