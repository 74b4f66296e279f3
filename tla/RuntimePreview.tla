---------------------------- MODULE RuntimePreview ----------------------------
(***************************************************************************)
(* The preview servers of one mission, src/work-plane/                     *)
(* runtime-preview-service.js and the startRuntime of                      *)
(* production-mission-service.js.                                          *)
(*                                                                         *)
(* A preview is a child process of the worker that started it, spawned     *)
(* detached, so it survives its parent.  The ledger learns of it only once *)
(* it has answered (or refused to answer) an HTTP request: from the spawn  *)
(* to that record nobody but the worker's own `processes` map knows of it. *)
(* Sessions are numbered by the recorded start-ups, and every evidence id  *)
(* is derived from that number, so an id that was captured in a step whose *)
(* fact was never appended makes every repetition of the step throw        *)
(* DuplicateEvidenceError.                                                 *)
(*                                                                         *)
(* The module holds the state and the operators; the actions are those of  *)
(* the programs that call them (MissionWorkers).                           *)
(***************************************************************************)
EXTENDS Naturals, Sequences, FiniteSets

VARIABLES
  alive,      \* live preview processes: pairs <<worker that spawned it, number>>
  sessions,   \* the recorded sessions by number: [by, status]
  last,       \* number of the session of the newest runtime record, 0: no record
  evidence    \* captured ids: <<"start", n>>, <<"stop", n>>

previewVars == <<alive, sessions, last, evidence>>

SessionStatus == { "up", "failed", "crashed", "stopped" }

PreviewInit == /\ alive = {}
               /\ sessions = << >>
               /\ last = 0
               /\ evidence = {}

\* startRuntime: the number of the next session counts the recorded start-ups.
NextSession == Len(sessions) + 1

\* start, up to the first await: the process is spawned, nothing is recorded.
Spawn(w) == /\ alive' = alive \union { <<w, NextSession>> }
            /\ UNCHANGED <<sessions, last, evidence>>

\* The pid of the recorded session n, the worker that spawned it and its number.
Pid(n) == <<sessions[n].by, n>>

\* The evidence of this start has an id that was captured before.
StartIsDuplicate(n) == <<"start", n>> \in evidence \/ n <= Len(sessions)

\* start, after the observation: evidence and fact, with no await between.  A
\* child that did not answer is killed before.
Started(w, n, ready) ==
  /\ alive' = IF ready THEN alive ELSE alive \ { <<w, n>> }
  /\ evidence' = evidence \union { <<"start", n>> }
  /\ sessions' = Append(sessions, [by |-> w, status |-> IF ready THEN "up" ELSE "failed"])
  /\ last' = n

\* The same, when the process dies or the append fails between the two.
StartCaptured(w, n, ready) ==
  /\ alive' = IF ready THEN alive ELSE alive \ { <<w, n>> }
  /\ evidence' = evidence \union { <<"start", n>> }
  /\ UNCHANGED <<sessions, last>>

\* observeHealth on a session of the caller's own: crashed when its process is gone,
\* or does not answer in time.
HealthRecorded(n) ==
  /\ last' = n
  /\ \E status \in { "up", "crashed" } :
       /\ status = "up" => Pid(n) \in alive
       /\ sessions' = [sessions EXCEPT ![n].status = status]

\* A session that stop and cancel still have to stop: the newest record's.
ToStop == IF last # 0 /\ sessions[last].status # "stopped" THEN { last } ELSE {}

\* stop, first half: the whole process group is killed.  The caller is `w`; a
\* process of its own is awaited, one known by its recorded pid is not.
OwnPreview(w, n) == <<w, n>> \in alive

\* Mutant: stop records the end of a preview without killing it.
NobodyKilled(n) == alive

\* terminateProcessTree on the recorded process.
Killed(n) == alive \ { Pid(n) }

\* stop, second half: evidence, then the fact.  The ids production.stop and
\* production.cancel use are fixed; execute numbers its own.
\* Mutant: the record names the session after the one that was stopped.
StopRecordedAhead(n) == /\ sessions' = [sessions EXCEPT ![n].status = "stopped"]
                        /\ last' = n + 1

StopRecorded(n) == /\ sessions' = [sessions EXCEPT ![n].status = "stopped"]
                   /\ last' = n

\* production.stop / production.cancel captured this id before: it throws.
StopIsDuplicate(n) == <<"stop", n>> \in evidence

\* The evidence alone: the process ends, or the append fails, before the fact.
StopCaptured(n) == ~StopIsDuplicate(n) /\ evidence' = evidence \union { <<"stop", n>> }

FixedStop(n) == IF StopIsDuplicate(n)
                THEN UNCHANGED <<sessions, last, evidence>>
                ELSE /\ StopRecorded(n)
                     /\ evidence' = evidence \union { <<"stop", n>> }

===============================================================================
