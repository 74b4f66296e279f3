------------------------------ MODULE LedgerFile ------------------------------
(***************************************************************************)
(* The file of one mission's Ledger and its writer lock, at the grain of   *)
(* the file system calls of appendRecord (src/control-plane/               *)
(* mission-control.js).  MissionLedger takes "lock, replay, validate,      *)
(* append, unlock" as one step; here each call is a step of its process,   *)
(* processes die between any two calls, and the lock of a dead process is  *)
(* taken over.                                                             *)
(*                                                                         *)
(* Each process keeps the records it last validated, or wrote, under the   *)
(* hash of the whole file.  The file only grows, a line at a time, so that *)
(* its length stands for that hash.  What a record cites may have changed  *)
(* as well (dependencyFingerprint): the cached records are then validated  *)
(* again, and may be refused (Refuse), but the file is not parsed again.   *)
(* A reader without the lock fills the cache of its process as Read does.  *)
(*                                                                         *)
(* A record is represented by the number of records its writer had read:   *)
(* its sequence number and previousHash say nothing else.  A Ledger is     *)
(* therefore chained when its i-th record follows exactly i - 1 records.   *)
(***************************************************************************)
EXTENDS Naturals, Sequences, FiniteSets

CONSTANTS Processes,    \* pids of the processes that open this Ledger
          NoProcess,    \* no pid: no lock
          MaxRecords,   \* bound: records in the file
          MaxFailures,  \* bound: crashes and failed writes
          WriteFaults   \* what a failed write leaves: subset of {"torn", "unterminated"}

ASSUME FileBoundsAssumption ==
  /\ MaxRecords \in Nat /\ MaxFailures \in Nat
  /\ NoProcess \notin Processes
  /\ WriteFaults \subseteq { "torn", "unterminated" }

VARIABLES
  records,   \* the lines of <missionId>.jsonl
  tail,      \* how the last line ends: "clean", "unterminated"; "torn": a line is damaged
  lock,      \* the process that created the file at the lock path, if any
  stamped,   \* the file at the lock path holds that process's pid
  pc,        \* where each process is in appendRecord
  found,     \* found[p]: the dead process whose lock p is about to remove
  view,      \* view[p]: how many records p read under the lock
  cache,     \* cache[p]: validatedReplayCache, `count` records for a file of length `at`
  alive,     \* the processes that run
  failures,  \* crashes and failed writes so far
  crossed,   \* history: a process removed another lock than the one it had looked at
  blind      \* history: the process whose whole line ran into one that was cut, if any

file == <<records, tail>>
path == <<lock, stamped>>
locals == <<found, view, cache>>
history == <<crossed, blind>>
fileVars == <<file, path, pc, locals, alive, failures, history>>

-------------------------------------------------------------------------------
\* Where a process is: before each file system call of an append.
Places == { "idle", "open", "inspect", "takeover", "reopen", "stamp", "read",
            "append", "remember", "unlock" }

NothingCached == [ at |-> 0, count |-> 0 ]

\* parseLedger and the chain check of validateAndReplay accept the file: an
\* unterminated last line is read as a record.
Intact == tail # "torn" /\ \A i \in DOMAIN records : records[i] = i - 1

FileTypeOK ==
  /\ records \in Seq(Nat) /\ Len(records) <= MaxRecords
  /\ tail \in { "clean", "unterminated", "torn" }
  /\ lock \in Processes \union {NoProcess}
  /\ stamped \in BOOLEAN
  /\ pc \in [Processes -> Places]
  /\ found \in [Processes -> Processes \union {NoProcess}]
  /\ view \in [Processes -> Nat]
  /\ cache \in [Processes -> [at : Nat, count : Nat]]
  /\ alive \subseteq Processes
  /\ failures \in 0 .. MaxFailures
  /\ crossed \in BOOLEAN /\ blind \in Processes \union {NoProcess}

FileInit ==
  /\ records = << >> /\ tail = "clean"
  /\ lock = NoProcess /\ stamped = FALSE
  /\ pc = [ p \in Processes |-> "idle" ]
  /\ found = [ p \in Processes |-> NoProcess ]
  /\ view = [ p \in Processes |-> 0 ]
  /\ cache = [ p \in Processes |-> NothingCached ]
  /\ alive = Processes /\ failures = 0
  /\ crossed = FALSE /\ blind = NoProcess

-------------------------------------------------------------------------------
At(p, place) == p \in alive /\ pc[p] = place
Goto(p, place) == pc' = [ pc EXCEPT ![p] = place ]

\* An append is attempted.
Begin(p) ==
  /\ At(p, "idle") /\ Goto(p, "open")
  /\ UNCHANGED <<file, path, locals, alive, failures, history>>

\* openSync(lockPath, "wx") succeeds: an empty lock file.
Create(p) ==
  /\ At(p, "open") \/ At(p, "reopen")
  /\ lock = NoProcess
  /\ lock' = p /\ stamped' = FALSE
  /\ Goto(p, "stamp")
  /\ UNCHANGED <<file, locals, alive, failures, history>>

\* EEXIST at the first attempt: look whose lock it is.
Occupied(p) ==
  /\ At(p, "open") /\ lock # NoProcess
  /\ Goto(p, "inspect")
  /\ UNCHANGED <<file, path, locals, alive, failures, history>>

\* Mutants: the lock of a running process is abandoned; no lock ever is.
AnyStampedIsAbandoned == lock = NoProcess \/ ~stamped
NothingIsAbandoned == TRUE

\* removeAbandonedLock leaves the lock alone: it is gone by now, it is still
\* empty and does not parse, or it names a running process.
NotAbandoned == lock = NoProcess \/ ~stamped \/ lock \in alive

\* LedgerBusyError.
Busy(p) ==
  /\ \/ At(p, "inspect") /\ NotAbandoned
     \/ At(p, "takeover") /\ lock = NoProcess
     \/ At(p, "reopen") /\ lock # NoProcess
  /\ Goto(p, "idle")
  /\ found' = [ found EXCEPT ![p] = NoProcess ]
  /\ UNCHANGED <<file, path, view, cache, alive, failures, history>>

\* removeAbandonedLock reads the pid of a process that is gone ...
Abandoned(p) ==
  /\ At(p, "inspect") /\ ~NotAbandoned
  /\ found' = [ found EXCEPT ![p] = lock ]
  /\ Goto(p, "takeover")
  /\ UNCHANGED <<file, path, view, cache, alive, failures, history>>

\* ... and removes whatever the path names by then.
TakeOver(p) ==
  /\ At(p, "takeover") /\ lock # NoProcess
  /\ lock' = NoProcess /\ stamped' = FALSE
  /\ crossed' = (crossed \/ lock # found[p])
  /\ found' = [ found EXCEPT ![p] = NoProcess ]
  /\ Goto(p, "reopen")
  /\ UNCHANGED <<file, view, cache, alive, failures, blind>>

\* The pid goes into the file p created, whether or not the path still names it.
Stamp(p) ==
  /\ At(p, "stamp")
  /\ stamped' = (stamped \/ lock = p)
  /\ Goto(p, "read")
  /\ UNCHANGED <<file, lock, locals, alive, failures, history>>

\* Mutant: a replay that is cached is used, whatever became of the file.
AnyCacheHits(p) == cache[p].at # 0

\* The file is the one the cached records were taken from, or left in.
CacheHits(p) == cache[p].at = Len(records)

\* readRecords under the lock.  Cached records are returned unparsed; a file
\* that is read anew and does not replay ends the append.
Read(p) ==
  /\ At(p, "read")
  /\ \/ /\ CacheHits(p)
        /\ view' = [ view EXCEPT ![p] = cache[p].count ]
        /\ Goto(p, "append") /\ UNCHANGED cache
     \/ /\ ~CacheHits(p) /\ Intact
        /\ view' = [ view EXCEPT ![p] = Len(records) ]
        /\ cache' = [ cache EXCEPT ![p] = [ at |-> Len(records), count |-> Len(records) ] ]
        /\ Goto(p, "append")
     \/ /\ ~CacheHits(p) /\ ~Intact
        /\ Goto(p, "unlock") /\ UNCHANGED <<view, cache>>
  /\ UNCHANGED <<file, path, found, alive, failures, history>>

\* validateCurrent refuses the record, or a validation of cached records fails.
Refuse(p) ==
  /\ At(p, "append") /\ Goto(p, "unlock")
  /\ view' = [ view EXCEPT ![p] = 0 ]
  /\ UNCHANGED <<file, path, found, cache, alive, failures, history>>

\* A further line; one that follows an unterminated line runs into it.
AddLine(p, end) ==
  /\ At(p, "append") /\ Len(records) < MaxRecords
  /\ records' = Append(records, view[p])
  /\ tail' = IF tail \in { "unterminated", "torn" } THEN "torn" ELSE end

\* appendFileSync.
Write(p) ==
  /\ AddLine(p, "clean")
  /\ blind' = IF tail = "unterminated" THEN p ELSE blind
  /\ Goto(p, "remember")
  /\ UNCHANGED <<path, locals, alive, failures, crossed>>

\* What was written is cached with the hash of the file as it is now, unparsed.
Remember(p) ==
  /\ At(p, "remember")
  /\ cache' = [ cache EXCEPT ![p] = [ at |-> Len(records), count |-> view[p] + 1 ] ]
  /\ view' = [ view EXCEPT ![p] = 0 ]
  /\ Goto(p, "unlock")
  /\ UNCHANGED <<file, path, found, alive, failures, history>>

\* finally unlinkSync(lockPath): whichever lock is there.
Unlock(p) ==
  /\ At(p, "unlock")
  /\ lock' = NoProcess /\ stamped' = FALSE
  /\ Goto(p, "idle")
  /\ UNCHANGED <<file, locals, alive, failures, history>>

-------------------------------------------------------------------------------
(* Faults.                                                                 *)

Fault == failures < MaxFailures /\ failures' = failures + 1

\* The process is killed between two calls; its lock stays behind.  One that
\* starts in its place has another pid.
Die(p) ==
  /\ p \in alive /\ alive' = alive \ {p} /\ Goto(p, "idle")
  /\ found' = [ found EXCEPT ![p] = NoProcess ]
  /\ view' = [ view EXCEPT ![p] = 0 ]
  /\ cache' = [ cache EXCEPT ![p] = NothingCached ]

Killed(p) ==
  /\ Fault /\ Die(p)
  /\ UNCHANGED <<file, path, history>>

\* Mutant: the cache is filled in the finally clause, also after a failed write.
CutWriteRemembers(p) ==
  /\ Fault
  /\ \E end \in WriteFaults : AddLine(p, end)
  /\ Goto(p, "remember")
  /\ UNCHANGED <<path, locals, alive, history>>

\* The machine fails, or the disk is full, inside appendFileSync: a part of the
\* line is on disk, and the process is gone or goes on to its finally clause.
CutWrite(p) ==
  /\ Fault
  /\ \E end \in WriteFaults : AddLine(p, end)
  /\ \/ Die(p)
     \/ /\ Goto(p, "unlock") /\ view' = [ view EXCEPT ![p] = 0 ]
        /\ UNCHANGED <<found, cache, alive>>
  /\ UNCHANGED <<path, history>>

\* The write of the pid fails: acquireMissionLock throws, the empty lock stays.
StampFails(p) ==
  /\ Fault /\ At(p, "stamp")
  /\ Goto(p, "idle")
  /\ UNCHANGED <<file, path, locals, alive, history>>

-------------------------------------------------------------------------------
Step(p) ==
  \/ Create(p) \/ Occupied(p) \/ Busy(p) \/ Abandoned(p) \/ TakeOver(p)
  \/ Stamp(p) \/ Read(p) \/ Refuse(p) \/ Write(p) \/ Remember(p) \/ Unlock(p)

FileNext ==
  \E p \in Processes : Begin(p) \/ Step(p) \/ Killed(p) \/ CutWrite(p) \/ StampFails(p)

\* appendRecord is synchronous: a process that began an append and is not
\* killed runs it to its end, and the processes that run keep appending.
Fairness == \A p \in Processes : WF_fileVars(Begin(p) \/ Step(p))

FileSpec == FileInit /\ [][FileNext]_fileVars /\ Fairness

-------------------------------------------------------------------------------
(* Properties.                                                             *)

\* Where a process replays and appends.
Writing == { "read", "append", "remember", "unlock" }

\* One process at a time replays and appends, whoever died and however many find
\* the lock of a dead process at once: nobody's record can come between what a
\* writer validated against and what it writes.  There is one way out:
\* removeAbandonedLock reads the pid and removes the path in two calls, and the
\* second may meet a lock that was not there at the first.
OneWriter ==
  ~crossed => \A p, q \in Processes : pc[p] \in Writing /\ pc[q] \in Writing => p = q

\* Every record follows the whole file as it was just before, though most are
\* validated against cached records: this is what MissionLedger takes for
\* granted when it appends in one step.
AppendsAreSerial ==
  [][ ~crossed /\ records' # records => records' = Append(records, Len(records)) ]_fileVars

\* A Ledger that is damaged is not written any more, so that what is left of it
\* can be recovered: neither by those who find it so, nor by the one whose write
\* was cut.  Only a process whose own whole line ran into a cut one takes the
\* file for what it meant to write, until it dies.
DamageIsFrozen ==
  [][ ~crossed /\ ~Intact /\ file' # file => blind # NoProcess /\ At(blind, "append") ]_fileVars

\* README.md:144: "There is no mutable mission, contract, evidence, provider, or
\* model snapshot that can supersede replayed authority."  The cache of that one
\* process does: its callers are told that their records are stored, and nobody
\* else can read the Ledger.
DamageIsNeverWritten == [][ ~Intact => UNCHANGED file ]_fileVars

\* A lock that carries its owner's pid is released, by the owner or, once the
\* owner is dead, by the next process that finds it.
StampedLocksGo == \A p \in Processes : (lock = p /\ stamped) ~> (lock # p)

\* test/milestone-1.test.js:431: "restart removes an abandoned writer lock and
\* resumes from persisted events": every lock of a process that died goes.
AbandonedLocksGo == \A p \in Processes : (lock = p /\ p \notin alive) ~> (lock # p)

===============================================================================
