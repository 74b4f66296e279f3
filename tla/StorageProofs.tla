----------------------------- MODULE StorageProofs -----------------------------
(***************************************************************************)
(* Proofs about what is on disk: the file of a Ledger under its lock, and  *)
(* the store of a workspace.  The two have nothing in common but that they *)
(* are written call by call by processes that may die in between.          *)
(*                                                                         *)
(* The Ledger's file, for any number of processes, whatever dies and       *)
(* whatever write is cut short:                                            *)
(*                                                                         *)
(* - As long as no process has removed another lock than the one it had    *)
(*   looked at, writers go one at a time (Held), every record follows the  *)
(*   whole file, cached or read, and a damaged file is written by nobody   *)
(*   but the one process whose own line ran into a cut one (Replayed).     *)
(* - No process does that while none dies, nor when there are only two.    *)
(*                                                                         *)
(* The workspace store, for any trees and checkpoints:                     *)
(*                                                                         *)
(* - Whatever crashes and whatever fails, the Ledger names only checkpoints*)
(*   whose record and blobs are whole: a publication appends its fact only *)
(*   after both are (Published), it never touches the record of a check-   *)
(*   point that is in the Ledger already, and a whole blob stays whole.    *)
(* - Whatever crashes and whatever fails, work is only thrown away by an   *)
(*   edit or by a commit after the fact: Placed says where an operation has*)
(*   the live tree and the one it moved away at each of its calls.         *)
(* - Where facts are refused and writes cut short, but nothing else fails, *)
(*   the live tree is what the Ledger tells of: until the fact is recorded *)
(*   that tree is what was moved away, and a rollback brings it back (Told)*)
(***************************************************************************)
EXTENDS LedgerFile, WorkspaceStore, TLAPS

-------------------------------------------------------------------------------
(* The file of a Ledger.                                                   *)

\* From its lock file's creation to its removal a process owns the lock.
Owning == { "stamp" } \union Writing

\* A dead process does nothing, and what is taken over was a dead one's.
Base ==
  /\ FileTypeOK
  /\ \A p \in Processes : p \notin alive => pc[p] = "idle"
  /\ \A p \in Processes : pc[p] = "takeover" => found[p] \in Processes \ alive

\* Who owns the lock finds it at its path.
Held == \A p \in Processes : pc[p] \in Owning => lock = p

\* What is read or cached for the file as it is counts all its records, and only
\* the process that ran into a cut line has read or cached a damaged file.
Replayed ==
  /\ \A i \in DOMAIN records : records[i] = i - 1
  /\ \A p \in Processes :
       /\ cache[p].at <= Len(records)
       /\ cache[p].at = Len(records) =>
            cache[p].count = Len(records) /\ (tail = "torn" => p = blind)
       /\ pc[p] = "append" => view[p] = Len(records) /\ (tail = "torn" => p = blind)
       /\ pc[p] = "remember" => view[p] + 1 = Len(records) /\ (tail = "torn" => p = blind)

LockInv == Base /\ (~crossed => Held /\ Replayed)

\* Nobody holds the lock and nothing is read at the start.
LEMMA LockInit == FileInit => LockInv
  <1> SUFFICES ASSUME FileInit PROVE LockInv
    OBVIOUS
  <1>1. records = << >> /\ records \in Seq(Nat) /\ Len(records) = 0 /\ DOMAIN records = {}
    BY DEF FileInit
  <1>2. 0 \in 0 .. MaxFailures /\ Len(records) <= MaxRecords
    BY <1>1, FileBoundsAssumption
  <1>3. NothingCached \in [at : Nat, count : Nat]
    BY DEF NothingCached
  <1>4. FileTypeOK
    BY <1>1, <1>2, <1>3 DEF FileInit, FileTypeOK, Places
  <1>5. Base /\ Held
    BY <1>4 DEF FileInit, Base, Held, Owning, Writing
  <1>6. Replayed
    BY <1>1 DEF FileInit, Replayed, NothingCached
  <1> QED
    BY <1>5, <1>6 DEF LockInv

\* A line that is added has the number of records its writer read.
LEMMA TypesWrite ==
  ASSUME FileTypeOK, NEW p \in Processes, NEW end \in { "clean", "unterminated", "torn" },
         AddLine(p, end)
  PROVE  /\ records' \in Seq(Nat) /\ Len(records') <= MaxRecords
         /\ Len(records') = Len(records) + 1
         /\ tail' \in { "clean", "unterminated", "torn" }
  <1>1. view[p] \in Nat /\ Len(records) < MaxRecords
    BY DEF FileTypeOK, AddLine
  <1>2. records' = Append(records, view[p]) /\ Len(records) \in Nat
    BY DEF FileTypeOK, AddLine
  <1>3. records' \in Seq(Nat) /\ Len(records') = Len(records) + 1
    BY <1>1, <1>2 DEF FileTypeOK
  <1> QED
    BY <1>1, <1>2, <1>3, FileBoundsAssumption DEF AddLine, FileTypeOK

LEMMA TypesStep == FileTypeOK /\ [FileNext]_fileVars => FileTypeOK'
  <1> SUFFICES ASSUME FileTypeOK, [FileNext]_fileVars PROVE FileTypeOK'
    OBVIOUS
  <1>0. Len(records) \in Nat /\ NothingCached \in [at : Nat, count : Nat]
    BY DEF FileTypeOK, NothingCached
  <1>1. CASE UNCHANGED fileVars
    BY <1>1 DEF fileVars, file, path, locals, history, FileTypeOK
  <1>2. ASSUME NEW p \in Processes,
               Begin(p) \/ Create(p) \/ Occupied(p) \/ Busy(p) \/ Abandoned(p) \/ TakeOver(p)
        PROVE  FileTypeOK'
    <2>1. CASE Begin(p) \/ Occupied(p)
      BY <2>1 DEF Begin, Occupied, FileTypeOK, Goto, Places, file, path, locals, history
    <2>2. CASE Create(p)
      BY <2>2 DEF Create, FileTypeOK, Goto, Places, file, path, locals, history
    <2>3. CASE Busy(p) \/ Abandoned(p)
      BY <2>3 DEF Busy, Abandoned, FileTypeOK, Goto, Places, file, path, locals, history
    <2>4. CASE TakeOver(p)
      BY <2>4 DEF TakeOver, FileTypeOK, Goto, Places, file, path, locals, history
    <2> QED
      BY <1>2, <2>1, <2>2, <2>3, <2>4
  <1>3. ASSUME NEW p \in Processes, Stamp(p) \/ Refuse(p) \/ Unlock(p)
        PROVE  FileTypeOK'
    <2>1. CASE Stamp(p)
      BY <2>1 DEF Stamp, FileTypeOK, Goto, Places, file, path, locals, history
    <2>2. CASE Refuse(p)
      BY <2>2 DEF Refuse, FileTypeOK, Goto, Places, file, path, locals, history
    <2>3. CASE Unlock(p)
      BY <2>3 DEF Unlock, FileTypeOK, Goto, Places, file, path, locals, history
    <2> QED
      BY <1>3, <2>1, <2>2, <2>3
  <1>4. ASSUME NEW p \in Processes, Read(p)
        PROVE  FileTypeOK'
    <2>1. pc' \in [Processes -> Places]
      BY <1>4 DEF Read, FileTypeOK, Goto, Places
    <2>2. [ at |-> Len(records), count |-> Len(records) ] \in [at : Nat, count : Nat]
      BY <1>0
    <2>3. cache' \in [Processes -> [at : Nat, count : Nat]]
      BY <1>4, <2>2 DEF Read, FileTypeOK
    <2>4. view' \in [Processes -> Nat]
      <3>1. cache[p].count \in Nat
        BY DEF FileTypeOK
      <3> QED
        BY <1>0, <1>4, <3>1 DEF Read, FileTypeOK
    <2> QED
      BY <1>4, <2>1, <2>3, <2>4 DEF Read, FileTypeOK, file, path, history
  <1>5. ASSUME NEW p \in Processes, Write(p)
        PROVE  FileTypeOK'
    <2>1. /\ records' \in Seq(Nat) /\ Len(records') <= MaxRecords
          /\ tail' \in { "clean", "unterminated", "torn" }
      BY <1>5, TypesWrite DEF Write
    <2> QED
      BY <1>5, <2>1 DEF Write, FileTypeOK, Goto, Places, path, locals
  <1>6. ASSUME NEW p \in Processes, Remember(p)
        PROVE  FileTypeOK'
    <2>1. [ at |-> Len(records), count |-> view[p] + 1 ] \in [at : Nat, count : Nat]
      BY <1>0 DEF FileTypeOK
    <2> QED
      BY <1>6, <2>1 DEF Remember, FileTypeOK, Goto, Places, file, path, history
  <1>7. ASSUME NEW p \in Processes, Killed(p) \/ StampFails(p)
        PROVE  FileTypeOK'
    <2>1. failures' \in 0 .. MaxFailures
      BY <1>7, FileBoundsAssumption DEF Killed, StampFails, Fault, FileTypeOK
    <2>2. CASE Killed(p)
      <3>1. /\ pc' \in [Processes -> Places] /\ alive' \subseteq Processes
            /\ found' \in [Processes -> Processes \union {NoProcess}]
        BY <2>2 DEF Killed, Die, Goto, FileTypeOK, Places
      <3>2. view' \in [Processes -> Nat] /\ cache' \in [Processes -> [at : Nat, count : Nat]]
        BY <1>0, <2>2 DEF Killed, Die, FileTypeOK
      <3> QED
        BY <2>1, <2>2, <3>1, <3>2 DEF Killed, FileTypeOK, file, path, history
    <2>3. CASE StampFails(p)
      BY <2>1, <2>3 DEF StampFails, FileTypeOK, Goto, Places, file, path, locals, history
    <2> QED
      BY <1>7, <2>2, <2>3
  <1>8. ASSUME NEW p \in Processes, CutWrite(p)
        PROVE  FileTypeOK'
    <2>1. PICK end \in WriteFaults : AddLine(p, end)
      BY <1>8 DEF CutWrite
    <2>2. /\ records' \in Seq(Nat) /\ Len(records') <= MaxRecords
          /\ tail' \in { "clean", "unterminated", "torn" }
      BY <2>1, TypesWrite, FileBoundsAssumption
    <2>3. failures' \in 0 .. MaxFailures
      BY <1>8, FileBoundsAssumption DEF CutWrite, Fault, FileTypeOK
    <2>4. /\ pc' \in [Processes -> Places] /\ alive' \subseteq Processes
          /\ found' \in [Processes -> Processes \union {NoProcess}]
      BY <1>8 DEF CutWrite, Die, Goto, FileTypeOK, Places
    <2>5. view' \in [Processes -> Nat] /\ cache' \in [Processes -> [at : Nat, count : Nat]]
      <3>1. /\ view' = [ view EXCEPT ![p] = 0 ]
            /\ cache' = cache \/ cache' = [ cache EXCEPT ![p] = NothingCached ]
        BY <1>8 DEF CutWrite, Die
      <3> QED
        BY <1>0, <3>1 DEF FileTypeOK
    <2>6. UNCHANGED <<path, history>>
      BY <1>8 DEF CutWrite
    <2> QED
      BY <2>2, <2>3, <2>4, <2>5, <2>6 DEF FileTypeOK, path, history
  <1> QED
    BY <1>1, <1>2, <1>3, <1>4, <1>5, <1>6, <1>7, <1>8 DEF FileNext, Step

\* Whatever fails, the variables of the file have their types.
THEOREM FileTypes == FileSpec => []FileTypeOK
  <1>1. FileInit => FileTypeOK
    BY LockInit DEF LockInv, Base
  <1> QED
    BY <1>1, TypesStep, PTL DEF FileSpec

\* What a call of process p may do to the other processes: nothing.
LEMMA OthersStay ==
  ASSUME FileTypeOK, NEW p \in Processes, NEW q \in Processes, p # q,
         Begin(p) \/ Step(p) \/ Killed(p) \/ CutWrite(p) \/ StampFails(p)
  PROVE  pc'[q] = pc[q] /\ found'[q] = found[q] /\ view'[q] = view[q] /\ cache'[q] = cache[q]
  <1>1. CASE Begin(p) \/ Create(p) \/ Occupied(p) \/ Busy(p) \/ Abandoned(p) \/ TakeOver(p)
             \/ Stamp(p)
    BY <1>1 DEF Begin, Create, Occupied, Busy, Abandoned, TakeOver, Stamp, Goto, locals,
       FileTypeOK
  <1>2. CASE Read(p) \/ Refuse(p) \/ Write(p) \/ Remember(p) \/ Unlock(p)
    BY <1>2 DEF Read, Refuse, Write, Remember, Unlock, AddLine, Goto, locals, FileTypeOK
  <1>3. CASE Killed(p) \/ CutWrite(p) \/ StampFails(p)
    BY <1>3 DEF Killed, CutWrite, StampFails, Die, Goto, locals, FileTypeOK
  <1> QED
    BY <1>1, <1>2, <1>3 DEF Step

\* A process moves while it runs; processes only die; a crossing is not forgotten.
LEMMA MoverRuns ==
  ASSUME NEW p \in Processes,
         Begin(p) \/ Step(p) \/ Killed(p) \/ CutWrite(p) \/ StampFails(p)
  PROVE  p \in alive /\ alive' \subseteq alive /\ (crossed => crossed')
  <1>1. CASE Begin(p) \/ Create(p) \/ Occupied(p) \/ Busy(p) \/ Abandoned(p) \/ Stamp(p)
    BY <1>1 DEF Begin, Create, Occupied, Busy, Abandoned, Stamp, At, history
  <1>2. CASE Read(p) \/ Refuse(p) \/ Write(p) \/ Remember(p) \/ Unlock(p)
    BY <1>2 DEF Read, Refuse, Write, Remember, Unlock, AddLine, At, history
  <1>3. CASE Killed(p)
    BY <1>3 DEF Killed, Die, history
  <1>4. CASE CutWrite(p)
    BY <1>4 DEF CutWrite, Die, At, AddLine, history
  <1>5. CASE StampFails(p)
    BY <1>5 DEF StampFails, At, history
  <1>6. CASE TakeOver(p)
    BY <1>6 DEF TakeOver, At
  <1> QED
    BY <1>1, <1>2, <1>3, <1>4, <1>5, <1>6 DEF Step

LEMMA BaseStep ==
  ASSUME Base, [FileNext]_fileVars
  PROVE  Base'
  <1>1. FileTypeOK /\ FileTypeOK'
    BY TypesStep DEF Base
  <1>2. CASE UNCHANGED fileVars
    BY <1>1, <1>2 DEF fileVars, locals, Base
  <1>3. ASSUME NEW p \in Processes,
               Begin(p) \/ Step(p) \/ Killed(p) \/ CutWrite(p) \/ StampFails(p)
        PROVE  Base'
    <2>1. p \in alive /\ alive' \subseteq alive
      BY <1>3, MoverRuns
    <2>2. p \notin alive' => pc'[p] = "idle"
      BY <1>1, <1>3, <2>1 DEF Step, Begin, Create, Occupied, Busy, Abandoned, TakeOver, Stamp,
         Read, Refuse, Write, Remember, Unlock, Killed, CutWrite, StampFails, Die, Goto, FileTypeOK
    <2>3. pc'[p] = "takeover" => found'[p] \in Processes \ alive'
      <3>1. CASE Abandoned(p)
        BY <1>1, <2>1, <3>1 DEF Abandoned, NotAbandoned, FileTypeOK
      <3>2. CASE ~Abandoned(p)
        BY <1>1, <1>3, <3>2 DEF Step, Begin, Create, Occupied, Busy, TakeOver, Stamp,
           Read, Refuse, Write, Remember, Unlock, Killed, CutWrite, StampFails, Die, Goto, FileTypeOK
      <3> QED
        BY <3>1, <3>2
    <2>4. ASSUME NEW q \in Processes, q # p
          PROVE  /\ q \notin alive' => pc'[q] = "idle"
                 /\ pc'[q] = "takeover" => found'[q] \in Processes \ alive'
      <3>1. pc'[q] = pc[q] /\ found'[q] = found[q]
        BY <1>1, <1>3, <2>4, OthersStay
      <3>2. q \notin alive' => q \notin alive
        BY <1>3, <2>4 DEF Step, Begin, Create, Occupied, Busy, Abandoned, TakeOver, Stamp,
           Read, Refuse, Write, Remember, Unlock, Killed, CutWrite, StampFails, Die
      <3> QED
        BY <2>1, <3>1, <3>2 DEF Base
    <2> QED
      BY <1>1, <2>2, <2>3, <2>4 DEF Base
  <1> QED
    BY <1>2, <1>3 DEF FileNext

\* Who owns the lock is the only one that does.
LEMMA OwnerIsAlone ==
  ASSUME Held, NEW p \in Processes, pc[p] \in Owning
  PROVE  \A q \in Processes \ {p} : pc[q] \notin Owning
  BY DEF Held

\* A lock that is created is nobody's; one that is removed is the remover's own, or
\* that of a dead process, as long as it is the one that was looked at.
LEMMA HeldStep ==
  ASSUME Base, Held, [FileNext]_fileVars, ~crossed'
  PROVE  Held'
  <1>1. FileTypeOK
    BY DEF Base
  <1>2. CASE UNCHANGED fileVars
    BY <1>2 DEF fileVars, path, Held
  <1>3. ASSUME NEW p \in Processes,
               Begin(p) \/ Step(p) \/ Killed(p) \/ CutWrite(p) \/ StampFails(p)
        PROVE  Held'
    <2>1. ASSUME NEW q \in Processes, q # p
          PROVE  pc'[q] = pc[q]
      BY <1>1, <1>3, <2>1, OthersStay
    <2>2. CASE Create(p)
      BY <1>1, <2>1, <2>2, FileBoundsAssumption DEF Create, Held
    <2>3. CASE TakeOver(p)
      <3>1. lock = found[p] /\ found[p] \notin alive
        BY <2>3 DEF TakeOver, At, Base
      <3>2. \A q \in Processes : pc[q] \notin Owning
        BY <3>1 DEF Held, Base, Owning, Writing
      <3>3. pc'[p] = "reopen"
        BY <1>1, <2>3 DEF TakeOver, Goto, FileTypeOK
      <3> QED
        BY <2>1, <3>2, <3>3 DEF Held, Owning, Writing
    <2>4. CASE Unlock(p)
      <3>1. \A q \in Processes \ {p} : pc[q] \notin Owning
        BY <2>4, OwnerIsAlone DEF Unlock, At, Owning, Writing
      <3>2. pc'[p] = "idle"
        BY <1>1, <2>4 DEF Unlock, Goto, FileTypeOK
      <3> QED
        BY <2>1, <3>1, <3>2 DEF Held, Owning, Writing
    <2>5. CASE ~(Create(p) \/ TakeOver(p) \/ Unlock(p))
      <3>1. lock' = lock
        BY <1>3, <2>5 DEF Step, Begin, Occupied, Busy, Abandoned, Stamp, Read, Refuse, Write,
           Remember, Killed, CutWrite, StampFails, path
      <3>2. pc'[p] \in Owning => pc[p] \in Owning
        BY <1>1, <1>3, <2>5 DEF Step, Begin, Occupied, Busy, Abandoned, Stamp, Read, Refuse, Write,
           Remember, Killed, CutWrite, StampFails, AddLine, Die, At, Goto, Owning, Writing, FileTypeOK
      <3> QED
        BY <2>1, <3>1, <3>2 DEF Held
    <2> QED
      BY <2>2, <2>3, <2>4, <2>5
  <1> QED
    BY <1>2, <1>3 DEF FileNext

\* A writer adds one line, after all the others.
LEMMA WritesFollow ==
  ASSUME FileTypeOK, Replayed, NEW p \in Processes, NEW end, AddLine(p, end)
  PROVE  /\ records' = Append(records, Len(records)) /\ Len(records') = Len(records) + 1
         /\ \A i \in DOMAIN records' : records'[i] = i - 1
  <1>1. records' = Append(records, Len(records)) /\ records \in Seq(Nat) /\ Len(records) \in Nat
    BY DEF FileTypeOK, Replayed, AddLine, At
  <1>2. Len(records') = Len(records) + 1 /\ DOMAIN records' = 1 .. (Len(records) + 1)
    BY <1>1
  <1>3. ASSUME NEW i \in DOMAIN records'
        PROVE  records'[i] = i - 1
    <2>1. CASE i = Len(records) + 1
      BY <1>1, <2>1
    <2>2. CASE i # Len(records) + 1
      <3>1. i \in DOMAIN records /\ records'[i] = records[i]
        BY <1>1, <1>2, <2>2
      <3> QED
        BY <3>1 DEF Replayed
    <2> QED
      BY <2>1, <2>2
  <1> QED
    BY <1>1, <1>2, <1>3

\* The file and what is cached of it have lengths.
LEMMA Lengths ==
  ASSUME FileTypeOK
  PROVE  Len(records) \in Nat /\ \A q \in Processes : cache[q].at \in Nat
  BY DEF FileTypeOK

\* A line that is added makes every cache one of an older file, and nobody but its
\* writer has read the new one.
LEMMA AddedReplays ==
  ASSUME FileTypeOK, FileTypeOK', Held, Replayed, NEW p \in Processes, NEW end, AddLine(p, end),
         \A q \in Processes \ {p} : pc'[q] = pc[q] /\ cache'[q] = cache[q],
         cache'[p] \in { cache[p], NothingCached }, pc'[p] # "append",
         pc'[p] = "remember" => view'[p] = view[p] /\ (tail' = "torn" => p = blind')
  PROVE  Replayed'
  <1>1. Len(records') = Len(records) + 1 /\ \A i \in DOMAIN records' : records'[i] = i - 1
    BY WritesFollow
  <1>2. Len(records) \in Nat /\ \A q \in Processes : cache[q].at \in Nat /\ cache[q].at <= Len(records)
    BY Lengths DEF Replayed
  <1>3. \A q \in Processes : cache'[q].at <= Len(records)
    BY <1>2 DEF NothingCached
  <1>4. \A q \in Processes : cache'[q].at <= Len(records') /\ cache'[q].at # Len(records')
    <2>1. \A q \in Processes : cache'[q].at \in Nat
      BY DEF FileTypeOK
    <2> QED
      BY <1>1, <1>2, <1>3, <2>1
  <1>5. \A q \in Processes \ {p} : pc'[q] \notin { "append", "remember" }
    BY OwnerIsAlone DEF AddLine, At, Owning, Writing
  <1>6. pc'[p] = "remember" => view'[p] + 1 = Len(records')
    BY <1>1 DEF AddLine, At, Replayed
  <1> QED
    BY <1>1, <1>4, <1>5, <1>6 DEF Replayed

LEMMA ReplayedStep ==
  ASSUME Base, Held, Replayed, [FileNext]_fileVars
  PROVE  Replayed'
  <1>0. FileTypeOK /\ FileTypeOK'
    BY TypesStep DEF Base
  <1>1. FileTypeOK /\ FileTypeOK' /\ Len(records) \in Nat
    BY <1>0, Lengths
  <1>2. CASE UNCHANGED fileVars
    <2>1. UNCHANGED <<records, tail, pc, view, cache, blind>>
      BY <1>2 DEF fileVars, file, locals, history
    <2> QED
      BY <2>1 DEF Replayed
  <1>3. ASSUME NEW p \in Processes,
               Begin(p) \/ Step(p) \/ Killed(p) \/ CutWrite(p) \/ StampFails(p)
        PROVE  Replayed'
    <2>1. \A q \in Processes \ {p} : pc'[q] = pc[q] /\ view'[q] = view[q] /\ cache'[q] = cache[q]
      BY <1>1, <1>3, OthersStay
    <2>2. CASE Write(p)
      <3>1. AddLine(p, "clean") /\ pc'[p] = "remember" /\ view' = view /\ cache' = cache
        BY <1>1, <2>2 DEF Write, Goto, locals, FileTypeOK
      <3>2. tail' = "torn" => p = blind'
        BY <2>2 DEF Write, AddLine, At, Replayed
      <3> QED
        BY <1>1, <2>1, <3>1, <3>2, AddedReplays
    <2>3. CASE CutWrite(p)
      <3>1. PICK end \in WriteFaults : AddLine(p, end)
        BY <2>3 DEF CutWrite
      <3>2. pc'[p] \in { "idle", "unlock" } /\ cache'[p] \in { cache[p], NothingCached }
        BY <1>1, <2>3 DEF CutWrite, Die, Goto, FileTypeOK
      <3> QED
        BY <1>1, <2>1, <3>1, <3>2, AddedReplays
    <2>4. CASE ~(Write(p) \/ CutWrite(p))
      <3>1. records' = records /\ tail' = tail /\ blind' = blind
        BY <1>3, <2>4 DEF Step, Begin, Create, Occupied, Busy, Abandoned, TakeOver, Stamp,
           Read, Refuse, Remember, Unlock, Killed, StampFails, file, history
      <3>2. /\ cache'[p].at <= Len(records)
            /\ cache'[p].at = Len(records) =>
                 cache'[p].count = Len(records) /\ (tail = "torn" => p = blind)
            /\ pc'[p] = "append" => view'[p] = Len(records) /\ (tail = "torn" => p = blind)
            /\ pc'[p] # "remember"
        <4>1. CASE Read(p)
          BY <1>1, <4>1 DEF Read, CacheHits, Intact, Replayed, Goto, FileTypeOK
        <4>2. CASE Remember(p)
          BY <1>1, <4>2 DEF Remember, At, Replayed, Goto, FileTypeOK
        <4>3. CASE Killed(p)
          BY <1>1, <4>3 DEF Killed, Die, Goto, FileTypeOK, NothingCached, Replayed
        <4>4. CASE Begin(p) \/ Create(p) \/ Occupied(p) \/ Busy(p) \/ Abandoned(p) \/ TakeOver(p)
                   \/ Stamp(p) \/ Refuse(p) \/ Unlock(p) \/ StampFails(p)
          <5>1. cache'[p] = cache[p] /\ pc'[p] \notin { "append", "remember" }
            BY <1>1, <4>4 DEF Begin, Create, Occupied, Busy, Abandoned, TakeOver, Stamp, Refuse,
               Unlock, StampFails, Goto, FileTypeOK, locals
          <5> QED
            BY <5>1 DEF Replayed
        <4> QED
          BY <1>3, <2>4, <4>1, <4>2, <4>3, <4>4 DEF Step
      <3> QED
        BY <2>1, <3>1, <3>2 DEF Replayed
    <2> QED
      BY <2>2, <2>3, <2>4
  <1> QED
    BY <1>2, <1>3 DEF FileNext

LEMMA LockStep == LockInv /\ [FileNext]_fileVars => LockInv'
  <1> SUFFICES ASSUME LockInv, [FileNext]_fileVars PROVE LockInv'
    OBVIOUS
  <1>1. crossed => crossed'
    BY MoverRuns DEF FileNext, fileVars, history
  <1> QED
    BY <1>1, BaseStep, HeldStep, ReplayedStep DEF LockInv

\* What a step does to the file, a writer did: it had read the whole of it, and a damaged
\* file only if it had run into the cut line itself.
LEMMA WritersHaveRead ==
  ASSUME LockInv, ~crossed, [FileNext]_fileVars, file' # file
  PROVE  /\ records' = Append(records, Len(records))
         /\ ~Intact => blind # NoProcess /\ At(blind, "append")
  <1>1. PICK p \in Processes : \E end \in { "clean" } \union WriteFaults : AddLine(p, end)
    BY DEF FileNext, Step, Begin, Create, Occupied, Busy, Abandoned, TakeOver, Stamp,
       Read, Refuse, Write, CutWrite, Remember, Unlock, Killed, StampFails, fileVars, file
  <1>2. view[p] = Len(records) /\ (~Intact => p = blind)
    BY <1>1 DEF AddLine, At, LockInv, Replayed, Intact
  <1> QED
    BY <1>1, <1>2, FileBoundsAssumption DEF AddLine

\* The lock of appendRecord keeps any number of processes apart, however many die and find
\* each other's locks at once, until one removes another lock than the one it looked at
\* (removeAbandonedLock reads the pid and unlinks the path in two calls).
THEOREM OneAtATime == FileSpec => []OneWriter
  <1>1. LockInv => OneWriter
    BY DEF LockInv, Held, OneWriter, Owning
  <1> QED
    BY <1>1, LockInit, LockStep, PTL DEF FileSpec

\* So every record follows the file as it was just before, whether its writer parsed the file
\* or took the records it had cached for it: the append of MissionLedger may be one step.
THEOREM SerialAppends == FileSpec => AppendsAreSerial
  <1>1. LockInv /\ [FileNext]_fileVars =>
          (~crossed /\ records' # records => records' = Append(records, Len(records)))
    BY WritersHaveRead DEF file
  <1> QED
    BY <1>1, LockInit, LockStep, PTL DEF FileSpec, AppendsAreSerial

\* A file that does not replay, because a write was cut short, is written by nobody but the
\* process whose own line ran into the cut one, which has the damaged file in its cache
\* (appendRecord caches what it wrote without parsing the file again).
THEOREM DamageFrozen == FileSpec => DamageIsFrozen
  <1>1. LockInv /\ [FileNext]_fileVars =>
          (~crossed /\ ~Intact /\ file' # file => blind # NoProcess /\ At(blind, "append"))
    BY WritersHaveRead
  <1> QED
    BY <1>1, LockInit, LockStep, PTL DEF FileSpec, DamageIsFrozen

-------------------------------------------------------------------------------
(* Where no other lock than the one that was looked at is ever removed.    *)

\* While every process runs, no lock is abandoned.
LEMMA CalmStep ==
  ASSUME MaxFailures = 0, Base, alive = Processes, ~crossed, [FileNext]_fileVars
  PROVE  alive' = Processes /\ ~crossed'
  <1>1. ASSUME NEW p \in Processes
        PROVE  ~(Killed(p) \/ CutWrite(p) \/ StampFails(p) \/ TakeOver(p))
    BY DEF Killed, CutWrite, StampFails, Fault, TakeOver, At, Base, FileTypeOK
  <1> QED
    BY <1>1 DEF FileNext, Step, Begin, Create, Occupied, Busy, Abandoned, Stamp, Read, Refuse,
       Write, Remember, Unlock, fileVars, history

\* Of two processes one is dead when the other finds its lock abandoned, and nobody is left
\* to replace that lock.
LEMMA TwoStep ==
  ASSUME \A p, q, r \in Processes : p = q \/ q = r \/ p = r,
         Base, ~crossed, \A p \in Processes : pc[p] = "takeover" => lock = found[p],
         [FileNext]_fileVars
  PROVE  ~crossed' /\ (\A p \in Processes : pc'[p] = "takeover" => lock' = found'[p])
  <1>1. FileTypeOK
    BY DEF Base
  <1>2. CASE UNCHANGED fileVars
    BY <1>2 DEF fileVars, path, locals, history
  <1>3. ASSUME NEW p \in Processes,
               Begin(p) \/ Step(p) \/ Killed(p) \/ CutWrite(p) \/ StampFails(p)
        PROVE  ~crossed' /\ (\A q \in Processes : pc'[q] = "takeover" => lock' = found'[q])
    <2>1. p \in alive
      BY <1>3, MoverRuns
    <2>2. ASSUME NEW q \in Processes, q # p
          PROVE  pc'[q] # "takeover"
      <3>1. pc'[q] = pc[q]
        BY <1>1, <1>3, <2>2, OthersStay
      <3>2. CASE pc[q] = "takeover"
        <4>1. q \in alive /\ found[q] \in Processes \ alive
          BY <3>2 DEF Base
        <4> QED
          BY <2>1, <2>2, <4>1
      <3> QED
        BY <3>1, <3>2
    <2>3. pc'[p] = "takeover" => lock' = found'[p]
      BY <1>1, <1>3 DEF Step, Begin, Create, Occupied, Busy, Abandoned, TakeOver, Stamp,
         Read, Refuse, Write, Remember, Unlock, Killed, CutWrite, StampFails, Die, Goto, FileTypeOK,
         path
    <2>4. ~crossed'
      BY <1>3 DEF Step, Begin, Create, Occupied, Busy, Abandoned, TakeOver, At, Stamp, Read, Refuse,
         Write, Remember, Unlock, Killed, CutWrite, StampFails, history
    <2> QED
      BY <2>2, <2>3, <2>4
  <1> QED
    BY <1>2, <1>3 DEF FileNext

\* Without failures, or of two processes, such as the local API and one worker, neither of
\* which is started anew under another pid: there the lock, the appends and the damaged file
\* are safe without exception.
THEOREM NobodyCrosses ==
  ASSUME MaxFailures = 0 \/ \A p, q, r \in Processes : p = q \/ q = r \/ p = r
  PROVE  FileSpec => []~crossed
  <1>0. FileInit => ~crossed /\ alive = Processes
        /\ (\A p \in Processes : pc[p] = "takeover" => lock = found[p])
    BY DEF FileInit
  <1>1. FileInit => Base
    BY LockInit DEF LockInv
  <1>2. CASE MaxFailures = 0
    <2>1. Base /\ alive = Processes /\ ~crossed /\ [FileNext]_fileVars
            => (Base /\ alive = Processes /\ ~crossed)'
      BY <1>2, BaseStep, CalmStep
    <2> QED
      BY <1>0, <1>1, <2>1, PTL DEF FileSpec
  <1>3. CASE \A p, q, r \in Processes : p = q \/ q = r \/ p = r
    <2> DEFINE Same == \A p \in Processes : pc[p] = "takeover" => lock = found[p]
    <2>1. Base /\ ~crossed /\ Same /\ [FileNext]_fileVars => (Base /\ ~crossed /\ Same)'
      BY <1>3, BaseStep, TwoStep
    <2>2. FileInit => Same
      BY <1>0
    <2> HIDE DEF Same
    <2> QED
      BY <1>0, <1>1, <2>1, <2>2, PTL DEF FileSpec
  <1> QED
    BY <1>2, <1>3

-------------------------------------------------------------------------------
(* The store of a workspace.                                               *)

Ops == [ name : { "none", "checkpoint", "restore", "release" },
         id : Checkpoints \union {NoCheckpoint}, time : Times, at : Calls ]

\* What the running operation has established so far.
Published ==
  /\ op.name = "checkpoint" =>
       /\ op.id \in Checkpoints \ chain /\ live \in Trees
       /\ op.at \in { "blob", "record", "append" }
       /\ op.at \in { "record", "append" } => blob[live] = "whole"
       /\ op.at = "append" => Stored(op.id) /\ record[op.id] = NewRecord
  /\ op.name = "restore" => op.id \in chain
  /\ op.name = "none" => op.at = "idle"

IInv == TypeOK /\ RecordedCheckpointsAreStored /\ Published

\* Stored checkpoints stay stored.
Kept == \A id \in Checkpoints : Stored(id) => Stored(id)'

-------------------------------------------------------------------------------
\* Outside of a publication an operation carries just some timestamp.
LEMMA IdleOps == Idle \in Ops /\ SomeTime \in Times
  BY StoreAssumption DEF Idle, SomeTime, Ops, Calls

\* A checkpoint that is whole stays so while its record stays and whole blobs stay whole.
LEMMA StoredStays ==
  ASSUME TypeOK, record' = record,
         \A t \in Trees : blob[t] = "whole" => blob'[t] = "whole"
  PROVE  Kept
  BY DEF Kept, Stored, Records

\* In particular when neither blobs nor records are written.
LEMMA SameStore == ASSUME TypeOK, UNCHANGED <<blob, record>> PROVE Kept
  BY StoredStays

\* An operation ends and the Ledger stays.
LEMMA Ends ==
  ASSUME IInv, op' = Idle, chain' = chain, Kept, TypeOK'
  PROVE  IInv'
  <1>1. op'.name = "none" /\ op'.at = "idle"
    BY DEF Idle
  <1>2. RecordedCheckpointsAreStored'
    BY DEF IInv, Kept, RecordedCheckpointsAreStored, TypeOK
  <1> QED
    BY <1>1, <1>2 DEF IInv, Published

\* An operation that ends leaves nothing moved away, but perhaps stranded.
LEMMA EndTypes ==
  ASSUME TypeOK, End
  PROVE  op' \in Ops /\ aside' = NoTree /\ stranded' \subseteq Trees
  BY IdleOps DEF TypeOK, End

\* A restore or a release goes on and the Ledger keeps its checkpoints.
LEMMA GoesOn ==
  ASSUME IInv, op.name \notin { "checkpoint", "none" }, op'.name = op.name, op'.id = op.id,
         chain' = chain, UNCHANGED <<blob, record>>, TypeOK'
  PROVE  IInv'
  <1>1. RecordedCheckpointsAreStored'
    BY DEF IInv, RecordedCheckpointsAreStored, Stored
  <1> QED
    BY <1>1 DEF IInv, Published

\* An operation that goes on is still the same operation.
LEMMA ThenTypes ==
  ASSUME TypeOK, NEW at \in Calls, Then(at)
  PROVE  /\ op' \in Ops /\ op'.name = op.name /\ op'.id = op.id /\ op'.at = at
         /\ op'.time = op.time
  BY DEF TypeOK, Then, Ops

-------------------------------------------------------------------------------
\* A provisioned workspace without checkpoints satisfies the invariant.
LEMMA InitIsFine == ASSUME Init PROVE IInv
  <1>1. op = Idle /\ chain = {}
    BY DEF Init
  <1>2. 0 \in 0 .. MaxFaults /\ 0 \in 0 .. MaxEdits /\ FirstContent \in Trees
    BY StoreAssumption DEF Trees
  <1>3. Idle \in Ops
    BY IdleOps
  <1>4. blob \in [Trees -> { "none", "torn", "whole" }]
    BY DEF Init
  <1>5. record \in [Checkpoints -> Records \union {NoRecord, TornRecord}]
    BY DEF Init
  <1>6. TypeOK
    BY <1>1, <1>2, <1>3, <1>4, <1>5 DEF Init, TypeOK, Ops
  <1> QED
    BY <1>1, <1>6 DEF IInv, RecordedCheckpointsAreStored, Published, Idle

\* What is written, or already there, is the record of this request.
LEMMA WritesItsRecord ==
  ASSUME TypeOK, WriteRecord, op.id \in Checkpoints
  PROVE  record' = [ record EXCEPT ![op.id] = NewRecord ]
  <1>1. CASE record[op.id] = NoRecord
    BY <1>1 DEF WriteRecord
  <1>2. CASE record[op.id] = NewRecord
    BY <1>2 DEF WriteRecord, TypeOK
  <1> QED
    BY <1>1, <1>2 DEF WriteRecord, MayRecord

\* The calls of a publication keep the invariant.
LEMMA CheckpointCalls ==
  ASSUME IInv,
         \/ \E id \in Checkpoints : BeginCheckpoint(id)
         \/ WriteBlob \/ WriteRecord \/ RefuseCheckpoint \/ AppendCheckpoint
  PROVE  IInv'
  <1> USE DEF IInv
  <1>1. ASSUME NEW id \in Checkpoints, BeginCheckpoint(id) PROVE IInv'
    <2>1. op' \in Ops /\ op'.name = "checkpoint" /\ op'.id = id /\ op'.at = "blob"
      BY <1>1 DEF BeginCheckpoint, StartAt, Ops, Calls
    <2>2. live \in Trees
      BY <1>1 DEF BeginCheckpoint, HasRoot, TypeOK
    <2>3. TypeOK'
      BY <1>1, <2>1 DEF BeginCheckpoint, TypeOK, Ops, disk, ledger, counts
    <2>4. RecordedCheckpointsAreStored'
      BY <1>1 DEF BeginCheckpoint, RecordedCheckpointsAreStored, Stored, disk, ledger
    <2> QED
      BY <1>1, <2>1, <2>2, <2>3, <2>4 DEF BeginCheckpoint, Published, disk, ledger
  <1>2. CASE WriteBlob
    <2>1. op.name = "checkpoint" /\ live \in Trees /\ op.id \in Checkpoints \ chain
      BY <1>2 DEF WriteBlob, Calling, Published
    <2>2. op' \in Ops /\ op'.name = op.name /\ op'.id = op.id /\ op'.at = "record"
      BY <1>2, ThenTypes DEF WriteBlob, Calls
    <2>3. blob'[live] = "whole" /\ \A t \in Trees : blob[t] = "whole" => blob'[t] = "whole"
      BY <1>2, <2>1 DEF WriteBlob, TypeOK
    <2>4. Kept
      BY <1>2, <2>3, StoredStays DEF WriteBlob
    <2>5. TypeOK'
      BY <1>2, <2>2 DEF WriteBlob, TypeOK, Ops, ledger, counts
    <2>6. RecordedCheckpointsAreStored'
      BY <1>2, <2>4 DEF WriteBlob, RecordedCheckpointsAreStored, Kept, TypeOK, ledger
    <2> QED
      BY <1>2, <2>1, <2>2, <2>3, <2>5, <2>6 DEF WriteBlob, Published, ledger
  <1>3. CASE WriteRecord
    <2>1. op.name = "checkpoint" /\ live \in Trees /\ op.id \in Checkpoints \ chain
            /\ blob[live] = "whole"
      BY <1>3 DEF WriteRecord, Calling, Published
    <2>2. op' \in Ops /\ op'.name = op.name /\ op'.id = op.id /\ op'.at = "append"
            /\ op'.time = op.time
      BY <1>3, ThenTypes DEF WriteRecord, Calls
    <2>3. NewRecord \in Records /\ NewRecord.tree = live /\ NewRecord' = NewRecord
      <3>1. op.time \in Times /\ current \in Checkpoints \union {NoCheckpoint}
        BY DEF TypeOK
      <3> QED
        BY <1>3, <2>1, <2>2, <3>1 DEF NewRecord, Records, WriteRecord, ledger
    <2>4. record' = [ record EXCEPT ![op.id] = NewRecord ] /\ blob' = blob /\ chain' = chain
            /\ live' = live
      BY <1>3, <2>1, WritesItsRecord DEF WriteRecord, ledger, TypeOK
    <2>5. TypeOK'
      <3>1. record' \in [Checkpoints -> Records \union {NoRecord, TornRecord}]
        BY <2>3, <2>4 DEF TypeOK
      <3> QED
        BY <1>3, <2>2, <3>1 DEF WriteRecord, TypeOK, Ops, ledger, counts
    <2>6. Stored(op.id)'
      BY <2>1, <2>2, <2>3, <2>4 DEF Stored, TypeOK
    <2>7. RecordedCheckpointsAreStored'
      BY <2>1, <2>4 DEF RecordedCheckpointsAreStored, Stored, TypeOK
    <2>8. record'[op'.id] = NewRecord'
      BY <2>1, <2>2, <2>3, <2>4 DEF TypeOK
    <2> QED
      BY <2>1, <2>2, <2>4, <2>5, <2>6, <2>7, <2>8 DEF Published
  <1>4. CASE RefuseCheckpoint
    <2>1. TypeOK'
      BY <1>4, EndTypes DEF RefuseCheckpoint, TypeOK, Ops, ledger, counts
    <2> QED
      BY <1>4, <2>1, Ends, SameStore DEF RefuseCheckpoint, End, ledger
  <1>5. CASE AppendCheckpoint
    <2>1. Stored(op.id) /\ op.id \in Checkpoints
      BY <1>5 DEF AppendCheckpoint, Calling, Published
    <2>2. chain' = chain \union {op.id} /\ op'.name = "none" /\ op'.at = "idle"
      BY <1>5 DEF AppendCheckpoint, End, Idle
    <2>3. TypeOK'
      BY <1>5, <2>1, EndTypes DEF AppendCheckpoint, TypeOK, Ops, counts
    <2>4. RecordedCheckpointsAreStored'
      BY <1>5, <2>1, <2>2 DEF AppendCheckpoint, RecordedCheckpointsAreStored, Stored
    <2> QED
      BY <2>2, <2>3, <2>4 DEF Published
  <1> QED
    BY <1>1, <1>2, <1>3, <1>4, <1>5

\* The calls of a restore or a release keep it: they write neither blobs nor records.
LEMMA RestoreAndReleaseCalls ==
  ASSUME IInv,
         \/ \E id \in Checkpoints : BeginRestore(id)
         \/ MoveAside \/ Swap \/ PutBack \/ Carry \/ AppendRestore
         \/ BeginRelease \/ Quarantine \/ AppendRelease
         \/ Commit \/ Discard \/ Return
  PROVE  IInv'
  <1> USE DEF IInv
  <1>1. ASSUME NEW id \in Checkpoints, BeginRestore(id) PROVE IInv'
    <2>1. op' \in Ops /\ op'.name = "restore" /\ op'.id = id
      BY <1>1, IdleOps DEF BeginRestore, Start, StartAt, Ops, Calls
    <2>2. TypeOK'
      BY <1>1, <2>1 DEF BeginRestore, TypeOK, Ops, disk, ledger, counts
    <2>3. RecordedCheckpointsAreStored'
      BY <1>1 DEF BeginRestore, RecordedCheckpointsAreStored, Stored, disk, ledger
    <2> QED
      BY <1>1, <2>1, <2>2, <2>3 DEF BeginRestore, Published, ledger
  <1>2. CASE BeginRelease
    <2>1. op' \in Ops /\ op'.name = "release"
      BY <1>2, IdleOps DEF BeginRelease, Start, StartAt, Ops, Calls
    <2>2. TypeOK'
      BY <1>2, <2>1 DEF BeginRelease, TypeOK, Ops, disk, ledger, counts
    <2>3. RecordedCheckpointsAreStored'
      BY <1>2 DEF BeginRelease, RecordedCheckpointsAreStored, Stored, disk, ledger
    <2> QED
      BY <2>1, <2>2, <2>3 DEF Published
  <1>3. CASE MoveAside
    <2>1. op' \in Ops /\ op'.name = op.name /\ op'.id = op.id /\ op.name \notin { "checkpoint", "none" }
      BY <1>3, ThenTypes DEF MoveAside, Calling, Calls
    <2>2. TypeOK'
      BY <1>3, <2>1 DEF MoveAside, TypeOK, Ops, ledger, counts
    <2> QED
      BY <1>3, <2>1, <2>2, GoesOn DEF MoveAside, ledger
  <1>4. CASE Swap
    <2>1. op' \in Ops /\ op'.name = op.name /\ op'.id = op.id /\ op.name \notin { "checkpoint", "none" }
      BY <1>4, ThenTypes DEF Swap, Calling, Calls
    <2>2. live' \in Trees
      BY <1>4 DEF Swap, Calling, Published, RecordedCheckpointsAreStored, Stored, Records
    <2>3. TypeOK'
      BY <1>4, <2>1, <2>2 DEF Swap, TypeOK, Ops, ledger, counts
    <2> QED
      BY <1>4, <2>1, <2>3, GoesOn DEF Swap, ledger
  <1>5. CASE PutBack
    <2>1. TypeOK'
      BY <1>5, IdleOps DEF PutBack, TypeOK, Ops, ledger, counts
    <2> QED
      BY <1>5, <2>1, Ends, SameStore DEF PutBack, ledger
  <1>6. CASE Carry
    <2>1. op' \in Ops /\ op'.name = op.name /\ op'.id = op.id /\ op.name \notin { "checkpoint", "none" }
      BY <1>6, ThenTypes DEF Carry, Calling, Calls
    <2>2. TypeOK'
      BY <1>6, <2>1 DEF Carry, TypeOK, Ops, disk, ledger, counts
    <2> QED
      BY <1>6, <2>1, <2>2, GoesOn DEF Carry, disk, ledger
  <1>7. CASE AppendRestore
    <2>1. op' \in Ops /\ op'.name = op.name /\ op'.id = op.id /\ op.name \notin { "checkpoint", "none" }
      BY <1>7, ThenTypes DEF AppendRestore, Calling, Calls
    <2>2. TypeOK'
      BY <1>7, <2>1 DEF AppendRestore, TypeOK, Ops, disk, counts
    <2> QED
      BY <1>7, <2>1, <2>2, GoesOn DEF AppendRestore, disk
  <1>8. CASE Quarantine
    <2>1. op' \in Ops /\ op'.name = op.name /\ op'.id = op.id /\ op.name \notin { "checkpoint", "none" }
      BY <1>8, ThenTypes DEF Quarantine, Calling, Calls
    <2>2. TypeOK'
      BY <1>8, <2>1 DEF Quarantine, TypeOK, Ops, ledger, counts
    <2> QED
      BY <1>8, <2>1, <2>2, GoesOn DEF Quarantine, ledger
  <1>9. CASE AppendRelease
    <2>1. op' \in Ops /\ op'.name = op.name /\ op'.id = op.id /\ op.name \notin { "checkpoint", "none" }
      BY <1>9, ThenTypes DEF AppendRelease, Calling, Calls
    <2>2. TypeOK'
      BY <1>9, <2>1 DEF AppendRelease, TypeOK, Ops, disk, counts
    <2> QED
      BY <1>9, <2>1, <2>2, GoesOn DEF AppendRelease, disk
  <1>10. CASE Commit
    <2>1. TypeOK'
      BY <1>10, IdleOps DEF Commit, TypeOK, Ops, ledger, counts
    <2> QED
      BY <1>10, <2>1, Ends, SameStore DEF Commit, ledger
  <1>11. CASE Discard
    <2>1. op' \in Ops /\ op'.name = op.name /\ op'.id = op.id /\ op'.at = "return"
      BY <1>11, ThenTypes DEF Discard, Calls
    <2>2. TypeOK'
      BY <1>11, <2>1 DEF Discard, TypeOK, Ops, ledger, counts
    <2>3. op.name \notin { "checkpoint", "none" }
      BY <1>11 DEF Discard, Published
    <2> QED
      BY <1>11, <2>1, <2>2, <2>3, GoesOn DEF Discard, ledger
  <1>12. CASE Return
    <2>1. TypeOK'
      BY <1>12, IdleOps DEF Return, TypeOK, Ops, ledger, counts
    <2> QED
      BY <1>12, <2>1, Ends, SameStore DEF Return, ledger
  <1> QED
    BY <1>1, <1>2, <1>3, <1>4, <1>5, <1>6, <1>7, <1>8, <1>9, <1>10, <1>11, <1>12

\* Steps between operations.
LEMMA OtherSteps ==
  ASSUME IInv, MissionEnds \/ \E t \in Contents : Edit(t)
  PROVE  IInv'
  <1> USE DEF IInv
  <1>1. ASSUME NEW t \in Contents, Edit(t) PROVE IInv'
    <2>1. t \in Trees /\ op'.name = "none" /\ op'.at = "idle" /\ op' = op
      BY <1>1 DEF Edit, Trees, Idle
    <2>2. edits' \in 0 .. MaxEdits
      BY <1>1, StoreAssumption DEF Edit, TypeOK
    <2>3. TypeOK'
      BY <1>1, <2>1, <2>2 DEF Edit, TypeOK, ledger
    <2>4. RecordedCheckpointsAreStored'
      BY <1>1 DEF Edit, RecordedCheckpointsAreStored, Stored, ledger
    <2> QED
      BY <2>1, <2>3, <2>4 DEF Published
  <1>2. CASE MissionEnds
    <2>1. TypeOK'
      BY <1>2 DEF MissionEnds, TypeOK, disk, counts
    <2>2. op'.name = "none" /\ op'.at = "idle"
      BY <1>2 DEF MissionEnds, Idle
    <2>3. RecordedCheckpointsAreStored'
      BY <1>2 DEF MissionEnds, RecordedCheckpointsAreStored, Stored, disk
    <2> QED
      BY <2>1, <2>2, <2>3 DEF Published
  <1> QED
    BY <1>1, <1>2

\* Faults are counted and their kind is remembered.
LEMMA FaultTypes ==
  ASSUME TypeOK, NEW kind, Fails(kind)
  PROVE  faults' \in 0 .. MaxFaults /\ happened' \subseteq FaultKinds
  BY StoreAssumption DEF TypeOK, Fails

\* A crash, a torn write or a failing call keeps the invariant.
LEMMA Failures ==
  ASSUME IInv, Failure
  PROVE  IInv'
  <1> USE DEF IInv
  <1>0. faults' \in 0 .. MaxFaults /\ happened' \subseteq FaultKinds
    BY FaultTypes DEF Failure, Crash, TornWrite, RenameFails, RemoveFails, AppendFails
  <1>1. CASE Crash
    <2>1. live' \in Trees \union {NoTree}
      BY <1>1 DEF Crash, TypeOK, Trees
    <2>2. TypeOK'
      BY <1>0, <1>1, <2>1, EndTypes DEF Crash, TypeOK, Ops, ledger
    <2> QED
      BY <1>1, <2>2, Ends, SameStore DEF Crash, End, ledger
  <1>2. CASE TornWrite
    <2>1. op' = Idle /\ op' \in Ops /\ aside' = NoTree /\ stranded' \subseteq Trees
      BY <1>2, EndTypes DEF TornWrite, End
    <2>2. CASE /\ Calling("checkpoint", "blob") /\ blob[live] = "none"
               /\ blob' = [ blob EXCEPT ![live] = "torn" ] /\ UNCHANGED record
      <3>1. TypeOK'
        BY <1>0, <1>2, <2>1, <2>2 DEF TornWrite, TypeOK, Ops, ledger
      <3>2. \A t \in Trees : blob[t] = "whole" => blob'[t] = "whole"
        BY <2>2 DEF TypeOK
      <3> QED
        BY <1>2, <2>1, <2>2, <3>1, <3>2, StoredStays, Ends DEF TornWrite, ledger
    <2>3. CASE /\ Calling("checkpoint", "record") /\ record[op.id] = NoRecord
               /\ record' = [ record EXCEPT ![op.id] = TornRecord ] /\ UNCHANGED blob
      <3>1. op.id \in Checkpoints \ chain
        BY <2>3 DEF Calling, Published
      <3>2. record' \in [Checkpoints -> Records \union {NoRecord, TornRecord}]
        BY <2>3 DEF TypeOK
      <3>3. TypeOK'
        BY <1>0, <1>2, <2>1, <2>3, <3>2 DEF TornWrite, TypeOK, Ops, ledger
      <3>4. RecordedCheckpointsAreStored'
        BY <1>2, <2>3, <3>1 DEF TornWrite, RecordedCheckpointsAreStored, Stored, TypeOK, ledger
      <3> QED
        BY <2>1, <3>3, <3>4 DEF Published, Idle
    <2> QED
      BY <1>2, <2>2, <2>3 DEF TornWrite
  <1>3. CASE RenameFails
    <2>1. CASE End
      <3>1. TypeOK'
        BY <1>0, <1>3, <2>1, EndTypes DEF RenameFails, TypeOK, Ops, ledger
      <3> QED
        BY <1>3, <2>1, <3>1, Ends, SameStore DEF RenameFails, End, ledger
    <2>2. CASE op.at = "swap" /\ Then("putBack") /\ UNCHANGED <<aside, stranded>>
      <3>1. op' \in Ops /\ op'.name = op.name /\ op'.id = op.id
        BY <2>2, ThenTypes DEF Calls
      <3>2. op.name \notin { "checkpoint", "none" }
        BY <2>2 DEF Published
      <3>3. TypeOK'
        BY <1>0, <1>3, <2>2, <3>1 DEF RenameFails, TypeOK, Ops, ledger
      <3> QED
        BY <1>3, <3>1, <3>2, <3>3, GoesOn DEF RenameFails, ledger
    <2> QED
      BY <1>3, <2>1, <2>2 DEF RenameFails
  <1>4. CASE RemoveFails
    <2>1. CASE op.at = "commit"
      <3>1. /\ Then(IF op.name = "restore" THEN "discard" ELSE "return")
            /\ aside' \in { aside, Remains } /\ live' = live
            /\ stranded' \in IF op.name = "release" THEN SUBSET stranded ELSE { stranded }
        BY <1>4, <2>1 DEF RemoveFails
      <3>2. op' \in Ops /\ op'.name = op.name /\ op'.id = op.id
        BY <3>1, ThenTypes DEF Calls
      <3>3. op.name \notin { "checkpoint", "none" }
        BY <2>1 DEF Published
      <3>4. TypeOK'
        BY <1>0, <1>4, <3>1, <3>2 DEF RemoveFails, TypeOK, Ops, Trees, ledger
      <3> QED
        BY <1>4, <3>2, <3>3, <3>4, GoesOn DEF RemoveFails, ledger
    <2>2. CASE op.at = "discard"
      <3>1. live' \in { live, Remains } /\ End
        BY <1>4, <2>2 DEF RemoveFails
      <3>2. TypeOK'
        BY <1>0, <1>4, <3>1, EndTypes DEF RemoveFails, TypeOK, Ops, Trees, ledger
      <3> QED
        BY <1>4, <3>1, <3>2, Ends, SameStore DEF RemoveFails, End, ledger
    <2> QED
      BY <1>4, <2>1, <2>2 DEF RemoveFails
  <1>5. CASE AppendFails
    <2>1. CASE op.name = "checkpoint"
      <3>1. End
        BY <1>5, <2>1 DEF AppendFails
      <3>2. TypeOK'
        BY <1>0, <1>5, <3>1, EndTypes DEF AppendFails, TypeOK, Ops, ledger
      <3> QED
        BY <1>5, <3>1, <3>2, Ends, SameStore DEF AppendFails, End, ledger
    <2>2. CASE op.name \in { "restore", "release" }
      <3>1. /\ Then(IF op.name = "restore" THEN "discard" ELSE "return")
            /\ UNCHANGED <<aside, stranded>>
        BY <1>5, <2>2 DEF AppendFails
      <3>2. op' \in Ops /\ op'.name = op.name /\ op'.id = op.id
        BY <3>1, ThenTypes DEF Calls
      <3>3. TypeOK'
        BY <1>0, <1>5, <3>1, <3>2 DEF AppendFails, TypeOK, Ops, ledger
      <3> QED
        BY <1>5, <2>2, <3>2, <3>3, GoesOn DEF AppendFails, ledger
    <2>3. op.name # "none"
      BY <1>5 DEF AppendFails, Published
    <2> QED
      BY <2>1, <2>2, <2>3 DEF TypeOK
  <1> QED
    BY <1>1, <1>2, <1>3, <1>4, <1>5 DEF Failure

-------------------------------------------------------------------------------
\* Every step keeps the invariant.
LEMMA NextIsFine == ASSUME IInv, [Next]_vars PROVE IInv'
  <1>1. CASE \E t \in Contents : Edit(t)
    BY <1>1, OtherSteps
  <1>2. CASE \E id \in Checkpoints : BeginCheckpoint(id) \/ BeginRestore(id)
    BY <1>2, CheckpointCalls, RestoreAndReleaseCalls
  <1>3. CASE MissionEnds
    BY <1>3, OtherSteps
  <1>4. CASE BeginRelease \/ Call
    BY <1>4, CheckpointCalls, RestoreAndReleaseCalls DEF Call
  <1>5. CASE Failure
    BY <1>5, Failures
  <1>6. CASE UNCHANGED vars
    BY <1>6 DEF vars, disk, ledger, counts, IInv, TypeOK, RecordedCheckpointsAreStored,
                Stored, Published, NewRecord
  <1> QED
    BY <1>1, <1>2, <1>3, <1>4, <1>5, <1>6 DEF Next

\* The invariant holds in every behaviour.
THEOREM Invariance == Spec => []IInv
  BY InitIsFine, NextIsFine, PTL DEF Spec

\* Types hold in every reachable state, for any trees, checkpoints and faults
\* (workspace-store.js and workspace-service.js as WorkspaceStore models them).
THEOREM TypeCorrectness == Spec => []TypeOK
  <1>1. IInv => TypeOK
    BY DEF IInv
  <1> QED
    BY <1>1, Invariance, PTL

\* Whatever crashes, is torn or fails, every checkpoint a workspace fact names has
\* a whole record and whole blobs: restore and recovery can always read it.
THEOREM CheckpointsStored == Spec => []RecordedCheckpointsAreStored
  <1>1. IInv => RecordedCheckpointsAreStored
    BY DEF IInv
  <1> QED
    BY <1>1, Invariance, PTL

\* Whatever an interrupted publication left behind, and however the tree, the current
\* checkpoint and the clock have moved on when its identifier is asked for again, a
\* checkpoint fact is only recorded of what is there by then (persistCheckpoint,
\* workspace-store.js:437-454).
THEOREM FactsAreOfWhatIsThere == Spec => FactsTellWhatIsThere
  <1>1. ASSUME IInv, [Next]_vars, chain' # chain
        PROVE  chain' = chain \union {op.id} /\ record[op.id] = NewRecord
    <2>1. AppendCheckpoint
      BY <1>1
         DEF Next, Call, Failure, Edit, BeginCheckpoint, BeginRestore, MissionEnds,
             BeginRelease, WriteBlob, WriteRecord, RefuseCheckpoint, MoveAside, Swap, PutBack,
             Carry, AppendRestore, Quarantine, AppendRelease, Commit, Discard, Return, Crash,
             TornWrite, RenameFails, RemoveFails, AppendFails, vars, disk, ledger
    <2> QED
      BY <1>1, <2>1 DEF AppendCheckpoint, Calling, IInv, Published
  <1>2. IInv /\ [Next]_vars =>
          [ chain' # chain => chain' = chain \union {op.id} /\ record[op.id] = NewRecord ]_vars
    BY <1>1
  <1> QED
    BY <1>2, Invariance, PTL DEF Spec, FactsTellWhatIsThere

-------------------------------------------------------------------------------
(* Where the trees are.                                                    *)

\* Where the running operation has the live tree and the one it moved away.
Placed ==
  /\ op.name \in { "none", "checkpoint" } \/ op.at = "aside" => aside = NoTree
  /\ op.name = "checkpoint" /\ op.at = "append" => record[op.id].tree = live
  /\ op.name = "restore" =>
       /\ op.at \in { "aside", "swap", "putBack", "carry", "append", "commit", "discard",
                      "return" }
       /\ op.at \in { "swap", "putBack", "return" } => live = NoTree
       /\ op.at \in { "carry", "append", "commit", "discard" } => live = record[op.id].tree
       /\ op.at = "commit" => current = op.id
  /\ op.name = "release" =>
       /\ op.at \in { "aside", "append", "commit", "return" }
       /\ op.at # "aside" => live = NoTree
       /\ op.at = "commit" => released

\* The tree t is the one the Ledger tells of.
IsTold(t) ==
  IF released THEN t = NoTree ELSE ~edited => current \in chain /\ t = record[current].tree

\* Without a crash and without a rename or removal that keeps failing, what the Ledger
\* tells of is the live tree, or what was moved away until the fact is recorded.
Told ==
  Only({ "torn", "append" }) =>
    /\ stranded = {} /\ op.at # "putBack"
    /\ op.name \in { "none", "checkpoint" } \/ op.at = "aside" => IsTold(live)
    /\ op.name \in { "restore", "release" } /\ op.at \notin { "aside", "commit" } => IsTold(aside)
    /\ op.name \in { "checkpoint", "restore" } => ~released
    /\ op.name = "restore" /\ op.at = "commit" => ~edited

\* An operation is over.
LEMMA IdleIs == Idle.name = "none" /\ Idle.at = "idle"
  BY DEF Idle

\* What stays when a record or a blob is written.
LEMMA RecordsStay ==
  ASSUME IInv, [Next]_vars, NEW c \in Checkpoints, Stored(c)
  PROVE  Stored(c)' /\ record'[c] = record[c]
  <1>1. TypeOK /\ record[c] \in Records /\ blob[record[c].tree] = "whole"
        /\ record[c].tree \in Trees
    BY DEF IInv, Stored, Records
  <1>2. CASE UNCHANGED <<blob, record>>
    BY <1>1, <1>2 DEF Stored
  <1>3. CASE WriteBlob
    <2>1. record' = record /\ blob'[record[c].tree] = "whole"
      BY <1>1, <1>3 DEF WriteBlob, TypeOK
    <2> QED
      BY <1>1, <2>1 DEF Stored
  <1>4. CASE WriteRecord
    <2>1. op.id \in Checkpoints /\ MayRecord(op.id) /\ blob' = blob
          /\ record' = [ record EXCEPT ![op.id] = NewRecord ]
      <3>1. op.name = "checkpoint"
        BY <1>4 DEF WriteRecord, Calling
      <3>2. op.id \in Checkpoints
        BY <3>1 DEF IInv, Published
      <3> QED
        BY <1>1, <1>4, <3>2, WritesItsRecord DEF WriteRecord
    <2>2. record'[c] = record[c]
      <3>1. record[op.id] = NoRecord => c # op.id
        BY <1>1, StoreAssumption
      <3> QED
        BY <1>1, <2>1, <3>1 DEF TypeOK, MayRecord
    <2> QED
      BY <1>1, <2>1, <2>2 DEF Stored
  <1>5. CASE TornWrite
    <2>1. CASE blob[live] = "none" /\ blob' = [ blob EXCEPT ![live] = "torn" ] /\ UNCHANGED record
      BY <1>1, <2>1 DEF TypeOK, Stored
    <2>2. CASE /\ Calling("checkpoint", "record") /\ record[op.id] = NoRecord
               /\ record' = [ record EXCEPT ![op.id] = TornRecord ] /\ UNCHANGED blob
      <3>1. c # op.id
        BY <1>1, <2>2, StoreAssumption
      <3> QED
        BY <1>1, <2>2, <3>1 DEF TypeOK, Stored
    <2> QED
      BY <1>5, <2>1, <2>2 DEF TornWrite
  <1> QED
    BY <1>2, <1>3, <1>4, <1>5
       DEF Next, Call, Failure, Edit, BeginCheckpoint, BeginRestore, MissionEnds, BeginRelease,
           RefuseCheckpoint, AppendCheckpoint, MoveAside, Swap, PutBack, Carry, AppendRestore,
           Quarantine, AppendRelease, Commit, Discard, Return, Crash, RenameFails, RemoveFails,
           AppendFails, vars, disk, ledger

\* Every step leaves the trees where the operation expects them.
LEMMA PlacedStays ==
  ASSUME IInv, Placed, [Next]_vars
  PROVE  Placed'
  <1>1. TypeOK /\ op \in Ops
    BY DEF IInv, TypeOK, Ops
  <1>2. ASSUME op'.name = "none", op'.at = "idle", aside' = NoTree PROVE Placed'
    BY <1>2 DEF Placed
  <1>3. ASSUME NEW at \in Calls, Then(at)
        PROVE  op'.name = op.name /\ op'.id = op.id /\ op'.at = at
    BY <1>1, <1>3, ThenTypes
  <1>4. CASE \/ RefuseCheckpoint \/ AppendCheckpoint \/ PutBack \/ Commit \/ Return
             \/ Crash \/ TornWrite
    BY <1>2, <1>4, IdleIs
       DEF RefuseCheckpoint, AppendCheckpoint, PutBack, Commit, Return, Crash, TornWrite, End
  <1>5. CASE UNCHANGED vars
    BY <1>5 DEF vars, disk, ledger, counts, Placed
  <1>6. CASE MissionEnds \/ \E t \in Contents : Edit(t)
    <2>1. op = Idle /\ op' = op /\ aside' = aside
      BY <1>6 DEF MissionEnds, Edit, disk
    <2> QED
      BY <1>2, <2>1, IdleIs DEF Placed
  <1>7. ASSUME NEW id \in Checkpoints, BeginCheckpoint(id) \/ BeginRestore(id)
        PROVE  Placed'
    <2>1. op = Idle /\ aside' = aside /\ op'.name \in { "checkpoint", "restore" }
          /\ op'.at \in { "blob", "aside" } /\ (op'.name = "restore" => op'.at = "aside")
      BY <1>7 DEF BeginCheckpoint, BeginRestore, Start, StartAt, disk
    <2> QED
      BY <2>1, IdleIs DEF Placed
  <1>8. CASE BeginRelease
    <2>1. op = Idle /\ aside' = aside /\ op'.name = "release" /\ op'.at = "aside"
      BY <1>8 DEF BeginRelease, Start, StartAt, disk
    <2> QED
      BY <2>1, IdleIs DEF Placed
  <1>9. CASE WriteBlob \/ WriteRecord
    <2>1. op.name = "checkpoint" /\ op.id \in Checkpoints /\ live' = live /\ aside' = aside
      BY <1>9 DEF WriteBlob, WriteRecord, Calling, IInv, Published
    <2>2. op'.name = "checkpoint" /\ op'.id = op.id /\ op'.at \in { "record", "append" }
          /\ (op'.at = "append" => WriteRecord)
      BY <1>3, <1>9, <2>1 DEF WriteBlob, WriteRecord, Calls
    <2>3. WriteRecord => record'[op.id].tree = live
      BY <1>1, <2>1, WritesItsRecord DEF NewRecord, TypeOK
    <2> QED
      BY <2>1, <2>2, <2>3 DEF Placed
  <1>10. CASE MoveAside
    <2>1. op'.name = "restore" /\ op'.at = "swap" /\ live' = NoTree
      BY <1>3, <1>10 DEF MoveAside, Calling, Calls
    <2> QED
      BY <2>1 DEF Placed
  <1>11. CASE Swap
    <2>1. op'.name = "restore" /\ op'.at = "carry" /\ live' = record'[op'.id].tree
      BY <1>3, <1>11 DEF Swap, Calling, Calls
    <2> QED
      BY <2>1 DEF Placed
  <1>12. CASE Carry \/ AppendRestore
    <2>1. op'.name = "restore" /\ op'.at \in { "append", "commit" } /\ op'.id = op.id
          /\ (op'.at = "commit" => current' = op.id)
          /\ op.name = "restore" /\ op.at \in { "carry", "append" } /\ UNCHANGED <<live, record>>
      BY <1>3, <1>12 DEF Carry, AppendRestore, Calling, Calls, disk
    <2> QED
      BY <2>1 DEF Placed
  <1>13. CASE Quarantine \/ AppendRelease
    <2>1. op'.name = "release" /\ op'.at \in { "append", "commit" } /\ live' = NoTree
          /\ (op'.at = "commit" => released')
      BY <1>3, <1>13 DEF Quarantine, AppendRelease, Calling, Calls, disk, Placed
    <2> QED
      BY <2>1 DEF Placed
  <1>14. CASE Discard
    <2>1. op'.name = op.name /\ op'.at = "return" /\ live' = NoTree
          /\ op.name \notin { "none", "checkpoint" }
      BY <1>3, <1>14 DEF Discard, Calls, IInv, Published
    <2> QED
      BY <2>1 DEF Placed
  <1>15. CASE RenameFails
    <2>1. CASE End
      BY <1>2, <2>1, IdleIs DEF End
    <2>2. CASE op.at = "swap" /\ Then("putBack") /\ UNCHANGED <<aside, stranded>>
      <3>1. op'.name = op.name /\ op'.at = "putBack" /\ live' = live
            /\ op.name \notin { "none", "checkpoint" }
        BY <1>3, <1>15, <2>2 DEF RenameFails, Calls, IInv, Published
      <3> QED
        BY <1>1, <2>2, <3>1 DEF Placed, Ops
    <2> QED
      BY <1>15, <2>1, <2>2 DEF RenameFails
  <1>16. CASE RemoveFails
    <2>1. CASE End
      BY <1>2, <2>1, IdleIs DEF End
    <2>2. CASE op.at = "commit" /\ Then(IF op.name = "restore" THEN "discard" ELSE "return")
      <3>1. op'.name = op.name /\ op'.id = op.id /\ UNCHANGED <<live, record>>
            /\ op'.at = (IF op.name = "restore" THEN "discard" ELSE "return")
            /\ op.name \notin { "none", "checkpoint" }
        BY <1>3, <1>16, <2>2 DEF RemoveFails, Calls, IInv, Published
      <3> QED
        BY <1>1, <2>2, <3>1 DEF Placed, Ops
    <2> QED
      BY <1>16, <2>1, <2>2 DEF RemoveFails
  <1>17. CASE AppendFails
    <2>1. CASE op.name = "checkpoint"
      BY <1>2, <1>17, <2>1, IdleIs DEF AppendFails, End
    <2>2. CASE op.name \in { "restore", "release" }
      <3>1. op'.name = op.name /\ op'.id = op.id /\ UNCHANGED <<live, record>>
            /\ op'.at = (IF op.name = "restore" THEN "discard" ELSE "return")
            /\ op.at = "append"
        BY <1>3, <1>17, <2>2 DEF AppendFails, Calls
      <3> QED
        BY <2>2, <3>1 DEF Placed
    <2> QED
      BY <1>1, <1>17, <2>1, <2>2 DEF AppendFails, IInv, Published, Ops
  <1> QED
    BY <1>4, <1>5, <1>6, <1>7, <1>8, <1>9, <1>10, <1>11, <1>12, <1>13, <1>14, <1>15, <1>16, <1>17
       DEF Next, Call, Failure

\* What the Ledger tells of stays told while the Ledger and the work on the tree stay.
LEMMA TellingStays ==
  ASSUME IInv, [Next]_vars, NEW t,
         UNCHANGED <<released, edited, current>>, chain \subseteq chain', IsTold(t)
  PROVE  (IF released' THEN t = NoTree
          ELSE ~edited' => current' \in chain' /\ t = record'[current'].tree)
  <1>1. current \in chain => Stored(current) /\ current \in Checkpoints
    BY DEF IInv, RecordedCheckpointsAreStored, TypeOK
  <1>2. current \in chain => record'[current] = record[current]
    BY <1>1, RecordsStay
  <1> QED
    BY <1>2 DEF IsTold

LEMMA ToldStays ==
  ASSUME IInv, Placed, Told, [Next]_vars
  PROVE  Told'
  <1> SUFFICES ASSUME Only({ "torn", "append" })' PROVE Told'
    BY DEF Told
  <1>1. TypeOK /\ op \in Ops
    BY DEF IInv, TypeOK, Ops
  <1>2. Only({ "torn", "append" }) /\ ~Crash /\ ~RenameFails /\ ~RemoveFails
    <2>1. \A kind \in { "crash", "rename", "remove" } : ~Fails(kind)
      BY DEF Only, Fails
    <2>2. ~Crash /\ ~RenameFails /\ ~RemoveFails
      BY <2>1 DEF Crash, RenameFails, RemoveFails
    <2>3. happened \subseteq happened'
      BY <2>2 DEF Next, Call, Failure, Edit, BeginCheckpoint, BeginRestore, MissionEnds,
             BeginRelease, WriteBlob, WriteRecord, RefuseCheckpoint, AppendCheckpoint,
             MoveAside, Swap, PutBack, Carry, AppendRestore, Quarantine, AppendRelease, Commit,
             Discard, Return, AppendFails, TornWrite, Fails, vars, counts
    <2> QED
      BY <2>2, <2>3 DEF Only
  <1>3. /\ stranded = {} /\ op.at # "putBack"
        /\ op.name \in { "none", "checkpoint" } \/ op.at = "aside" => IsTold(live)
        /\ op.name \in { "restore", "release" } /\ op.at \notin { "aside", "commit" }
             => IsTold(aside)
        /\ op.name \in { "checkpoint", "restore" } => ~released
        /\ op.name = "restore" /\ op.at = "commit" => ~edited
    BY <1>2 DEF Told
  <1>4. ASSUME NEW at \in Calls, Then(at)
        PROVE  op'.name = op.name /\ op'.id = op.id /\ op'.at = at
    BY <1>1, <1>4, ThenTypes
  <1>5. ASSUME op'.name = "none", op'.at = "idle", stranded' = {}, IsTold(live)'
        PROVE  Told'
    BY <1>5 DEF Told
  <1>6. \A t : /\ IsTold(t) /\ UNCHANGED <<released, edited, current>> /\ chain \subseteq chain'
               => (IF released' THEN t = NoTree
                   ELSE ~edited' => current' \in chain' /\ t = record'[current'].tree)
    BY TellingStays
  <1>7. CASE UNCHANGED vars
    BY <1>3, <1>7 DEF vars, disk, ledger, counts, Told, IsTold
  <1>8. CASE MissionEnds
    BY <1>3, <1>8, IdleIs DEF MissionEnds, disk, Told, IsTold
  <1>9. ASSUME NEW t \in Contents, Edit(t) PROVE Told'
    <2>1. live # NoTree /\ op = Idle /\ edited' /\ op' = op /\ stranded' = stranded
          /\ released' = released
      BY <1>9 DEF Edit, HasRoot, ledger
    <2>2. ~released
      BY <1>3, <2>1, IdleIs DEF IsTold
    <2> QED
      BY <1>3, <1>5, <2>1, <2>2, IdleIs DEF IsTold
  <1>10. ASSUME NEW id \in Checkpoints, BeginCheckpoint(id) \/ BeginRestore(id)
         PROVE  Told'
    <2>1. op = Idle /\ live # NoTree /\ UNCHANGED <<disk, ledger, edited>>
          /\ op'.name \in { "checkpoint", "restore" } /\ op'.at \in { "blob", "aside" }
          /\ (op'.name = "restore" => op'.at = "aside")
      BY <1>10 DEF BeginCheckpoint, BeginRestore, Start, StartAt, HasRoot
    <2>2. IsTold(live) /\ ~released
      BY <1>3, <2>1, IdleIs DEF IsTold
    <2> QED
      BY <1>3, <2>1, <2>2 DEF Told, IsTold, disk, ledger
  <1>11. CASE BeginRelease
    <2>1. op = Idle /\ UNCHANGED <<disk, ledger, edited>>
          /\ op'.name = "release" /\ op'.at = "aside"
      BY <1>11 DEF BeginRelease, Start, StartAt
    <2>2. IsTold(live)
      BY <1>3, <2>1, IdleIs
    <2> QED
      BY <1>3, <2>1, <2>2 DEF Told, IsTold, disk, ledger
  <1>12. CASE WriteBlob \/ WriteRecord
    <2>1. op.name = "checkpoint" /\ op'.name = op.name /\ op'.at \in { "record", "append" }
          /\ UNCHANGED <<live, stranded, ledger, edited>>
      BY <1>4, <1>12 DEF WriteBlob, WriteRecord, Calling, Calls
    <2>2. IsTold(live)'
      BY <1>3, <1>6, <2>1 DEF ledger, IsTold
    <2> QED
      BY <1>3, <2>1, <2>2 DEF Told, ledger
  <1>13. CASE RefuseCheckpoint \/ TornWrite
    <2>1. op.name = "checkpoint" /\ End /\ UNCHANGED <<live, ledger, edited>>
      BY <1>13 DEF RefuseCheckpoint, TornWrite, Calling
    <2>2. IsTold(live)'
      BY <1>3, <1>6, <2>1 DEF ledger, IsTold
    <2> QED
      BY <1>3, <1>5, <2>1, <2>2, IdleIs DEF End, Placed
  <1>14. CASE AppendCheckpoint
    <2>1. op.name = "checkpoint" /\ op.at = "append" /\ End /\ released' = released
          /\ chain' = chain \union {op.id} /\ current' = op.id /\ UNCHANGED <<live, record>>
      BY <1>14 DEF AppendCheckpoint, Calling
    <2>2. record[op.id].tree = live /\ aside = NoTree /\ ~released
      BY <1>3, <2>1 DEF Placed
    <2> QED
      BY <1>3, <1>5, <2>1, <2>2, IdleIs DEF End, IsTold
  <1>15. CASE MoveAside \/ Quarantine
    <2>1. op.at = "aside" /\ op'.name = op.name /\ op'.at \in { "swap", "append" }
          /\ op.name \in { "restore", "release" } /\ aside' = live
          /\ UNCHANGED <<stranded, ledger, edited>>
      BY <1>4, <1>15 DEF MoveAside, Quarantine, Calling, Calls
    <2>2. IsTold(aside)'
      BY <1>3, <1>6, <2>1 DEF ledger, IsTold
    <2> QED
      BY <1>3, <2>1, <2>2 DEF Told, ledger
  <1>16. CASE Swap \/ Carry \/ Discard
    <2>1. op.at \in { "swap", "carry", "discard" } /\ op'.name = op.name
          /\ op'.at \in { "carry", "append", "return" } /\ op.name \in { "restore", "release" }
          /\ UNCHANGED <<aside, stranded, ledger, edited>>
      BY <1>1, <1>4, <1>16 DEF Swap, Carry, Discard, Calling, Calls, disk, IInv, Published, Ops
    <2>2. IsTold(aside)'
      BY <1>3, <1>6, <2>1 DEF ledger, IsTold
    <2> QED
      BY <1>3, <2>1, <2>2 DEF Told, ledger
  <1>17. CASE AppendRestore \/ AppendRelease
    <2>1. op.name \in { "restore", "release" } /\ op'.name = op.name /\ op'.at = "commit"
          /\ stranded' = stranded /\ (op.name = "restore" => ~edited' /\ released' = released)
      BY <1>4, <1>17 DEF AppendRestore, AppendRelease, Calling, Calls, disk
    <2> QED
      BY <1>3, <2>1 DEF Told
  <1>18. CASE Commit
    <2>1. op.at = "commit" /\ op' = Idle /\ UNCHANGED <<live, record, ledger, edited>>
          /\ (stranded = {} => stranded' = {})
      BY <1>18 DEF Commit
    <2>2. op.name \in { "restore", "release" }
      BY <1>1, <2>1 DEF IInv, Published, Ops
    <2>3. IsTold(live)
      <3>1. CASE op.name = "release"
        BY <2>1, <3>1 DEF Placed, IsTold
      <3>2. CASE op.name = "restore"
        BY <1>3, <2>1, <3>2 DEF Placed, IsTold, IInv, Published
      <3> QED
        BY <2>2, <3>1, <3>2
    <2> QED
      BY <1>3, <1>5, <2>1, <2>3, IdleIs DEF IsTold, ledger
  <1>19. CASE Return
    <2>1. op.at = "return" /\ op' = Idle /\ live' = aside
          /\ UNCHANGED <<stranded, record, ledger, edited>>
      BY <1>19 DEF Return
    <2>2. IsTold(aside)
      BY <1>1, <1>3, <2>1 DEF IInv, Published, Ops
    <2> QED
      BY <1>3, <1>5, <2>1, <2>2, IdleIs DEF IsTold, ledger
  <1>20. CASE AppendFails
    <2>1. CASE op.name = "checkpoint"
      <3>1. End /\ UNCHANGED <<live, record, ledger, edited>>
        BY <1>20, <2>1 DEF AppendFails
      <3> QED
        BY <1>3, <1>5, <2>1, <3>1, IdleIs DEF End, Placed, IsTold, ledger
    <2>2. CASE op.name \in { "restore", "release" }
      <3>1. op.at = "append" /\ op'.name = op.name /\ op'.at \in { "discard", "return" }
            /\ UNCHANGED <<aside, stranded, record, ledger, edited>>
        BY <1>4, <1>20, <2>2 DEF AppendFails, Calls
      <3> QED
        BY <1>3, <2>2, <3>1 DEF Told, IsTold, ledger
    <2> QED
      BY <1>1, <1>20, <2>1, <2>2 DEF AppendFails, IInv, Published, Ops
  <1>21. ~PutBack
    BY <1>3 DEF PutBack, Calling
  <1> QED
    BY <1>2, <1>7, <1>8, <1>9, <1>10, <1>11, <1>12, <1>13, <1>14, <1>15, <1>16, <1>17, <1>18,
       <1>19, <1>20, <1>21 DEF Next, Call, Failure

\* A tree of which a copy exists has one after every step that is not an edit and does not
\* throw away what a recorded fact lets go.
LEMMA WorkStays ==
  ASSUME IInv, Placed, [Next]_vars, NEW t \in Contents, t \in Copies, t \notin Copies'
  PROVE  \/ edits' # edits
         \/ op.at = "commit" /\ op.name = "release" /\ released
         \/ op.at = "commit" /\ op.name = "restore" /\ current = op.id
  <1>1. TypeOK /\ op \in Ops /\ t # NoTree /\ t # Remains
    BY StoreAssumption DEF IInv, TypeOK, Ops
  <1>2. \A c \in Checkpoints : Stored(c) => record[c].tree # t
    BY RecordsStay DEF Copies
  <1>3. t \in { live, aside } \union stranded
    BY <1>2 DEF Copies
  <1>4. t \notin { live', aside' } \union stranded'
    BY DEF Copies
  <1>5. op.name = "restore" => op.id \in Checkpoints /\ record[op.id].tree # t
    BY <1>2 DEF IInv, Published, RecordedCheckpointsAreStored, TypeOK
  <1>6. ASSUME End, live' = live PROVE FALSE
    BY <1>1, <1>3, <1>4, <1>6 DEF End
  <1>7. ASSUME UNCHANGED <<live, aside, stranded>> PROVE FALSE
    BY <1>3, <1>4, <1>7
  <1>8. op.at = "discard" => t # live /\ op.name = "restore"
    BY <1>1, <1>5 DEF Placed, IInv, Published, Ops
  <1>9. op.at = "return" => t # live
    BY <1>1 DEF Placed, IInv, Published, Ops
  <1>10. op.at = "commit" =>
           \/ op.name = "release" /\ released
           \/ op.name = "restore" /\ current = op.id
    BY <1>1 DEF Placed, IInv, Published, Ops
  <1>11. CASE Commit \/ \E u \in Contents : Edit(u)
    BY <1>1, <1>10, <1>11 DEF Commit, Edit, TypeOK
  <1>12. CASE UNCHANGED vars \/ MissionEnds \/ BeginRelease
             \/ \E id \in Checkpoints : BeginCheckpoint(id) \/ BeginRestore(id)
    BY <1>7, <1>12 DEF vars, disk, MissionEnds, BeginRelease, BeginCheckpoint, BeginRestore
  <1>13. CASE WriteBlob \/ WriteRecord \/ Carry \/ AppendRestore \/ AppendRelease
    BY <1>7, <1>13 DEF WriteBlob, WriteRecord, Carry, AppendRestore, AppendRelease, disk
  <1>14. CASE RefuseCheckpoint \/ AppendCheckpoint \/ TornWrite
    BY <1>6, <1>14 DEF RefuseCheckpoint, AppendCheckpoint, TornWrite
  <1>15. CASE MoveAside \/ Quarantine
    <2>1. aside = NoTree /\ aside' = live /\ stranded' = stranded
      BY <1>15 DEF MoveAside, Quarantine, Calling, Placed
    <2> QED
      BY <1>1, <1>3, <1>4, <2>1
  <1>16. CASE Swap \/ PutBack
    <2>1. live = NoTree /\ aside \in { aside', live' } /\ stranded' = stranded
      BY <1>16 DEF Swap, PutBack, Calling, Placed
    <2> QED
      BY <1>1, <1>3, <1>4, <2>1
  <1>17. CASE Discard \/ Return
    <2>1. t # live /\ aside \in { aside', live' } /\ stranded' = stranded
      BY <1>8, <1>9, <1>17 DEF Discard, Return
    <2> QED
      BY <1>3, <1>4, <2>1
  <1>18. CASE Crash
    <2>1. End /\ (live' = live \/ op.at = "discard")
      BY <1>18 DEF Crash
    <2>2. CASE op.at = "discard"
      BY <1>1, <1>3, <1>4, <1>8, <2>1, <2>2 DEF End
    <2> QED
      BY <1>6, <2>1, <2>2
  <1>19. CASE RenameFails
    BY <1>6, <1>7, <1>19 DEF RenameFails
  <1>20. CASE RemoveFails
    <2>1. CASE op.at = "commit"
      BY <1>10, <2>1
    <2>2. CASE op.at = "discard" /\ End
      BY <1>1, <1>3, <1>4, <1>8, <2>2 DEF End
    <2> QED
      BY <1>20, <2>1, <2>2 DEF RemoveFails
  <1>21. CASE AppendFails
    BY <1>1, <1>6, <1>7, <1>21 DEF AppendFails, IInv, Published, Ops
  <1> QED
    BY <1>11, <1>12, <1>13, <1>14, <1>15, <1>16, <1>17, <1>18, <1>19, <1>20, <1>21
       DEF Next, Call, Failure

\* A workspace that is provisioned has the tree that is told: none yet.
LEMMA FirstIsPlaced == Init => Placed /\ Told
  BY IdleIs DEF Init, Placed, Told, IsTold

\* Between operations the live tree is what the Ledger tells and nothing is left behind, for
\* any number of checkpoints, restores and edits, whatever writes are cut short and facts
\* refused (workspace-service.js: the rollbacks of restoreCheckpoint and releaseWorkspace),
\* as long as no process dies and no rename or removal keeps failing.
THEOREM TheLedgerTellsTheTree == Spec => []TreeMatchesLedger
  <1>1. Told => TreeMatchesLedger
    <2> SUFFICES ASSUME Told, Only({ "torn", "append" })
                 PROVE  LedgerTellsTheTree /\ stranded = {}
      BY DEF TreeMatchesLedger
    <2> QED
      BY IdleIs DEF Told, LedgerTellsTheTree, AtRest, IsTold
  <1>2. IInv /\ Placed /\ [Next]_vars => Placed'
    BY PlacedStays
  <1>3. IInv /\ Placed /\ Told /\ [Next]_vars => Told'
    BY ToldStays
  <1> QED
    BY <1>1, <1>2, <1>3, FirstIsPlaced, Invariance, PTL DEF Spec

\* Work is only thrown away by an edit, or by the commit of a restore or release whose fact
\* is in the Ledger (workspace-service.js: commit and rollback): a crash, a torn write or a
\* failing call at any other step leaves a copy of every tree there was.
THEOREM WorkIsKept == Spec => WorkIsOnlyDiscardedByAFact
  <1>1. IInv /\ Placed /\ [Next]_vars => Placed'
    BY PlacedStays
  <1>2. IInv /\ Placed /\ [Next]_vars =>
          [ \A t \in Contents :
              t \in Copies /\ t \notin Copies' =>
                \/ edits' # edits
                \/ op.at = "commit" /\ op.name = "release" /\ released
                \/ op.at = "commit" /\ op.name = "restore" /\ current = op.id ]_vars
    BY WorkStays
  <1> QED
    BY <1>1, <1>2, FirstIsPlaced, Invariance, PTL DEF Spec, WorkIsOnlyDiscardedByAFact

===============================================================================
