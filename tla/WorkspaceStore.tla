---------------------------- MODULE WorkspaceStore ----------------------------
(***************************************************************************)
(* The live tree, the checkpoints and the Ledger facts of one workspace    *)
(* (src/truth-plane/workspace-store.js under the operations of             *)
(* src/capability-plane/workspace-service.js), at the grain of the file    *)
(* system calls: each call is a step, a process may die between any two    *)
(* of them, and a rename or a removal may fail although it is retried.     *)
(*                                                                         *)
(* A tree is its content, a model value.  All blobs of a tree are one blob:*)
(* it is whole when every one of them is.  A caller that repeats createCheck-*)
(* point for an identifier repeats its reason, and perhaps its timestamp:  *)
(* the work unit does where it has recorded it, and reads the clock again  *)
(* where it has not (execution-engine.js:457).                             *)
(***************************************************************************)
EXTENDS Naturals

CONSTANTS Contents,       \* what a tree may hold
          Remains,        \* a tree some of whose files are gone
          NoTree,         \* no directory
          NoRecord, TornRecord,
          Checkpoints,    \* checkpoint identifiers
          NoCheckpoint,
          Times,          \* timestamps of requests
          FirstContent,   \* what is provisioned
          Faults,         \* kinds of faults that happen
          MaxFaults,      \* bound: how many
          MaxEdits        \* bound: edits of the live tree

\* Trees on disk, and what a checkpoint's record holds.
Trees   == Contents \union {Remains}
Records == [ tree : Trees, parent : Checkpoints \union {NoCheckpoint}, time : Times ]

FaultKinds == { "crash", "torn", "rename", "remove", "append" }

ASSUME StoreAssumption ==
  /\ Remains \notin Contents /\ NoTree \notin Contents \union {Remains}
  /\ NoRecord # TornRecord /\ { NoRecord, TornRecord } \intersect Records = {}
  /\ NoCheckpoint \notin Checkpoints
  /\ FirstContent \in Contents
  /\ Times # {}
  /\ Faults \subseteq FaultKinds /\ MaxFaults \in Nat /\ MaxEdits \in Nat

VARIABLES
  live,      \* the tree at live/<workspaceId>/root
  aside,     \* the tree the running operation moved away, or NoTree
  stranded,  \* trees left where nothing names them any more
  blob,      \* blob[t]: "none", "torn" or "whole"
  record,    \* record[id]: NoRecord, TornRecord, or a tree, a parent and a time
  chain,     \* the checkpoints of the Ledger's workspace facts
  current,   \* currentCheckpointId
  terminal,  \* the mission is in a terminal state
  released,  \* WORKSPACE_RELEASED is recorded
  op,        \* the operation that runs: its name, checkpoint, timestamp and next call
  edited,    \* history: the tree was edited since the last fact
  faults,    \* faults so far
  happened,  \* history: their kinds
  edits      \* edits so far

disk   == <<live, aside, stranded, blob, record>>
ledger == <<chain, current, terminal, released>>
counts == <<faults, happened, edits>>
vars   == <<disk, ledger, op, edited, counts>>

-------------------------------------------------------------------------------
Calls == { "idle", "blob", "record", "aside", "swap", "putBack", "carry", "append",
           "commit", "discard", "return" }
SomeTime == CHOOSE time \in Times : TRUE
Idle  == [ name |-> "none", id |-> NoCheckpoint, time |-> SomeTime, at |-> "idle" ]

TypeOK ==
  /\ live \in Trees \union {NoTree} /\ aside \in Trees \union {NoTree}
  /\ stranded \subseteq Trees
  /\ blob \in [Trees -> { "none", "torn", "whole" }]
  /\ record \in [Checkpoints -> Records \union {NoRecord, TornRecord}]
  /\ chain \subseteq Checkpoints
  /\ current \in Checkpoints \union {NoCheckpoint}
  /\ terminal \in BOOLEAN /\ released \in BOOLEAN
  /\ op \in [ name : { "none", "checkpoint", "restore", "release" },
              id : Checkpoints \union {NoCheckpoint}, time : Times, at : Calls ]
  /\ edited \in BOOLEAN
  /\ faults \in 0 .. MaxFaults /\ happened \subseteq FaultKinds
  /\ edits \in 0 .. MaxEdits

\* A provisioned root without its baseline checkpoint: provisionWorkspace goes on
\* to publish the baseline as createCheckpoint does any other.
Init ==
  /\ live = FirstContent /\ aside = NoTree /\ stranded = {}
  /\ blob = [ t \in Trees |-> "none" ]
  /\ record = [ id \in Checkpoints |-> NoRecord ]
  /\ chain = {} /\ current = NoCheckpoint /\ terminal = FALSE /\ released = FALSE
  /\ op = Idle /\ edited = TRUE
  /\ faults = 0 /\ happened = {} /\ edits = 0

-------------------------------------------------------------------------------
StartAt(name, id, time, at) ==
  op = Idle /\ op' = [ name |-> name, id |-> id, time |-> time, at |-> at ]
Start(name, id, at) == StartAt(name, id, SomeTime, at)
Calling(name, at)   == op.name = name /\ op.at = at
Then(at)            == op' = [ op EXCEPT !.at = at ]

\* The operation returns or throws; what it moved away stays behind.
End ==
  /\ op' = Idle
  /\ aside' = NoTree
  /\ stranded' = stranded \union (IF aside = NoTree THEN {} ELSE {aside})

Fails(kind) ==
  /\ kind \in Faults /\ faults < MaxFaults
  /\ faults' = faults + 1 /\ happened' = happened \union {kind}

\* assertWorkspaceRoot.
HasRoot == live # NoTree

\* getCheckpoint accepts it.
Stored(id) == record[id] \in Records /\ blob[record[id].tree] = "whole"

\* The execution authority edits the tree.
Edit(t) ==
  /\ op = Idle /\ chain # {} /\ ~terminal /\ HasRoot
  /\ edits < MaxEdits /\ edits' = edits + 1
  /\ t # live /\ live' = t /\ edited' = TRUE
  /\ UNCHANGED <<aside, stranded, blob, record, ledger, op, faults, happened>>

\* The mission reaches a terminal state.
MissionEnds ==
  /\ op = Idle /\ ~terminal /\ terminal' = TRUE
  /\ UNCHANGED <<disk, chain, current, released, op, edited, counts>>

-------------------------------------------------------------------------------
(* createCheckpoint: blobs, then the record, then the fact.                *)

BeginCheckpoint(id) ==
  /\ ~terminal /\ id \notin chain /\ HasRoot
  /\ \E time \in Times : StartAt("checkpoint", id, time, "blob")
  /\ UNCHANGED <<disk, ledger, edited, counts>>

\* Mutant: a corrupt blob counts as stored.
SkipExistingBlob ==
  /\ Calling("checkpoint", "blob")
  /\ blob' = [ blob EXCEPT ![live] = IF @ = "torn" THEN @ ELSE "whole" ]
  /\ Then("record")
  /\ UNCHANGED <<live, aside, stranded, record, ledger, edited, counts>>

\* persistBlob: an existing blob must be intact.
WriteBlob ==
  /\ Calling("checkpoint", "blob") /\ blob[live] # "torn"
  /\ blob' = [ blob EXCEPT ![live] = "whole" ]
  /\ Then("record")
  /\ UNCHANGED <<live, aside, stranded, record, ledger, edited, counts>>

\* persistCheckpoint: an existing record must be intact and the very same.
NewRecord == [ tree |-> live, parent |-> current, time |-> op.time ]

\* Mutant: a record that is there is taken for that of this request.
AnyStored(id) == record[id] = NoRecord \/ Stored(id)

MayRecord(id) == record[id] = NoRecord \/ (Stored(id) /\ record[id] = NewRecord)

WriteRecord ==
  /\ Calling("checkpoint", "record") /\ MayRecord(op.id)
  /\ record' = [ record EXCEPT ![op.id] = IF @ = NoRecord THEN NewRecord ELSE @ ]
  /\ Then("append")
  /\ UNCHANGED <<live, aside, stranded, blob, ledger, edited, counts>>

\* CheckpointIntegrityError, DuplicateCheckpointError.
RefuseCheckpoint ==
  /\ \/ Calling("checkpoint", "blob") /\ blob[live] = "torn"
     \/ Calling("checkpoint", "record") /\ ~MayRecord(op.id)
  /\ End
  /\ UNCHANGED <<live, blob, record, ledger, edited, counts>>

AppendCheckpoint ==
  /\ Calling("checkpoint", "append")
  /\ chain' = chain \union {op.id} /\ current' = op.id /\ edited' = FALSE
  /\ End
  /\ UNCHANGED <<live, blob, record, terminal, released, counts>>

-------------------------------------------------------------------------------
(* restoreCheckpoint: move the live tree aside, swap in the checkpoint,    *)
(* carry transient directories over, append the fact, drop what is aside.  *)

BeginRestore(id) ==
  /\ ~terminal /\ id \in chain /\ Stored(id) /\ HasRoot
  /\ Start("restore", id, "aside")
  /\ UNCHANGED <<disk, ledger, edited, counts>>

MoveAside ==
  /\ Calling("restore", "aside")
  /\ aside' = live /\ live' = NoTree
  /\ Then("swap")
  /\ UNCHANGED <<stranded, blob, record, ledger, edited, counts>>

Swap ==
  /\ Calling("restore", "swap")
  /\ live' = record[op.id].tree
  /\ Then("carry")
  /\ UNCHANGED <<aside, stranded, blob, record, ledger, edited, counts>>

\* The catch clause of the swap.
PutBack ==
  /\ Calling("restore", "putBack")
  /\ live' = aside /\ aside' = NoTree
  /\ op' = Idle
  /\ UNCHANGED <<stranded, blob, record, ledger, edited, counts>>

\* Mutant: the backup goes before the fact is recorded.
CarryAndCommit ==
  /\ Calling("restore", "carry") /\ aside' = NoTree /\ Then("append")
  /\ UNCHANGED <<live, stranded, blob, record, ledger, edited, counts>>

Carry ==
  /\ Calling("restore", "carry") /\ Then("append")
  /\ UNCHANGED <<disk, ledger, edited, counts>>

AppendRestore ==
  /\ Calling("restore", "append")
  /\ current' = op.id /\ edited' = FALSE
  /\ Then("commit")
  /\ UNCHANGED <<disk, chain, terminal, released, counts>>

-------------------------------------------------------------------------------
(* releaseWorkspace: quarantine the area, which holds what restores left   *)
(* behind too, append the fact, remove it.                                 *)

BeginRelease ==
  /\ terminal /\ ~released /\ chain # {} /\ HasRoot
  /\ Start("release", NoCheckpoint, "aside")
  /\ UNCHANGED <<disk, ledger, edited, counts>>

Quarantine ==
  /\ Calling("release", "aside")
  /\ aside' = live /\ live' = NoTree
  /\ Then("append")
  /\ UNCHANGED <<stranded, blob, record, ledger, edited, counts>>

AppendRelease ==
  /\ Calling("release", "append")
  /\ released' = TRUE
  /\ Then("commit")
  /\ UNCHANGED <<disk, chain, current, terminal, edited, counts>>

-------------------------------------------------------------------------------
(* Both end with commit, or with rollback when anything after prepare threw.*)

Commit ==
  /\ op.at = "commit"
  /\ aside' = NoTree /\ op' = Idle
  /\ stranded' = IF op.name = "release" THEN {} ELSE stranded
  /\ UNCHANGED <<live, blob, record, ledger, edited, counts>>

\* rollback, first half (restore only): the live tree goes.
Discard ==
  /\ op.at = "discard"
  /\ live' = NoTree
  /\ Then("return")
  /\ UNCHANGED <<aside, stranded, blob, record, ledger, edited, counts>>

\* Mutant: a rollback that does not bring the backup back.
ForgetBackup ==
  /\ op.at = "return" /\ End
  /\ UNCHANGED <<live, blob, record, ledger, edited, counts>>

\* rollback, second half: what was moved away comes back.
Return ==
  /\ op.at = "return"
  /\ live' = aside /\ aside' = NoTree /\ op' = Idle
  /\ UNCHANGED <<stranded, blob, record, ledger, edited, counts>>

-------------------------------------------------------------------------------
(* Faults.                                                                 *)

\* The process dies between two calls, or while it removes the live tree.
Crash ==
  /\ Fails("crash") /\ op # Idle
  /\ End
  /\ IF op.at = "discard" THEN live' \in { live, Remains } ELSE UNCHANGED live
  /\ UNCHANGED <<blob, record, ledger, edited, edits>>

\* The process dies inside the write of a blob or of a checkpoint record.
TornWrite ==
  /\ Fails("torn")
  /\ \/ /\ Calling("checkpoint", "blob") /\ blob[live] = "none"
        /\ blob' = [ blob EXCEPT ![live] = "torn" ] /\ UNCHANGED record
     \/ /\ Calling("checkpoint", "record") /\ record[op.id] = NoRecord
        /\ record' = [ record EXCEPT ![op.id] = TornRecord ] /\ UNCHANGED blob
  /\ End
  /\ UNCHANGED <<live, ledger, edited, edits>>

\* A rename keeps failing.  Between the swap and the fact nothing rolls back.
RenameFails ==
  /\ Fails("rename")
  /\ \/ op.at \in { "aside", "putBack", "carry", "discard", "return" } /\ End
     \/ op.at = "swap" /\ Then("putBack") /\ UNCHANGED <<aside, stranded>>
  /\ UNCHANGED <<live, blob, record, ledger, edited, edits>>

\* A removal keeps failing after it removed a part of the tree.
RemoveFails ==
  /\ Fails("remove")
  /\ \/ /\ op.at = "commit"
        /\ aside' \in { aside, Remains }
        /\ Then(IF op.name = "restore" THEN "discard" ELSE "return")
        /\ stranded' \in IF op.name = "release" THEN SUBSET stranded ELSE { stranded }
        /\ UNCHANGED live
     \/ op.at = "discard" /\ live' \in { live, Remains } /\ End
  /\ UNCHANGED <<blob, record, ledger, edited, edits>>

\* The Ledger refuses the fact: it is busy, or another client was faster.
AppendFails ==
  /\ Fails("append") /\ op.at = "append"
  /\ CASE op.name = "checkpoint" -> End
       [] op.name = "restore"    -> Then("discard") /\ UNCHANGED <<aside, stranded>>
       [] op.name = "release"    -> Then("return") /\ UNCHANGED <<aside, stranded>>
  /\ UNCHANGED <<live, blob, record, ledger, edited, edits>>

-------------------------------------------------------------------------------
Call ==
  \/ WriteBlob \/ WriteRecord \/ RefuseCheckpoint \/ AppendCheckpoint
  \/ MoveAside \/ Swap \/ PutBack \/ Carry \/ AppendRestore
  \/ Quarantine \/ AppendRelease
  \/ Commit \/ Discard \/ Return

Failure == Crash \/ TornWrite \/ RenameFails \/ RemoveFails \/ AppendFails

Next ==
  \/ \E t \in Contents : Edit(t)
  \/ \E id \in Checkpoints : BeginCheckpoint(id) \/ BeginRestore(id)
  \/ MissionEnds \/ BeginRelease
  \/ Call
  \/ Failure

Spec == Init /\ [][Next]_vars

-------------------------------------------------------------------------------
(* Properties.                                                             *)

\* Whatever fails, the Ledger names only checkpoints that are on disk, whole.
RecordedCheckpointsAreStored == \A id \in chain : Stored(id)

\* The trees of which some copy exists.
Copies == { live, aside } \union stranded
          \union { record[id].tree : id \in { c \in Checkpoints : Stored(c) } }

\* Work is only thrown away by an edit, or by the commit of a restore or release
\* whose fact is in the Ledger.  A crash or a failing call before that leaves a
\* copy of it somewhere.
WorkIsOnlyDiscardedByAFact ==
  [][ \A t \in Contents :
        t \in Copies /\ t \notin Copies' =>
          \/ edits' # edits
          \/ op.at = "commit" /\ op.name = "release" /\ released
          \/ op.at = "commit" /\ op.name = "restore" /\ current = op.id ]_vars

AtRest == op = Idle
Only(kinds) == happened \subseteq kinds

\* Between operations the live tree is the current checkpoint's until it is
\* edited; after the release there is none.
LedgerTellsTheTree ==
  AtRest => IF released THEN live = NoTree
            ELSE ~edited => live = record[current].tree

\* So it is, and nothing is left behind, as long as no process dies in between and
\* no rename or removal keeps failing: facts the Ledger refuses are rolled back.
TreeMatchesLedger == Only({ "torn", "append" }) => LedgerTellsTheTree /\ stranded = {}

\* test/milestone-5.test.js:423: "restore reproduces files and deletions": what is
\* recorded as restored is there, though the clean-up after it may fail.
RestoreReproduces == Only({ "torn", "append", "remove" }) => LedgerTellsTheTree

\* Where an interrupted publication left a record and the same checkpoint is asked
\* for again, after the tree was edited, another checkpoint published or restored,
\* or the clock read anew, the fact is only recorded of what is there by then.
FactsTellWhatIsThere ==
  [][ chain' # chain => chain' = chain \union {op.id} /\ record[op.id] = NewRecord ]_vars

===============================================================================
