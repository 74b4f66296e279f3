---------------------------- MODULE WorkspaceFacts ----------------------------
(***************************************************************************)
(* The workspace of a mission as its Ledger facts determine it             *)
(* (projectWorkspace in src/domain/workspace.js) and the conditions under  *)
(* which the Ledger accepts a further workspace fact (validateFact in      *)
(* src/capability-plane/workspace-service.js).  A workspace value is the   *)
(* projection after some prefix of the Ledger; each Apply operator is the  *)
(* effect of one more fact.                                                *)
(*                                                                         *)
(* Checkpoint ids stand for the immutable checkpoint records of the        *)
(* workspace store, which never change ownership or parent once written.   *)
(***************************************************************************)
EXTENDS MissionLifecycle

CONSTANTS Checkpoints,   \* checkpoint identifiers
          NoCheckpoint   \* null

ASSUME NoCheckpointAssumption == NoCheckpoint \notin Checkpoints

\* The fields of the projection that a later decision reads.
\*   chain     checkpointChain, as a set
\*   parent    parentCheckpointId of the stored checkpoints
\*   current   currentCheckpointId
\*   verified  verifiedCheckpointIds, as a set
\*   floor     verifiedCheckpointIds.at(-1)
\*   released  lifecycleStatus = RELEASED
Workspaces == [ chain    : SUBSET Checkpoints,
                parent   : [Checkpoints -> Checkpoints \union {NoCheckpoint}],
                current  : Checkpoints \union {NoCheckpoint},
                verified : SUBSET Checkpoints,
                floor    : Checkpoints \union {NoCheckpoint},
                released : BOOLEAN ]

\* projectWorkspace of a ledger without workspace facts: null.
NoWorkspace == [ chain    |-> {},
                 parent   |-> [ c \in Checkpoints |-> NoCheckpoint ],
                 current  |-> NoCheckpoint,
                 verified |-> {},
                 floor    |-> NoCheckpoint,
                 released |-> FALSE ]

Exists(w) == w.chain # {}

\* isAtOrAfterVerifiedFloor: walking the parents of target meets floor.  The
\* walk visits exactly the least set that holds target and the parents of its
\* members, so it meets floor when every such set does.
AtOrAfter(w, target, floor) ==
  \A S \in SUBSET w.chain :
    (target \in S /\ \A c \in S : w.parent[c] # NoCheckpoint => w.parent[c] \in S)
      => floor \in S

RespectsFloor(w, id) == w.floor # NoCheckpoint => AtOrAfter(w, id, w.floor)

-------------------------------------------------------------------------------
(* What validateFact and projectWorkspace require of each operation.       *)

MayProvision(w, missionState) ==
  missionState = "PROVISIONING" /\ ~Exists(w)

MayCreateCheckpoint(w, missionState, id, parentId) ==
  /\ Exists(w) /\ ~w.released
  /\ ~IsTerminal(missionState)
  /\ id \notin w.chain
  /\ parentId = w.current

\* The rollback floor is not consulted here: only the service's own earlier
\* check (MissionLedger!RequestRestore) looks at it.
MayRestore(w, missionState, id) ==
  /\ Exists(w) /\ ~w.released
  /\ ~IsTerminal(missionState)
  /\ id \in w.chain

\* Mutant: the floor is only consulted before the lock.
MayVerifyAnywhere(w, missionState, id) ==
  /\ Exists(w) /\ ~w.released
  /\ ~IsTerminal(missionState)
  /\ id \in w.chain \ w.verified

MayVerifyCheckpoint(w, missionState, id) ==
  /\ Exists(w) /\ ~w.released
  /\ ~IsTerminal(missionState)
  /\ id \in w.chain \ w.verified
  /\ RespectsFloor(w, id)

MayRelease(w, missionState, id) ==
  /\ Exists(w) /\ ~w.released
  /\ IsTerminal(missionState)
  /\ id = w.current

-------------------------------------------------------------------------------
(* The effect of each operation on the projection.                         *)

ApplyProvisioned(id) ==
  [ NoWorkspace EXCEPT !.chain = {id}, !.current = id ]

ApplyCheckpointCreated(w, id, parentId) ==
  [ w EXCEPT !.chain = @ \union {id}, !.parent[id] = parentId, !.current = id ]

ApplyRestored(w, id) == [ w EXCEPT !.current = id ]

ApplyVerified(w, id) == [ w EXCEPT !.verified = @ \union {id}, !.floor = id ]

ApplyReleased(w) == [ w EXCEPT !.released = TRUE ]

===============================================================================
