---------------------------- MODULE MCMissionLedger ----------------------------
(* Instances of MissionLedger for TLC: clients and checkpoints are model       *)
(* values no operation tells apart, so their permutations are symmetries.      *)
(* A behaviour is about the verdicts and repairs of a mission, in a workspace  *)
(* of few checkpoints, or about the checkpoints of its workspace.              *)
EXTENDS MissionLedger, TLC

CONSTANT MissionCheckpoints   \* bound: checkpoints where verdicts are the matter

VARIABLE scope

Common == { "create", "transition", "createContract", "provision", "checkpoint" }
Scopes ==
  { Common \union { "amend", "verdict", "admit", "finding" },
    Common \union { "restore", "verifyCheckpoint", "release", "delete" } }

Within ==
  /\ \A c \in Clients : request[c] # Idle => request[c].op \in scope
  /\ "verdict" \in scope => Cardinality(workspace.chain) <= MissionCheckpoints
  /\ "verdict" \notin scope => round <= 1

MCInit == Init /\ scope \in Scopes
MCNext ==
  /\ \E c \in Clients : Read(c) \/ Write(c) \/ Drop(c)
  /\ UNCHANGED scope
  /\ Within'

MCSpec == MCInit /\ [][MCNext]_<<vars, scope>>

Symmetry == Permutations(Clients) \union Permutations(Checkpoints)

===============================================================================
