-------------------------------- MODULE Mission --------------------------------
(***************************************************************************)
(* What Foundry promises about one mission, without ledgers, locks or       *)
(* clients: a single state that moves along the legal transitions, and a    *)
(* success that only an accepted verification can produce.                  *)
(***************************************************************************)
EXTENDS MissionLifecycle

VARIABLES phase,     \* the state a customer is shown, "NONE" before creation
          accepted   \* the current contract is verified in this round

mission == <<phase, accepted>>

Init == phase = "NONE" /\ accepted = FALSE

Create ==
  phase = "NONE" /\ phase' = "INTAKE" /\ UNCHANGED accepted

\* An independent verification of the current round.
Judge ==
  /\ phase = "VERIFYING"
  /\ accepted' \in BOOLEAN
  /\ UNCHANGED phase

\* An amended contract has not been verified.
Amend ==
  /\ phase \in ActiveStates
  /\ accepted' = FALSE
  /\ UNCHANGED phase

Move(to) ==
  /\ phase \in ActiveStates
  /\ IsLegalTransition(phase, to)
  /\ to = "SUCCEEDED" => accepted
  /\ to = "REPAIRING" => ~accepted
  /\ phase' = to
  /\ accepted' = (accepted /\ to = "SUCCEEDED")

Next == Create \/ Judge \/ Amend \/ \E to \in MissionStates : Move(to)

Spec == Init /\ [][Next]_mission

===============================================================================
