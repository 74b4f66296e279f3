---------------------------- MODULE MCModelGateway ----------------------------
(* Instances of ModelGateway for TLC: two providers, one of them with two     *)
(* models, and one request of each stage.  Either one process makes both, or  *)
(* two workers make the one of the production.                                *)
EXTENDS ModelGateway

CONSTANTS p1, r1, a1, a2, b1, pa, pb

EitherStage == [ r \in Requests |-> IF r = r1 THEN "prototype" ELSE "execution" ]
ServerOrWorkers ==
  { [ p \in Callers |-> IF p = p1 THEN Requests ELSE {} ], [ p \in Callers |-> Requests \ {r1} ] }

Serves    == [ m \in Routes |-> IF m = b1 THEN pb ELSE pa ]
SameFirst == { [ m \in Routes |-> IF m = a1 THEN 0 ELSE IF m = a2 THEN 1 ELSE 2 ] }

===============================================================================
