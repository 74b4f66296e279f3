---------------------------- MODULE MCProduction ----------------------------
(* Instances of Production.  A policy mends one thing: the bundle, the     *)
(* commands, the behaviour or the design, so that repairs do not multiply.   *)
EXTENDS Production

MCPipeline == << "install", "productionBuild" >>

Policy(generation, procedure, browser, design, rounds, restarts) ==
  [generation |-> generation, procedure |-> procedure, browser |-> browser,
   design |-> design, rounds |-> rounds, restarts |-> restarts]

MCPolicies ==
  { Policy(1, 0, 0, 0, 1, 0),   \* the bundle is corrected
    Policy(0, 1, 0, 0, 1, 0),   \* commands are mended
    Policy(0, 0, 1, 0, 2, 1),   \* behaviour is corrected, the runtime restarted
    Policy(0, 0, 0, 1, 3, 0),   \* design is corrected, undone and observed again
    Policy(0, 0, 0, 2, 2, 0) }  \* a correction is replayed by a later worker

BothRepairs == { Policy(0, 0, 1, 1, 3, 1) }
=============================================================================
