------------------------------ MODULE MCToolchain ------------------------------
(* Instances of Toolchain for TLC: missions and workers are model values nobody *)
(* tells apart, so their permutations are symmetries.                           *)
EXTENDS Toolchain, TLC

Symmetry == Permutations(Missions) \union Permutations(Workers)

================================================================================
