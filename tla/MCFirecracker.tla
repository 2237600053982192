--------------------------- MODULE MCFirecracker ---------------------------
(* Instances of Firecracker for TLC. *)
EXTENDS Firecracker, TLC

\* Executions are interchangeable.
Symmetry == Permutations(Executions)
=============================================================================
