---------------------------- MODULE MCJobRunner ----------------------------
(***************************************************************************)
(* Instances of JobRunner for TLC: symmetry of clients and tokens.         *)
(***************************************************************************)
EXTENDS JobRunner, TLC

Symmetry == Permutations(Clients) \cup Permutations(Tokens)
=============================================================================
