---------------------------- MODULE MCCallerAPI ----------------------------
(* Instances of CallerAPI for TLC. *)
EXTENDS CallerAPI, TLC

\* Two jobs created at the time the run begins, with ids on both sides of a new one's.
MCOldJobs == {<<0, 2>>, <<0, 4>>}

\* Callers and the bodies of definitions are interchangeable.
Symmetry == Permutations(Callers) \cup Permutations(Bodies)
=============================================================================
