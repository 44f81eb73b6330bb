---------------------------- MODULE MCSystemTask ----------------------------
(***************************************************************************)
(* Bounded instances of SystemTask: two interchangeable runners, either of *)
(* which may crash.  The liveness run declares no symmetry.                *)
(***************************************************************************)
EXTENDS SystemTask, TLC

Symmetry == Permutations(Runners)
=============================================================================
