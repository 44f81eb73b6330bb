--------------------------- MODULE MCAuthSession ---------------------------
(***************************************************************************)
(* Bounded instances of AuthSession: two tabs and two sessions, which are  *)
(* interchangeable; only the run without a liveness property uses that.    *)
(***************************************************************************)
EXTENDS AuthSession, TLC

Symmetry == Permutations(Tabs) \cup Permutations(Sids)
=============================================================================
