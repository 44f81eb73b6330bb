-------------------------- MODULE MCDrawingHistory --------------------------
(***************************************************************************)
(* Bounded instances of DrawingHistory: two tabs share the store, which    *)
(* keeps one drawing, so that a second one pushes the first out.           *)
(***************************************************************************)
EXTENDS DrawingHistory
=============================================================================
