---------------------------- MODULE MCKeyCreation ----------------------------
(***************************************************************************)
(* A bounded instance of KeyCreation.                                      *)
(***************************************************************************)
EXTENDS KeyCreation
=============================================================================
