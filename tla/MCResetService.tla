--------------------------- MODULE MCResetService ---------------------------
(***************************************************************************)
(* ResetService for TLC: a Sim, an object and a part of one, two elements. *)
(***************************************************************************)
EXTENDS ResetService
=============================================================================
