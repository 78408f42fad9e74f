------------------------- MODULE MCConntrackReconcile -------------------------
(***************************************************************************)
(* The instances of MCConntrack, with the recount of the counters.         *)
(***************************************************************************)
EXTENDS MCConntrack, ConntrackReconcile
=============================================================================
