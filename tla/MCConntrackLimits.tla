-------------------------- MODULE MCConntrackLimits --------------------------
(***************************************************************************)
(* The instances of MCConntrack, with the recount and the history of the   *)
(* limits.                                                                 *)
(***************************************************************************)
EXTENDS MCConntrack, ConntrackLimits

\* What quiet records is read by no step and no property of this run.
WithoutQuiet == <<ct, connCount, synCount, expect, daemon, recon, connUnsure, synUnsure>>
=============================================================================
