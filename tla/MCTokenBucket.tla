----------------------------- MODULE MCTokenBucket -----------------------------
(***************************************************************************)
(* TokenBucket with small words and a coarse clock, given in the           *)
(* configurations.                                                         *)
(***************************************************************************)
EXTENDS TokenBucket
=============================================================================
