------------------------------ MODULE MCBlocklist ------------------------------
(***************************************************************************)
(* Blocklist for model checking: its constants are small sets of model     *)
(* values and numbers, given in the configurations.                        *)
(***************************************************************************)
EXTENDS Blocklist
=============================================================================
