------------------------------ MODULE MCDhcpServer ------------------------------
(***************************************************************************)
(* A pool of two addresses, of which an allocation tries the next one, for  *)
(* two clients; any request may be refused.                                *)
(***************************************************************************)
EXTENDS DhcpServer, TLC

CONSTANTS c1, c2

ClientSymmetry == Permutations(Client)
=============================================================================
