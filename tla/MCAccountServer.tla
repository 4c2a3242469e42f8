-------------------------- MODULE MCAccountServer --------------------------
(* Values of AccountServer's constants for TLC. *)
EXTENDS AccountServer, TLC

CONSTANTS bank, trade, asset

MCEmpty == <<>>
Symmetry == Permutations(Requests)
=============================================================================
