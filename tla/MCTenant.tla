------------------------------ MODULE MCTenant ------------------------------
(***************************************************************************)
(* Instances of Tenant for TLC.                                            *)
(***************************************************************************)
EXTENDS Tenant, TLC

ClientSymmetry == Permutations(Clients)

AllTiers == Tier
=============================================================================
