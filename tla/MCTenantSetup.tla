---------------------------- MODULE MCTenantSetup ----------------------------
(***************************************************************************)
(* A smaller instance of TenantSetup for TLC: what becomes of the          *)
(* memberships that clients were told of.                                  *)
(***************************************************************************)
EXTENDS TenantSetup, TLC

ClientSymmetry == Permutations(Clients)
=============================================================================
