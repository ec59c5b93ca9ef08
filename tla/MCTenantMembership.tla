-------------------------- MODULE MCTenantMembership --------------------------
(* Instances of TenantMembership for TLC.  TLC explores the request slots up  *)
(* to exchange.                                                               *)
EXTENDS TenantMembership, TLC

Slots == Permutations(Request)
=============================================================================
