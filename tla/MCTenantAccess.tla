---------------------------- MODULE MCTenantAccess ----------------------------
(***************************************************************************)
(* TenantAccess for TLC, in two slices: a member's role changes and the    *)
(* member is never refused, or a user of one role is refused and let in    *)
(* again.  Copies are told apart only by whether they mislead, so what a   *)
(* change from one role to the other does to them it does in the first.    *)
(***************************************************************************)
EXTENDS TenantAccess

CONSTANT OnlyRole

VARIABLE slice

Inside == IF slice = "roles" THEN Role ELSE {OnlyRole, "NONE"} \cup Refused

MCInit == slice \in {"roles", "refusals"} /\ Init /\ seat \in Inside

MCNext == Next /\ UNCHANGED slice /\ seat' \in Inside

MCSpec == MCInit /\ [][MCNext]_<<slice, vars>> /\ Fairness
===============================================================================
