---------------------------- MODULE TenantLifecycle ----------------------------
(***************************************************************************)
(* What the membership and invite services promise, each operation as one  *)
(* move: the life of a membership and of the invite to the same address.   *)
(* TenantMembership implements it as long as requests do not overlap.      *)
(***************************************************************************)
CONSTANTS User, Owner, UserAdminTargets

VARIABLES
    status,   \* status of each user's membership, "NONE" without a row
    offer     \* status of each user's invite, "NONE" without a row

vars == <<status, offer>>

Init ==
    /\ status = [u \in User |-> IF u = Owner THEN "ACTIVE" ELSE "NONE"]
    /\ offer = [u \in User |-> "NONE"]

Move(u, s, o) ==
    /\ status' = [status EXCEPT ![u] = s]
    /\ offer' = [offer EXCEPT ![u] = o]

\* addMember
Admit(u) == status[u] \in {"NONE", "REMOVED"} /\ Move(u, "ACTIVE", offer[u])

\* removeMember, suspendMember
Remove(u) == u # Owner /\ status[u] # "NONE" /\ Move(u, "REMOVED", offer[u])
Suspend(u) ==
    u # Owner /\ status[u] \notin {"NONE", "SUSPENDED"} /\ Move(u, "SUSPENDED", offer[u])

\* restoreMember
Restore(u) == status[u] = "SUSPENDED" /\ Move(u, "ACTIVE", offer[u])

\* createInvite: the membership follows only for an address with an account.
MakeOffer(u) ==
    /\ offer[u] # "PENDING"
    /\ \/ status[u] \in {"NONE", "REMOVED"} /\ Move(u, "INVITED", "PENDING")
       \/ status[u] = "NONE" /\ Move(u, "NONE", "PENDING")

\* cancelInvite, in the two parts the code gives it
Withdraw(u) == offer[u] # "NONE" /\ Move(u, status[u], "CANCELLED")
Vacate(u) == status[u] = "INVITED" /\ offer[u] = "CANCELLED" /\ Move(u, "REMOVED", offer[u])

\* acceptInvite and claimPendingInvites: a member stays what it is, a
\* suspended one included.
Accept(u) ==
    /\ offer[u] = "PENDING"
    /\ IF status[u] \in {"ACTIVE", "SUSPENDED"} THEN Move(u, status[u], "ACCEPTED")
                                                ELSE Move(u, "ACTIVE", "ACCEPTED")

\* rejectInvite
Reject(u) ==
    /\ offer[u] = "PENDING"
    /\ IF status[u] = "INVITED" THEN Move(u, "REMOVED", "REJECTED")
                                ELSE Move(u, status[u], "REJECTED")

\* The users endpoints set a status, whatever it was.
Override(u) ==
    /\ u \in UserAdminTargets
    /\ status[u] # "NONE"
    /\ \E s \in {"ACTIVE", "SUSPENDED", "REMOVED"} : Move(u, s, offer[u])

Next ==
    \E u \in User :
        \/ Admit(u) \/ Remove(u) \/ Suspend(u) \/ Restore(u)
        \/ MakeOffer(u) \/ Withdraw(u) \/ Vacate(u) \/ Accept(u) \/ Reject(u)
        \/ Override(u)

Spec == Init /\ [][Next]_vars

\* An INVITED membership has an open offer, or a cancelled one while the
\* membership has yet to follow.
InvitedHasOffer == \A u \in User : status[u] = "INVITED" => offer[u] \in {"PENDING", "CANCELLED"}
=============================================================================
