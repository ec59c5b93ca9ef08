--------------------------- MODULE TenantMembership ---------------------------
(***************************************************************************)
(* The members and the invites of one tenant, and the HTTP requests that   *)
(* change them: src/modules/tenant (membership and invite services) and    *)
(* the endpoints of src/modules/users and src/modules/rbac that write the  *)
(* same rows.                                                              *)
(*                                                                         *)
(* A handler is a sequence of awaited statements, and every other request  *)
(* may run between two of them.  A request that is under way is therefore  *)
(* a record that remembers the last statement it finished and what that    *)
(* statement read; one action is one statement, or one transaction commit. *)
(* A read whose answer can no longer change once the row exists (the row   *)
(* of a tenant, the existence of a membership or of an invite: no handler  *)
(* deletes one) is part of the statement that follows it.                  *)
(***************************************************************************)
EXTENDS Naturals

CONSTANTS
    User,              \* user identities; an invite's email names one of them
    Owner,             \* ownerUserId of the tenant, never written after creation
    Role,              \* the roles a membership can hold
    Request,           \* slots for requests that are under way together
    UserAdminTargets   \* users whose row the users and rbac endpoints write

ASSUME OwnerAssumption == Owner \in User
ASSUME RoleAssumption == "ADMIN" \in Role /\ "NO_ROLE" \notin Role
ASSUME TargetAssumption == UserAdminTargets \subseteq User

VARIABLES
    member,   \* TenantUser rows: status and role, status "NONE" without a row
    invite,   \* TenantInvite rows, one per (tenant, email)
    known,    \* users that have an account
    rq,       \* the requests under way
    granted   \* history: the roles an authorised actor ever named for a user

vars == <<member, invite, known, rq, granted>>

NoRole == "NO_ROLE"
MemberStatus == {"NONE", "INVITED", "ACTIVE", "SUSPENDED", "REMOVED"}
InviteStatus == {"NONE", "PENDING", "ACCEPTED", "REJECTED", "CANCELLED"}

Row == [status : MemberStatus, role : Role \cup {NoRole}]
Invite == [status : InviteStatus, role : Role \cup {NoRole}, live : BOOLEAN]

RoleOps == {"addMember", "updateMemberRole", "createInvite"}
PlainOps == {"removeMember", "suspendMember", "restoreMember",
             "cancelInvite", "resendInvite"}
\* claimPendingInvites runs acceptInvite's transaction for each invite it finds.
SelfOps == {"acceptInvite", "rejectInvite"}
Op == RoleOps \cup PlainOps \cup SelfOps \cup {"none"}

\* "authorized": isTenantAdmin answered yes; "inviteRead", "ready": the checks
\* so far passed; "found": the invite was found; "txRead": the membership was
\* read in the transaction; "marked", "cleanup": cancelInvite past its first
\* write, and past the read that follows it.
Stage == {"idle", "authorized", "inviteRead", "ready", "found", "txRead",
          "marked", "cleanup"}

\* seen: the membership status read, "NO_ACCOUNT" when the email had no user.
RequestState == [op : Op, stage : Stage, user : User, role : Role \cup {NoRole},
                 seen : MemberStatus \cup {"NO_ACCOUNT"}]

Idle == [op |-> "none", stage |-> "idle", user |-> Owner, role |-> NoRole,
         seen |-> "NONE"]

TypeOK ==
    /\ member \in [User -> Row]
    /\ invite \in [User -> Invite]
    /\ known \in SUBSET User
    /\ rq \in [Request -> RequestState]
    /\ granted \in [User -> SUBSET Role]

(***************************************************************************)
(* The tenant as createTenantWithOwner leaves it.                          *)
(***************************************************************************)
Init ==
    /\ member = [u \in User |->
                    IF u = Owner THEN [status |-> "ACTIVE", role |-> "ADMIN"]
                                 ELSE [status |-> "NONE", role |-> NoRole]]
    /\ invite = [u \in User |-> [status |-> "NONE", role |-> NoRole, live |-> FALSE]]
    /\ known \in {k \in SUBSET User : Owner \in k}
    /\ rq = [r \in Request |-> Idle]
    /\ granted = [u \in User |-> IF u = Owner THEN {"ADMIN"} ELSE {}]

-----------------------------------------------------------------------------
(* Requests *)

At(r, op, stage) == rq[r].op = op /\ rq[r].stage = stage
IsIdle(r) == rq[r].op = "none"

Proceed(r, stage, seen) ==
    rq' = [rq EXCEPT ![r] = [@ EXCEPT !.stage = stage, !.seen = seen]]
Done(r) == rq' = [rq EXCEPT ![r] = Idle]

\* membershipRepository.isTenantAdmin
IsTenantAdmin(u) == member[u].status = "ACTIVE" /\ member[u].role = "ADMIN"

SetRow(u, status, role) ==
    member' = [member EXCEPT ![u] = [status |-> status, role |-> role]]
SetStatus(u, status) == SetRow(u, status, member[u].role)
SetInviteStatus(u, status) ==
    invite' = [invite EXCEPT ![u] = [@ EXCEPT !.status = status]]

\* An administrative handler starts: the actor is an active admin at this
\* moment, and may stop being one before the handler writes.
Authorize(r, actor, op, u, role) ==
    /\ IsIdle(r)
    /\ IsTenantAdmin(actor)
    /\ rq' = [rq EXCEPT ![r] = [op |-> op, stage |-> "authorized", user |-> u,
                                role |-> role, seen |-> "NONE"]]
    /\ granted' = [granted EXCEPT ![u] = @ \cup ({role} \ {NoRole})]
    /\ UNCHANGED <<member, invite, known>>

\* A request ends before its last write: a refusal, nothing left to do, a
\* database error or a crash of the process.
Fail(r) ==
    /\ ~IsIdle(r)
    /\ Done(r)
    /\ UNCHANGED <<member, invite, known, granted>>

\* A read that lets its handler go on.
Read(r, op, from, to, seen) ==
    /\ At(r, op, from)
    /\ Proceed(r, to, seen)
    /\ UNCHANGED <<member, invite, known, granted>>

-----------------------------------------------------------------------------
(* tenant-membership.service.js *)

AddMemberRead(r) ==
    /\ member[rq[r].user].status \in {"NONE", "REMOVED"}
    /\ Read(r, "addMember", "authorized", "ready", member[rq[r].user].status)

\* membershipRepository.addMember: the primary key refuses a second row, and the
\* foreign key a user without account.
CreateMember(u, role) ==
    /\ member[u].status = "NONE" /\ u \in known
    /\ SetRow(u, "ACTIVE", role)

\* The row is created when none was seen, and reactivated otherwise.
AddMemberWrite(r) ==
    LET u == rq[r].user IN
    /\ At(r, "addMember", "ready")
    /\ IF rq[r].seen = "NONE" THEN CreateMember(u, rq[r].role)
                              ELSE SetRow(u, "ACTIVE", rq[r].role)
    /\ Done(r)
    /\ UNCHANGED <<invite, known, granted>>

\* Mutant: the owner check is dropped.
NotOwner_Dropped(u) == TRUE

\* updateMemberRole, removeMember and suspendMember refuse the owner.
NotOwner(u) == u # Owner

ManageRead(r, op) ==
    LET u == rq[r].user IN
    /\ member[u].status # "NONE"
    /\ NotOwner(u)
    /\ op = "suspendMember" => member[u].status # "SUSPENDED"
    /\ Read(r, op, "authorized", "ready", member[u].status)

\* restoreMember looks at the status only.
RestoreMemberRead(r) ==
    /\ member[rq[r].user].status = "SUSPENDED"
    /\ Read(r, "restoreMember", "authorized", "ready", "SUSPENDED")

\* None of the writes carries the status that was read.
ManageWrite(r, op, status, role) ==
    /\ At(r, op, "ready")
    /\ SetRow(rq[r].user, status, role)
    /\ Done(r)
    /\ UNCHANGED <<invite, known, granted>>

UpdateMemberRoleWrite(r) ==
    ManageWrite(r, "updateMemberRole", member[rq[r].user].status, rq[r].role)
RemoveMemberWrite(r) ==
    ManageWrite(r, "removeMember", "REMOVED", member[rq[r].user].role)
SuspendMemberWrite(r) ==
    ManageWrite(r, "suspendMember", "SUSPENDED", member[rq[r].user].role)
RestoreMemberWrite(r) ==
    ManageWrite(r, "restoreMember", "ACTIVE", member[rq[r].user].role)

-----------------------------------------------------------------------------
(* tenant-invite.service.js *)

CreateInviteReadInvite(r) ==
    /\ invite[rq[r].user].status # "PENDING"
    /\ Read(r, "createInvite", "authorized", "inviteRead", "NONE")

\* Mutant: the membership of a known user is not looked at.
CreateInviteReadMember_Unchecked(r) ==
    LET u == rq[r].user IN
    Read(r, "createInvite", "inviteRead", "ready",
         IF u \in known THEN member[u].status ELSE "NO_ACCOUNT")

CreateInviteReadMember(r) ==
    LET u == rq[r].user IN
    /\ u \in known => member[u].status \in {"NONE", "REMOVED"}
    /\ Read(r, "createInvite", "inviteRead", "ready",
            IF u \in known THEN member[u].status ELSE "NO_ACCOUNT")

\* One transaction: the invite row is upserted and, for a user that had an
\* account when the handler looked, the membership becomes INVITED whatever
\* its status is by now.
CreateInviteCommit(r) ==
    LET u == rq[r].user IN
    /\ At(r, "createInvite", "ready")
    /\ invite' = [invite EXCEPT ![u] = [status |-> "PENDING", role |-> rq[r].role,
                                        live |-> TRUE]]
    /\ IF rq[r].seen = "NO_ACCOUNT" THEN UNCHANGED member
                                    ELSE SetRow(u, "INVITED", rq[r].role)
    /\ Done(r)
    /\ UNCHANGED <<known, granted>>

\* First write of cancelInvite: it asks for the invite's existence alone.
CancelInviteMark(r) ==
    LET u == rq[r].user IN
    /\ At(r, "cancelInvite", "authorized")
    /\ invite[u].status # "NONE"
    /\ SetInviteStatus(u, "CANCELLED")
    /\ Proceed(r, "marked", "NONE")
    /\ UNCHANGED <<member, known, granted>>

CancelInviteReadMember(r) ==
    LET u == rq[r].user IN
    /\ u \in known /\ member[u].status = "INVITED"
    /\ Read(r, "cancelInvite", "marked", "cleanup", "INVITED")

\* Second write: a statement of its own, without the status that was read.
CancelInviteCleanup(r) ==
    /\ At(r, "cancelInvite", "cleanup")
    /\ SetStatus(rq[r].user, "REMOVED")
    /\ Done(r)
    /\ UNCHANGED <<invite, known, granted>>

ResendInviteRead(r) ==
    /\ invite[rq[r].user].status = "PENDING"
    /\ Read(r, "resendInvite", "authorized", "ready", "NONE")

\* A new token and a new expiry date; the status is neither read nor written.
ResendInviteWrite(r) ==
    /\ At(r, "resendInvite", "ready")
    /\ invite' = [invite EXCEPT ![rq[r].user] = [@ EXCEPT !.live = TRUE]]
    /\ Done(r)
    /\ UNCHANGED <<member, known, granted>>

\* The invitee's request finds a pending, unexpired invite: by the token of
\* the email (acceptInvite, rejectInvite) or, at signup, at login and when
\* tenants are listed, by the user's address (claimPendingInvites).
FindInvite(r, u, op) ==
    /\ IsIdle(r)
    /\ u \in known
    /\ invite[u].status = "PENDING" /\ invite[u].live
    /\ rq' = [rq EXCEPT ![r] = [op |-> op, stage |-> "found", user |-> u,
                                role |-> invite[u].role, seen |-> "NONE"]]
    /\ UNCHANGED <<member, invite, known, granted>>

\* Read Committed: the row read in the transaction is not locked.
TxReadMember(r, op) == Read(r, op, "found", "txRead", member[rq[r].user].status)

\* Mutant: the role of the new member is a constant, not the invite's.
AcceptInviteCommit_FixedRole(r) ==
    LET u == rq[r].user IN
    /\ At(r, "acceptInvite", "txRead")
    /\ IF rq[r].seen \in {"ACTIVE", "SUSPENDED"} THEN UNCHANGED member
                                                 ELSE SetRow(u, "ACTIVE", "USER")
    /\ SetInviteStatus(u, "ACCEPTED")
    /\ Done(r)
    /\ UNCHANGED <<known, granted>>

\* Mutant: a row that exists is updated, and none is created.
AcceptInviteCommit_NoCreate(r) ==
    LET u == rq[r].user IN
    /\ At(r, "acceptInvite", "txRead")
    /\ IF rq[r].seen \in {"NONE", "ACTIVE", "SUSPENDED"} THEN UNCHANGED member
                                                ELSE SetRow(u, "ACTIVE", rq[r].role)
    /\ SetInviteStatus(u, "ACCEPTED")
    /\ Done(r)
    /\ UNCHANGED <<known, granted>>

\* Mutant: a suspended member is taken in again.
AcceptInviteCommit_Unsuspends(r) ==
    LET u == rq[r].user IN
    /\ At(r, "acceptInvite", "txRead")
    /\ IF rq[r].seen = "ACTIVE" THEN UNCHANGED member ELSE SetRow(u, "ACTIVE", rq[r].role)
    /\ SetInviteStatus(u, "ACCEPTED")
    /\ Done(r)
    /\ UNCHANGED <<known, granted>>

AcceptInviteCommit(r) ==
    LET u == rq[r].user IN
    /\ At(r, "acceptInvite", "txRead")
    /\ IF rq[r].seen \in {"ACTIVE", "SUSPENDED"} THEN UNCHANGED member
                                                 ELSE SetRow(u, "ACTIVE", rq[r].role)
    /\ SetInviteStatus(u, "ACCEPTED")
    /\ Done(r)
    /\ UNCHANGED <<known, granted>>

\* Mutant: the INVITED row is left behind.
RejectInviteCommit_KeepsRow(r) ==
    /\ At(r, "rejectInvite", "txRead")
    /\ SetInviteStatus(rq[r].user, "REJECTED")
    /\ Done(r)
    /\ UNCHANGED <<member, known, granted>>

RejectInviteCommit(r) ==
    LET u == rq[r].user IN
    /\ At(r, "rejectInvite", "txRead")
    /\ IF rq[r].seen = "INVITED" THEN SetStatus(u, "REMOVED") ELSE UNCHANGED member
    /\ SetInviteStatus(u, "REJECTED")
    /\ Done(r)
    /\ UNCHANGED <<known, granted>>

\* Mutant: expiry is written as a status the enum does not have.
ExpireInvite_AsStatus(u) ==
    /\ invite[u].status = "PENDING" /\ invite[u].live
    /\ SetInviteStatus(u, "EXPIRED")
    /\ UNCHANGED <<member, known, rq, granted>>

\* Seven days pass.
ExpireInvite(u) ==
    /\ invite[u].status = "PENDING" /\ invite[u].live
    /\ invite' = [invite EXCEPT ![u] = [@ EXCEPT !.live = FALSE]]
    /\ UNCHANGED <<member, known, rq, granted>>

\* Signup creates the account; the claim that follows is a FindInvite.
Register(u) ==
    /\ u \notin known
    /\ known' = known \cup {u}
    /\ UNCHANGED <<member, invite, rq, granted>>

-----------------------------------------------------------------------------
(* Endpoints of the users and rbac modules.  Their permission middleware is *)
(* not modelled here: someone allowed to call them may do so at any time.   *)
(* They ask for the existence of the row and write it in one step.          *)

UserAdminWrite(r, u, status, role) ==
    /\ IsIdle(r)
    /\ u \in UserAdminTargets
    /\ member[u].status # "NONE"
    /\ SetRow(u, status, role)
    /\ granted' = [granted EXCEPT ![u] = @ \cup {role}]
    /\ UNCHANGED <<invite, known, rq>>

\* updateUserByAdmin writes a role, a status, or both.
UpdateUserByAdmin(r, u) ==
    \E status \in {"ACTIVE", "SUSPENDED", member[u].status}, role \in Role :
        UserAdminWrite(r, u, status, role)
DeleteUser(r, u) == UserAdminWrite(r, u, "REMOVED", member[u].role)
ReactivateUser(r, u) == UserAdminWrite(r, u, "ACTIVE", member[u].role)
UpdateUserRole(r, u) == \E role \in Role : UserAdminWrite(r, u, member[u].status, role)

-----------------------------------------------------------------------------
StartRequest(r) ==
    \E actor, u \in User :
        \/ \E op \in RoleOps, role \in Role : Authorize(r, actor, op, u, role)
        \/ \E op \in PlainOps : Authorize(r, actor, op, u, NoRole)

MembershipStep(r) ==
    \/ AddMemberRead(r) \/ AddMemberWrite(r)
    \/ \E op \in {"updateMemberRole", "removeMember", "suspendMember"} : ManageRead(r, op)
    \/ UpdateMemberRoleWrite(r) \/ RemoveMemberWrite(r) \/ SuspendMemberWrite(r)
    \/ RestoreMemberRead(r) \/ RestoreMemberWrite(r)

InviteStep(r) ==
    \/ CreateInviteReadInvite(r) \/ CreateInviteReadMember(r) \/ CreateInviteCommit(r)
    \/ CancelInviteMark(r) \/ CancelInviteReadMember(r) \/ CancelInviteCleanup(r)
    \/ ResendInviteRead(r) \/ ResendInviteWrite(r)
    \/ \E u \in User, op \in SelfOps : FindInvite(r, u, op)
    \/ \E op \in SelfOps : TxReadMember(r, op)
    \/ AcceptInviteCommit(r) \/ RejectInviteCommit(r)

UserAdminStep(r) ==
    \E u \in User :
        \/ UpdateUserByAdmin(r, u) \/ DeleteUser(r, u)
        \/ ReactivateUser(r, u) \/ UpdateUserRole(r, u)

Next ==
    \/ \E r \in Request :
        StartRequest(r) \/ MembershipStep(r) \/ InviteStep(r) \/ UserAdminStep(r) \/ Fail(r)
    \/ \E u \in User : ExpireInvite(u) \/ Register(u)

Spec == Init /\ [][Next]_vars
-----------------------------------------------------------------------------
(* Properties *)

\* The owner keeps an active admin seat whatever the requests do and however
\* they overlap, as long as the users and rbac endpoints are not aimed at the
\* owner: the three checks of tenant-membership.service.js protect the row,
\* and no other handler of the tenant module can get past its own checks.
OwnerKeepsSeat == Owner \notin UserAdminTargets => IsTenantAdmin(Owner)

\* A membership never holds a role that no authorised actor named for that
\* user: neither a stale read nor a late acceptance invents or swaps a role.
RoleWasGranted == \A u \in User : member[u].status # "NONE" => member[u].role \in granted[u]

\* The two tables agree on who was ever taken in: an accepted invite has a
\* membership row, and an INVITED row has an invite row, in spite of the
\* statements of cancelInvite that run outside any transaction.
TablesAgree ==
    \A u \in User :
        /\ invite[u].status = "ACCEPTED" => member[u].status # "NONE"
        /\ member[u].status = "INVITED" => invite[u].status # "NONE"

\* A request to restore or to remove a member, or one that had read the row of
\* the member, or found no account, before the member was suspended.
Lifts(r, u) ==
    /\ rq'[r] # rq[r] /\ rq[r].user = u
    /\ rq[r].stage \in {"ready", "txRead", "cleanup"}
    /\ rq[r].op \in {"restoreMember", "removeMember"} \/ rq[r].seen # "SUSPENDED"

\* A suspended member stays suspended until a request to restore or to remove it,
\* or the users endpoints, say otherwise.  Whatever else ends a suspension (an
\* invite, an acceptance, a rejection, a cancellation, an addition) decided on
\* what it had read before.
SuspensionLasts ==
    [][\A u \in User : member[u].status = "SUSPENDED" /\ member'[u].status # "SUSPENDED" =>
            \/ \E r \in Request : Lifts(r, u)
            \/ u \in UserAdminTargets /\ UNCHANGED rq]_vars

\* What the comments of tenant-membership.service.js say of the owner ("Cannot
\* change owner role", "Cannot remove owner", "Cannot suspend owner").
OwnerIsProtected == IsTenantAdmin(Owner)

\* What createInvite's comment says of its transaction ("REMOVED -> reactivate
\* as INVITED"): no row that is in use goes back to INVITED.
OnlyRemovedBecomesInvited ==
    [][\A u \in User : member'[u].status = "INVITED" =>
            member[u].status \in {"INVITED", "NONE", "REMOVED"}]_vars

\* When requests do not overlap, every handler of the tenant is one atomic
\* move of TenantLifecycle, crashes between its statements included.
Lifecycle == INSTANCE TenantLifecycle WITH
                status <- [u \in User |-> member[u].status],
                offer <- [u \in User |-> invite[u].status]
SerialLifecycle == Lifecycle!Spec

\* Without overlapping requests an INVITED row is one whose invite is open, or
\* was cancelled by a handler that has not finished or never will.
InvitedHasOffer == Lifecycle!InvitedHasOffer
-----------------------------------------------------------------------------
(* The inductive invariant behind OwnerKeepsSeat, RoleWasGranted and         *)
(* TablesAgree.  What a request read earlier stays true in one respect only: *)
(* a row or an invite that existed still exists.                             *)

\* Requests that will write a row, or leave it alone because it is there.
CountsOnRow(r) ==
    \/ rq[r].op \in {"updateMemberRole", "removeMember", "suspendMember", "restoreMember"}
       /\ rq[r].stage = "ready"
    \/ rq[r].stage = "cleanup"
    \/ rq[r].stage = "txRead" /\ rq[r].seen # "NONE"

\* Requests that found the invite they will write.
CountsOnInvite(r) == rq[r].op \in SelfOps \/ At(r, "resendInvite", "ready")

RequestsInv ==
    \A r \in Request :
        /\ rq[r].op \in RoleOps \cup SelfOps => rq[r].role # NoRole
        /\ CountsOnInvite(r) => invite[rq[r].user].status # "NONE"
        /\ CountsOnRow(r) => member[rq[r].user].status # "NONE"

GrantInv ==
    /\ RoleWasGranted
    /\ \A u \in User : invite[u].status # "NONE" => invite[u].role \in granted[u]
    /\ \A r \in Request : rq[r].role # NoRole => rq[r].role \in granted[rq[r].user]

\* No request aimed at the owner gets past its checks.
OwnerInv ==
    Owner \notin UserAdminTargets =>
        /\ Owner \in known
        /\ IsTenantAdmin(Owner)
        /\ invite[Owner].status = "NONE"
        /\ \A r \in Request : rq[r].op # "none" /\ rq[r].user = Owner =>
                rq[r].stage \in {"authorized", "inviteRead"}

IInv == TypeOK /\ RequestsInv /\ GrantInv /\ TablesAgree /\ OwnerInv

\* What SuspensionLasts rests on: a request that goes on to write had not found
\* the member suspended, but for the ones that may end a suspension, the one
\* that begins it, and the acceptance and rejection that look again.
SeenInv ==
    \A r \in Request :
        At(r, "addMember", "ready") \/ At(r, "createInvite", "ready") \/ rq[r].stage = "cleanup"
            => rq[r].seen # "SUSPENDED"
-----------------------------------------------------------------------------
(* The invariant behind InvitedHasOffer and SerialLifecycle, which hold      *)
(* where requests come one at a time.                                        *)

OneAtATime == \A r, s \in Request : r = s

\* What a request decided on when it read is still so when it writes.
DecisionHolds(r) ==
    LET u == rq[r].user
        row == member[u].status
        offer == invite[u].status
    IN
    /\ IsIdle(r) => rq[r].stage = "idle"
    /\ At(r, "addMember", "ready") => row = rq[r].seen /\ row \in {"NONE", "REMOVED"}
    /\ rq[r].op \in {"updateMemberRole", "removeMember", "suspendMember"}
       /\ rq[r].stage = "ready" => u # Owner
    /\ At(r, "suspendMember", "ready") => row # "SUSPENDED"
    /\ At(r, "restoreMember", "ready") => row = "SUSPENDED"
    /\ rq[r].op = "createInvite" /\ rq[r].stage # "authorized" => offer # "PENDING"
    /\ At(r, "createInvite", "ready") =>
            IF rq[r].seen = "NO_ACCOUNT" THEN row = "NONE"
                                         ELSE row \in {"NONE", "REMOVED"} /\ u \in known
    /\ rq[r].stage \in {"marked", "cleanup"} => offer = "CANCELLED"
    /\ rq[r].stage = "cleanup" => row = "INVITED"
    /\ rq[r].op \in SelfOps => offer = "PENDING" /\ u \in known
    /\ rq[r].stage = "txRead" => row = rq[r].seen

\* A row of a user is a row of an account.
MembersAreKnown == \A u \in User : member[u].status # "NONE" => u \in known

SerialInv == InvitedHasOffer /\ MembersAreKnown /\ \A r \in Request : DecisionHolds(r)
=============================================================================
