------------------------ MODULE TenantMembershipProofs ------------------------
(***************************************************************************)
(* Proofs about TenantMembership, for any number of users, roles and       *)
(* overlapping requests.  The safety properties follow from the inductive  *)
(* invariant IInv.  The steps of the handlers have a few shapes (a read, a *)
(* write of a membership row, the settlement of an invite); one lemma for  *)
(* each shape shows that it keeps IInv, and the actions cite them.  The    *)
(* last section adds SerialInv, for requests that come one at a time, and  *)
(* the simulation of TenantLifecycle.                                      *)
(***************************************************************************)
EXTENDS TenantMembership, TLAPS

USE OwnerAssumption, RoleAssumption, TargetAssumption
USE DEF NoRole, MemberStatus, InviteStatus, RoleOps, PlainOps, SelfOps, Op, Stage

-----------------------------------------------------------------------------
(* Shapes of steps *)

\* What a read has to justify: a row it will count on exists, and it does not
\* take a request aimed at the owner past its checks.
ReadIsSound(r, op, to, seen) ==
    /\ \/ /\ op \in {"updateMemberRole", "removeMember", "suspendMember", "restoreMember"}
          /\ to = "ready"
       \/ to = "cleanup"
       \/ to = "txRead" /\ seen # "NONE"
       => member[rq[r].user].status # "NONE"
    /\ op = "resendInvite" => invite[rq[r].user].status # "NONE"
    /\ Owner \notin UserAdminTargets /\ rq[r].user = Owner => to = "inviteRead"

\* Such a read keeps the invariant.
LEMMA ReadKeeps ==
  ASSUME IInv,
         NEW r \in Request, NEW op \in Op \ {"none"}, NEW from, NEW to \in Stage,
         NEW seen \in MemberStatus \cup {"NO_ACCOUNT"},
         Read(r, op, from, to, seen),
         ReadIsSound(r, op, to, seen)
  PROVE  IInv'
  <1> USE DEF IInv, Read, At, Proceed
  <1>a. rq[r] \in RequestState /\ rq \in [Request -> RequestState]
    BY DEF TypeOK
  <1>b. [rq[r] EXCEPT !.stage = to, !.seen = seen] \in RequestState
    BY <1>a DEF RequestState
  <1>c. rq' \in [Request -> RequestState]
    BY <1>a, <1>b
  <1>1. TypeOK'
    BY <1>c DEF TypeOK
  <1>2. \A s \in Request : /\ rq'[s].op = rq[s].op
                           /\ rq'[s].user = rq[s].user
                           /\ rq'[s].role = rq[s].role
                           /\ s # r => rq'[s] = rq[s]
    BY DEF TypeOK, RequestState
  <1>3. rq'[r].stage = to /\ rq'[r].seen = seen /\ rq'[r].op = op
    BY DEF TypeOK, RequestState
  <1>4. RequestsInv'
    BY <1>2, <1>3 DEF RequestsInv, CountsOnRow, CountsOnInvite, At, ReadIsSound
  <1>5. GrantInv'
    BY <1>2 DEF GrantInv, RoleWasGranted
  <1>6. TablesAgree'
    BY DEF TablesAgree
  <1>7. OwnerInv'
    BY <1>2, <1>3 DEF OwnerInv, IsTenantAdmin, ReadIsSound
  <1> QED
    BY <1>1, <1>4, <1>5, <1>6, <1>7

\* A request that ends is idle afterwards, and the others are as they were.
LEMMA DoneRequests ==
  ASSUME TypeOK, NEW r \in Request, Done(r)
  PROVE  /\ rq' \in [Request -> RequestState]
         /\ rq'[r] = Idle
         /\ \A s \in Request : s # r => rq'[s] = rq[s]
  BY DEF TypeOK, Done, RequestState, Idle

\* The membership half of a commit: the row of u is left alone, or gets a
\* status of an existing row and a role named for u.
RowEffect(u) ==
    \/ UNCHANGED member
    \/ \E status \in MemberStatus \ {"NONE"}, role \in granted[u] :
            /\ SetRow(u, status, role)
            /\ status = "INVITED" => invite'[u].status # "NONE"
            /\ Owner \notin UserAdminTargets => u # Owner

\* The invite half: untouched, settled, or (re)issued with a role named for u.
InviteEffect(u) ==
    \/ UNCHANGED invite
    \/ \E i \in Invite :
            /\ i.status # "NONE" /\ i.role \in granted[u]
            /\ i.status = "ACCEPTED" => member'[u].status # "NONE"
            /\ invite' = [invite EXCEPT ![u] = i]
            /\ Owner \notin UserAdminTargets => u # Owner

\* The rows of both tables after such a commit: existing rows stay, and every
\* role in them is a granted one.
LEMMA CommitRows ==
  ASSUME IInv, NEW u \in User, RowEffect(u), InviteEffect(u), UNCHANGED granted
  PROVE  /\ member' \in [User -> Row]
         /\ invite' \in [User -> Invite]
         /\ \A v \in User : /\ member[v].status # "NONE" => member'[v].status # "NONE"
                            /\ invite[v].status # "NONE" => invite'[v].status # "NONE"
         /\ RoleWasGranted'
         /\ \A v \in User : invite'[v].status # "NONE" => invite'[v].role \in granted[v]
         /\ TablesAgree'
         /\ Owner \notin UserAdminTargets =>
                member'[Owner] = member[Owner] /\ invite'[Owner] = invite[Owner]
  <1> USE DEF IInv, TypeOK, Row, Invite
  <1>1. member' \in [User -> Row]
    BY DEF RowEffect, SetRow
  <1>2. invite' \in [User -> Invite]
    BY DEF InviteEffect
  <1>3. \A v \in User : v # u => member'[v] = member[v] /\ invite'[v] = invite[v]
    BY DEF RowEffect, SetRow, InviteEffect
  <1>4. \/ member'[u] = member[u]
        \/ /\ member'[u].status # "NONE" /\ member'[u].role \in granted[u]
           /\ member'[u].status = "INVITED" => invite'[u].status # "NONE"
           /\ Owner \notin UserAdminTargets => u # Owner
    BY DEF RowEffect, SetRow
  <1>5. \/ invite'[u] = invite[u]
        \/ /\ invite'[u].status # "NONE" /\ invite'[u].role \in granted[u]
           /\ invite'[u].status = "ACCEPTED" => member'[u].status # "NONE"
           /\ Owner \notin UserAdminTargets => u # Owner
    BY DEF InviteEffect
  <1>6. \A v \in User : /\ member[v].status # "NONE" => member'[v].status # "NONE"
                        /\ invite[v].status # "NONE" => invite'[v].status # "NONE"
    BY <1>3, <1>4, <1>5
  <1>7. RoleWasGranted'
    BY <1>3, <1>4 DEF GrantInv, RoleWasGranted
  <1>8. \A v \in User : invite'[v].status # "NONE" => invite'[v].role \in granted[v]
    BY <1>3, <1>5 DEF GrantInv
  <1>9. TablesAgree'
    BY <1>3, <1>4, <1>5, <1>6 DEF TablesAgree
  <1>10. Owner \notin UserAdminTargets =>
            member'[Owner] = member[Owner] /\ invite'[Owner] = invite[Owner]
    BY <1>3, <1>4, <1>5
  <1> QED
    BY <1>1, <1>2, <1>6, <1>7, <1>8, <1>9, <1>10

\* A commit that ends its request keeps the invariant.
LEMMA CommitKeeps ==
  ASSUME IInv, NEW r \in Request, NEW u \in User,
         RowEffect(u), InviteEffect(u), Done(r), UNCHANGED <<known, granted>>
  PROVE  IInv'
  <1> USE DEF IInv
  <1>1. TypeOK'
    BY CommitRows, DoneRequests DEF TypeOK
  <1>2. RequestsInv'
    BY CommitRows, DoneRequests DEF RequestsInv, CountsOnRow, CountsOnInvite, At, Idle, TypeOK, RequestState
  <1>3. GrantInv'
    BY CommitRows, DoneRequests DEF GrantInv, Idle
  <1>4. OwnerInv'
    BY CommitRows, DoneRequests DEF OwnerInv, IsTenantAdmin, Idle
  <1> QED
    BY <1>1, <1>2, <1>3, <1>4, CommitRows

-----------------------------------------------------------------------------
(* The steps of the handlers *)

\* An administrative handler that starts has written nothing yet.
LEMMA StartKeeps ==
  ASSUME IInv, NEW r \in Request, StartRequest(r)
  PROVE  IInv'
  <1> USE DEF IInv, Authorize
  <1>. PICK actor \in User, u \in User, op \in RoleOps \cup PlainOps, role \in Role \cup {NoRole} :
            /\ Authorize(r, actor, op, u, role)
            /\ op \in RoleOps => role # NoRole
    BY DEF StartRequest
  <1>1. TypeOK'
    BY DEF TypeOK, RequestState, Row, Invite
  <1>2. /\ rq'[r] = [op |-> op, stage |-> "authorized", user |-> u, role |-> role,
                     seen |-> "NONE"]
        /\ \A s \in Request : s # r => rq'[s] = rq[s]
    BY DEF TypeOK
  <1>3. /\ \A v \in User : granted[v] \subseteq granted'[v]
        /\ role # NoRole => role \in granted'[u]
    BY DEF TypeOK
  <1>4. RequestsInv'
    BY <1>2 DEF RequestsInv, CountsOnRow, CountsOnInvite, At
  <1>5. GrantInv'
    BY <1>2, <1>3 DEF GrantInv, RoleWasGranted, TypeOK, RequestState
  <1>6. TablesAgree'
    BY DEF TablesAgree
  <1>7. OwnerInv'
    BY <1>2 DEF OwnerInv, IsTenantAdmin
  <1> QED
    BY <1>1, <1>4, <1>5, <1>6, <1>7

\* A request that fails leaves the rows as its last statement left them.
LEMMA FailKeeps ==
  ASSUME IInv, NEW r \in Request, Fail(r)
  PROVE  IInv'
  <1>1. RowEffect(Owner) /\ InviteEffect(Owner) /\ Done(r) /\ UNCHANGED <<known, granted>>
    BY DEF Fail, RowEffect, InviteEffect
  <1> QED
    BY <1>1, CommitKeeps

\* The writes of tenant-membership.service.js.
LEMMA RowWriteKeeps ==
  ASSUME IInv, NEW r \in Request, NEW u \in User,
         NEW status \in MemberStatus \ {"NONE"}, NEW role \in granted[u],
         SetRow(u, status, role), Done(r), UNCHANGED <<invite, known, granted>>,
         status = "INVITED" => member[u].status = "INVITED",
         Owner \notin UserAdminTargets => u # Owner
  PROVE  IInv'
  <1>1. status = "INVITED" => invite'[u].status # "NONE"
    BY DEF IInv, TablesAgree
  <1>2. RowEffect(u) /\ InviteEffect(u)
    BY <1>1 DEF RowEffect, InviteEffect
  <1> QED
    BY <1>2, CommitKeeps

\* The reads and the writes of addMember, updateMemberRole, removeMember,
\* suspendMember and restoreMember.
LEMMA MembershipKeeps ==
  ASSUME IInv, NEW r \in Request, MembershipStep(r)
  PROVE  IInv'
  <1> DEFINE u == rq[r].user
  <1>0. u \in User /\ rq[r] \in RequestState
    BY DEF IInv, TypeOK, RequestState
  <1> DEFINE st == member[u].status
  <1>t. st \in MemberStatus /\ member[u].role \in Role \cup {NoRole}
    BY <1>0 DEF IInv, TypeOK, Row
  <1>1. CASE AddMemberRead(r)
    <2>1. st # "ACTIVE"
      BY <1>1 DEF AddMemberRead
    <2>2. ReadIsSound(r, "addMember", "ready", st)
      BY <2>1 DEF ReadIsSound, OwnerInv, IInv, IsTenantAdmin
    <2> QED
      BY <1>1, <1>t, <2>2, ReadKeeps DEF AddMemberRead
  <1>2. CASE AddMemberWrite(r)
    <2>1. rq[r].role \in granted[u] /\ (Owner \notin UserAdminTargets => u # Owner)
      BY <1>2 DEF AddMemberWrite, At, IInv, RequestsInv, GrantInv, OwnerInv
    <2> QED
      BY <1>0, <1>2, <2>1, RowWriteKeeps DEF AddMemberWrite, CreateMember
  <1>3. ASSUME NEW op \in {"updateMemberRole", "removeMember", "suspendMember"},
               ManageRead(r, op)
        PROVE  IInv'
    <2>1. ReadIsSound(r, op, "ready", st)
      BY <1>3 DEF ManageRead, ReadIsSound, NotOwner
    <2> QED
      BY <1>3, <1>t, <2>1, ReadKeeps DEF ManageRead
  <1>4. ASSUME NEW op \in {"updateMemberRole", "removeMember", "suspendMember", "restoreMember"},
               NEW status \in MemberStatus, NEW role \in Role \cup {NoRole},
               ManageWrite(r, op, status, role),
               role = member[u].role \/ (role = rq[r].role /\ op = "updateMemberRole"),
               status = st \/ status \in {"REMOVED", "SUSPENDED", "ACTIVE"}
        PROVE  IInv'
    <2>1. st # "NONE" /\ (Owner \notin UserAdminTargets => u # Owner)
      BY <1>4 DEF ManageWrite, At, IInv, RequestsInv, CountsOnRow, CountsOnInvite, At, OwnerInv
    <2>2. role \in granted[u]
      BY <1>0, <1>4, <2>1 DEF ManageWrite, At, IInv, RequestsInv, GrantInv, RoleWasGranted
    <2> QED
      BY <1>0, <1>4, <2>1, <2>2, RowWriteKeeps DEF ManageWrite
  <1>5. CASE UpdateMemberRoleWrite(r)
    BY <1>0, <1>4, <1>5, <1>t DEF UpdateMemberRoleWrite, RequestState
  <1>6. CASE RemoveMemberWrite(r)
    <2>1. ManageWrite(r, "removeMember", "REMOVED", member[u].role)
      BY <1>6 DEF RemoveMemberWrite
    <2> QED
      BY <1>4, <1>t, <2>1
  <1>7. CASE SuspendMemberWrite(r)
    <2>1. ManageWrite(r, "suspendMember", "SUSPENDED", member[u].role)
      BY <1>7 DEF SuspendMemberWrite
    <2> QED
      BY <1>4, <1>t, <2>1
  <1>8. CASE RestoreMemberRead(r)
    <2>1. ReadIsSound(r, "restoreMember", "ready", "SUSPENDED")
      BY <1>8 DEF RestoreMemberRead, ReadIsSound, OwnerInv, IInv, IsTenantAdmin
    <2> QED
      BY <1>8, <2>1, ReadKeeps DEF RestoreMemberRead
  <1>9. CASE RestoreMemberWrite(r)
    <2>1. ManageWrite(r, "restoreMember", "ACTIVE", member[u].role)
      BY <1>9 DEF RestoreMemberWrite
    <2> QED
      BY <1>4, <1>t, <2>1
  <1> QED
    BY <1>1, <1>2, <1>3, <1>5, <1>6, <1>7, <1>8, <1>9 DEF MembershipStep

\* An accepted or rejected invite: its request found it, so the row is there.
LEMMA SettleKeeps ==
  ASSUME IInv, NEW r \in Request, NEW u \in User, u = rq[r].user,
         rq[r].op \in SelfOps, rq[r].stage = "txRead",
         NEW status \in InviteStatus \ {"NONE"},
         SetInviteStatus(u, status), Done(r), UNCHANGED <<known, granted>>,
         status = "ACCEPTED" => member'[u].status # "NONE",
         RowEffect(u)
  PROVE  IInv'
  <1>1. invite[u].status # "NONE" /\ invite[u].role \in granted[u]
    BY DEF IInv, RequestsInv, GrantInv, CountsOnInvite
  <1>2. Owner \notin UserAdminTargets => u # Owner
    BY DEF IInv, OwnerInv
  <1> DEFINE i == [invite[u] EXCEPT !.status = status]
  <1>3. i \in Invite /\ i.status = status /\ i.role = invite[u].role
    BY DEF IInv, TypeOK, Invite
  <1>4. invite' = [invite EXCEPT ![u] = i]
    BY DEF SetInviteStatus
  <1>5. InviteEffect(u)
    BY <1>1, <1>2, <1>3, <1>4 DEF InviteEffect
  <1> QED
    BY <1>5, CommitKeeps

\* The statements of createInvite, cancelInvite, resendInvite, and of the
\* acceptance and the rejection of an invite.
LEMMA InviteKeeps ==
  ASSUME IInv, NEW r \in Request, InviteStep(r)
  PROVE  IInv'
  <1> DEFINE u == rq[r].user
  <1>0. u \in User /\ rq[r] \in RequestState
    BY DEF IInv, TypeOK, RequestState
  <1> DEFINE st == member[u].status
  <1>t. st \in MemberStatus /\ member[u].role \in Role \cup {NoRole}
    BY <1>0 DEF IInv, TypeOK, Row
  <1>i. invite[u] \in Invite
    BY <1>0 DEF IInv, TypeOK
  <1>r. st # "NONE" => member[u].role \in granted[u]
    BY <1>0 DEF IInv, GrantInv, RoleWasGranted
  <1>1. CASE CreateInviteReadInvite(r)
    <2>1. ReadIsSound(r, "createInvite", "inviteRead", "NONE")
      BY DEF ReadIsSound
    <2> QED
      BY <1>1, <2>1, ReadKeeps DEF CreateInviteReadInvite
  <1>2. CASE CreateInviteReadMember(r)
    <2> DEFINE seen == IF u \in known THEN st ELSE "NO_ACCOUNT"
    <2>1. ReadIsSound(r, "createInvite", "ready", seen)
      BY <1>2 DEF CreateInviteReadMember, ReadIsSound, OwnerInv, IInv, IsTenantAdmin
    <2>2. seen \in MemberStatus \cup {"NO_ACCOUNT"} /\ Read(r, "createInvite", "inviteRead", "ready", seen)
      BY <1>2, <1>t DEF CreateInviteReadMember
    <2> HIDE DEF seen
    <2> QED
      BY <2>1, <2>2, ReadKeeps
  <1>3. CASE CreateInviteCommit(r)
    <2>1. rq[r].op = "createInvite" /\ rq[r].stage = "ready"
      BY <1>3 DEF CreateInviteCommit, At
    <2>2. rq[r].role \in Role /\ rq[r].role \in granted[u]
      BY <1>0, <2>1 DEF IInv, RequestsInv, GrantInv, RequestState
    <2>3. Owner \notin UserAdminTargets => u # Owner
      BY <2>1 DEF IInv, OwnerInv
    <2> DEFINE i == [status |-> "PENDING", role |-> rq[r].role, live |-> TRUE]
    <2>4. i \in Invite /\ invite' = [invite EXCEPT ![u] = i]
      BY <1>3, <2>2 DEF CreateInviteCommit, Invite
    <2>5. InviteEffect(u)
      BY <2>2, <2>3, <2>4 DEF InviteEffect
    <2>6. invite'[u].status # "NONE"
      BY <1>0, <2>4 DEF IInv, TypeOK
    <2>7. RowEffect(u)
      BY <1>3, <2>2, <2>3, <2>6 DEF CreateInviteCommit, RowEffect
    <2> QED
      BY <1>0, <1>3, <2>5, <2>7, CommitKeeps DEF CreateInviteCommit
  <1>4. CASE CancelInviteMark(r)
    <2> USE DEF CancelInviteMark, SetInviteStatus, Proceed, At
    <2>1. rq'[r] = [rq[r] EXCEPT !.stage = "marked", !.seen = "NONE"] /\ rq' \in [Request -> RequestState]
      BY <1>0, <1>4 DEF IInv, TypeOK, RequestState
    <2>2. \A s \in Request : s # r => rq'[s] = rq[s]
      BY <1>4 DEF IInv, TypeOK
    <2>3. rq'[r].stage = "marked" /\ rq'[r].op = "cancelInvite" /\ rq'[r].role = rq[r].role /\ rq'[r].user = u
      BY <1>0, <1>4, <2>1 DEF RequestState
    <2>4. InviteEffect(u)
      <3> DEFINE i == [invite[u] EXCEPT !.status = "CANCELLED"]
      <3>1. i \in Invite /\ i.status = "CANCELLED" /\ i.role = invite[u].role
        BY <1>i DEF Invite
      <3>2. invite[u].status # "NONE" /\ invite[u].role \in granted[u]
        BY <1>0, <1>4 DEF IInv, GrantInv
      <3>3. Owner \notin UserAdminTargets => u # Owner
        BY <3>2 DEF IInv, OwnerInv
      <3> QED
        BY <1>4, <3>1, <3>2, <3>3 DEF InviteEffect
    <2>5. RowEffect(u)
      BY <1>4 DEF RowEffect
    <2>6. TypeOK'
      BY <1>0, <1>4, <2>1, <2>4, <2>5, CommitRows DEF TypeOK, IInv
    <2>7. RequestsInv'
      BY <1>0, <1>4, <2>2, <2>3, <2>4, <2>5, CommitRows
         DEF IInv, RequestsInv, CountsOnRow, CountsOnInvite, At, TypeOK, RequestState
    <2>8. GrantInv'
      BY <1>0, <1>4, <2>2, <2>3, <2>4, <2>5, CommitRows DEF IInv, GrantInv
    <2>9. OwnerInv'
      BY <1>0, <1>4, <2>2, <2>3, <2>4, <2>5, CommitRows DEF IInv, OwnerInv, IsTenantAdmin
    <2> QED
      BY <1>0, <1>4, <2>4, <2>5, <2>6, <2>7, <2>8, <2>9, CommitRows DEF IInv
  <1>5. CASE CancelInviteReadMember(r)
    <2>1. ReadIsSound(r, "cancelInvite", "cleanup", "INVITED")
      BY <1>5 DEF CancelInviteReadMember, ReadIsSound, OwnerInv, IInv, IsTenantAdmin
    <2> QED
      BY <1>5, <2>1, ReadKeeps DEF CancelInviteReadMember
  <1>6. CASE CancelInviteCleanup(r)
    <2>1. st # "NONE" /\ (Owner \notin UserAdminTargets => u # Owner)
      BY <1>6 DEF CancelInviteCleanup, At, IInv, RequestsInv, CountsOnRow, CountsOnInvite, At, OwnerInv
    <2>2. SetRow(u, "REMOVED", member[u].role) /\ Done(r) /\ UNCHANGED <<invite, known, granted>>
      BY <1>6 DEF CancelInviteCleanup, SetStatus
    <2> QED
      BY <1>0, <1>r, <2>1, <2>2, RowWriteKeeps
  <1>7. CASE ResendInviteRead(r)
    <2>1. ReadIsSound(r, "resendInvite", "ready", "NONE")
      BY <1>7 DEF ResendInviteRead, ReadIsSound, OwnerInv, IInv
    <2> QED
      BY <1>7, <2>1, ReadKeeps DEF ResendInviteRead
  <1>8. CASE ResendInviteWrite(r)
    <2>1. At(r, "resendInvite", "ready") /\ RowEffect(u) /\ Done(r) /\ UNCHANGED <<known, granted>>
      BY <1>8 DEF ResendInviteWrite, RowEffect
    <2>2. rq[r].op = "resendInvite" /\ rq[r].stage = "ready"
      BY <2>1 DEF At
    <2>3. invite[u].status # "NONE" /\ invite[u].role \in granted[u]
      BY <1>0, <2>1 DEF IInv, RequestsInv, GrantInv, CountsOnInvite
    <2>4. Owner \notin UserAdminTargets => u # Owner
      BY <2>2 DEF IInv, OwnerInv
    <2> DEFINE i == [invite[u] EXCEPT !.live = TRUE]
    <2>5. i \in Invite /\ i.status = invite[u].status /\ i.role = invite[u].role
      BY <1>i DEF Invite
    <2>6. invite' = [invite EXCEPT ![u] = i] /\ UNCHANGED member
      BY <1>8 DEF ResendInviteWrite
    <2>7. i.status = "ACCEPTED" => member'[u].status # "NONE"
      BY <1>0, <2>5, <2>6 DEF IInv, TablesAgree
    <2>8. InviteEffect(u)
      BY <2>3, <2>4, <2>5, <2>6, <2>7 DEF InviteEffect
    <2> QED
      BY <1>0, <2>1, <2>8, CommitKeeps
  <1>9. ASSUME NEW v \in User, NEW op \in SelfOps, FindInvite(r, v, op)
        PROVE  IInv'
    <2> USE DEF FindInvite
    <2>1. /\ rq'[r] = [op |-> op, stage |-> "found", user |-> v,
                       role |-> invite[v].role, seen |-> "NONE"]
          /\ \A s \in Request : s # r => rq'[s] = rq[s]
      BY <1>9 DEF IInv, TypeOK
    <2>2. invite[v].role \in granted[v] /\ granted[v] \subseteq Role
      BY <1>9 DEF IInv, TypeOK, GrantInv
    <2>3. Owner \notin UserAdminTargets => v # Owner
      BY <1>9 DEF IInv, OwnerInv
    <2>4. TypeOK'
      BY <1>9, <2>2 DEF IInv, TypeOK, RequestState
    <2>5. RequestsInv'
      BY <1>9, <2>1, <2>2 DEF IInv, RequestsInv, CountsOnRow, CountsOnInvite, At
    <2>6. GrantInv'
      BY <1>9, <2>1, <2>2 DEF IInv, GrantInv, RoleWasGranted
    <2>7. OwnerInv'
      BY <1>9, <2>1, <2>3 DEF IInv, OwnerInv, IsTenantAdmin
    <2>8. TablesAgree'
      BY <1>9 DEF IInv, TablesAgree
    <2> QED
      BY <2>4, <2>5, <2>6, <2>7, <2>8 DEF IInv
  <1>10. ASSUME NEW op \in SelfOps, TxReadMember(r, op)
         PROVE  IInv'
    <2>1. Read(r, op, "found", "txRead", st) /\ op \in Op \ {"none"}
      BY <1>10 DEF TxReadMember
    <2>2. Owner \notin UserAdminTargets => u # Owner
      BY <2>1 DEF Read, At, IInv, OwnerInv
    <2>3. ReadIsSound(r, op, "txRead", st)
      BY <1>10, <2>2 DEF ReadIsSound
    <2> QED
      BY <2>1, <2>3, <1>t, ReadKeeps
  <1>11. ASSUME rq[r].op \in SelfOps, rq[r].stage = "txRead"
         PROVE  /\ Owner \notin UserAdminTargets => u # Owner
                /\ rq[r].role \in granted[u]
                /\ rq[r].seen # "NONE" => st # "NONE"
    BY <1>0, <1>11 DEF IInv, OwnerInv, RequestsInv, GrantInv, CountsOnRow
  <1>12. CASE AcceptInviteCommit(r)
    <2>1. rq[r].op \in SelfOps /\ rq[r].stage = "txRead"
      BY <1>12 DEF AcceptInviteCommit, At
    <2>2. RowEffect(u)
      BY <1>11, <1>12, <2>1 DEF AcceptInviteCommit, RowEffect
    <2>3. member'[u].status # "NONE"
      BY <1>0, <1>11, <1>12, <2>1 DEF AcceptInviteCommit, SetRow, IInv, TypeOK
    <2> QED
      BY <1>0, <1>12, <2>1, <2>2, <2>3, SettleKeeps DEF AcceptInviteCommit
  <1>13. CASE RejectInviteCommit(r)
    <2>1. rq[r].op \in SelfOps /\ rq[r].stage = "txRead"
      BY <1>13 DEF RejectInviteCommit, At
    <2>2. RowEffect(u)
      BY <1>r, <1>11, <1>13, <2>1 DEF RejectInviteCommit, SetStatus, RowEffect
    <2> QED
      BY <1>0, <1>13, <2>1, <2>2, SettleKeeps DEF RejectInviteCommit
  <1> QED
    BY <1>1, <1>2, <1>3, <1>4, <1>5, <1>6, <1>7, <1>8, <1>9, <1>10, <1>12, <1>13
       DEF InviteStep

\* The users and rbac endpoints.
LEMMA UserAdminKeeps ==
  ASSUME IInv, NEW r \in Request, UserAdminStep(r)
  PROVE  IInv'
  <1>1. PICK u \in User, status \in MemberStatus \ {"NONE"}, role \in Role \cup {NoRole} :
            /\ UserAdminWrite(r, u, status, role)
            /\ status = "INVITED" => member[u].status = "INVITED"
            /\ role \in Role \/ role = member[u].role
    BY DEF UserAdminStep, UpdateUserByAdmin, DeleteUser, ReactivateUser, UpdateUserRole,
           UserAdminWrite, IInv, TypeOK, Row
  <1>2. u \in UserAdminTargets /\ member[u].status # "NONE" /\ UNCHANGED <<invite, known, rq>>
    BY <1>1 DEF UserAdminWrite
  <1>3. role \in Role
    BY <1>1, <1>2 DEF IInv, TypeOK, GrantInv, RoleWasGranted
  <1>4. /\ member' = [member EXCEPT ![u] = [status |-> status, role |-> role]]
        /\ granted' = [granted EXCEPT ![u] = @ \cup {role}]
    BY <1>1 DEF UserAdminWrite, SetRow
  <1>5. TypeOK'
    BY <1>2, <1>3, <1>4 DEF IInv, TypeOK, Row
  <1>6. /\ \A v \in User : v # u => member'[v] = member[v]
        /\ member'[u].status = status /\ member'[u].role = role
        /\ \A v \in User : granted[v] \subseteq granted'[v]
        /\ role \in granted'[u]
    BY <1>4 DEF IInv, TypeOK
  <1>7. RequestsInv'
    <2>1. \A s \in Request : rq[s].user \in User
      BY DEF IInv, TypeOK, RequestState
    <2>2. \A v \in User : member[v].status # "NONE" => member'[v].status # "NONE"
      BY <1>6
    <2> QED
      BY <1>2, <2>1, <2>2 DEF IInv, RequestsInv, CountsOnRow, CountsOnInvite, At
  <1>8. GrantInv'
    BY <1>2, <1>6 DEF IInv, GrantInv, RoleWasGranted, TypeOK, RequestState
  <1>9. TablesAgree'
    BY <1>1, <1>2, <1>6 DEF IInv, TablesAgree
  <1>10. OwnerInv'
    BY <1>2, <1>6 DEF IInv, OwnerInv, IsTenantAdmin
  <1> QED
    BY <1>5, <1>7, <1>8, <1>9, <1>10 DEF IInv

\* Expiry and signup touch no membership.
LEMMA OtherKeeps ==
  ASSUME IInv, NEW u \in User, ExpireInvite(u) \/ Register(u)
  PROVE  IInv'
  <1>1. /\ invite' \in [User -> Invite]
        /\ \A v \in User : /\ invite'[v].status = invite[v].status
                           /\ invite'[v].role = invite[v].role
        /\ known \subseteq known' /\ known' \subseteq User
        /\ UNCHANGED <<member, rq, granted>>
    <2>1. CASE ExpireInvite(u)
      <3> DEFINE i == [invite[u] EXCEPT !.live = FALSE]
      <3>1. i \in Invite /\ i.status = invite[u].status /\ i.role = invite[u].role
        BY DEF IInv, TypeOK, Invite
      <3>2. invite' = [invite EXCEPT ![u] = i] /\ UNCHANGED <<member, known, rq, granted>>
        BY <2>1 DEF ExpireInvite
      <3> QED
        BY <3>1, <3>2 DEF IInv, TypeOK
    <2>2. CASE Register(u)
      BY <2>2 DEF Register, IInv, TypeOK
    <2> QED
      BY <2>1, <2>2
  <1>2. TypeOK'
    BY <1>1 DEF IInv, TypeOK
  <1>3. RequestsInv' /\ GrantInv' /\ TablesAgree'
    BY <1>1 DEF IInv, TypeOK, RequestState, RequestsInv, CountsOnRow, CountsOnInvite, At,
                GrantInv, RoleWasGranted, TablesAgree
  <1>4. OwnerInv'
    BY <1>1 DEF IInv, OwnerInv, IsTenantAdmin
  <1> QED
    BY <1>2, <1>3, <1>4 DEF IInv

-----------------------------------------------------------------------------
(* The inductive invariant, and what follows from it *)

\* A new tenant satisfies the invariant.
LEMMA InitIInv == Init => IInv
  <1> SUFFICES ASSUME Init PROVE IInv
    OBVIOUS
  <1>1. TypeOK
    BY DEF Init, TypeOK, Row, Invite, RequestState, Idle
  <1>2. RequestsInv
    BY DEF Init, RequestsInv, CountsOnRow, CountsOnInvite, At, Idle
  <1>3. GrantInv
    BY DEF Init, GrantInv, RoleWasGranted, Idle
  <1>4. TablesAgree
    BY DEF Init, TablesAgree
  <1>5. OwnerInv
    BY DEF Init, OwnerInv, IsTenantAdmin, Idle
  <1> QED
    BY <1>1, <1>2, <1>3, <1>4, <1>5 DEF IInv

\* Every step keeps the invariant.
LEMMA NextKeeps == IInv /\ [Next]_vars => IInv'
  <1> SUFFICES ASSUME IInv, [Next]_vars PROVE IInv'
    OBVIOUS
  <1>1. CASE UNCHANGED vars
    BY <1>1 DEF vars, IInv, TypeOK, RequestsInv, CountsOnRow, CountsOnInvite, At, GrantInv,
                RoleWasGranted, TablesAgree, OwnerInv, IsTenantAdmin
  <1>2. CASE Next
    BY <1>2, StartKeeps, MembershipKeeps, InviteKeeps, UserAdminKeeps, FailKeeps, OtherKeeps
       DEF Next
  <1> QED
    BY <1>1, <1>2

\* The inductive invariant holds in every reachable state: what a request read
\* before it was overtaken by others still guarantees that the row it is about
\* to write exists, and that it is not the owner's.
THEOREM Inductive == Spec => []IInv
  BY InitIInv, NextKeeps, PTL DEF Spec

\* The state keeps its shape, whatever the number of users and requests.
THEOREM TypeCorrect == Spec => []TypeOK
  <1>1. IInv => TypeOK
    BY DEF IInv
  <1> QED
    BY <1>1, Inductive, PTL

\* The three owner checks of tenant-membership.service.js, and the fact that
\* the owner never has an invite, keep the owner an active admin under any
\* interleaving of any number of requests: no race in the tenant module gets
\* around them.
THEOREM OwnerSeat == Spec => []OwnerKeepsSeat
  <1>1. IInv => OwnerKeepsSeat
    BY DEF IInv, OwnerInv, OwnerKeepsSeat
  <1> QED
    BY <1>1, Inductive, PTL

\* Every role in a membership row was named for that user by someone who was
\* authorised to, however stale the request that wrote it.
THEOREM RolesAreGranted == Spec => []RoleWasGranted
  <1>1. IInv => RoleWasGranted
    BY DEF IInv, GrantInv
  <1> QED
    BY <1>1, Inductive, PTL

\* Memberships and invites never lose each other's row, although cancelInvite
\* writes the two tables in separate statements.
THEOREM TablesStayAgreed == Spec => []TablesAgree
  <1>1. IInv => TablesAgree
    BY DEF IInv
  <1> QED
    BY <1>1, Inductive, PTL
-----------------------------------------------------------------------------
(* Suspensions *)

\* The slot of a request that ends is idle, and the one of a request that reads
\* holds what it read; the other slots stay.
LEMMA SlotMoves ==
  ASSUME TypeOK, NEW r \in Request
  PROVE  /\ Done(r) => rq'[r] = Idle /\ \A s \in Request : s # r => rq'[s] = rq[s]
         /\ \A op, from, to, seen : Read(r, op, from, to, seen) =>
                /\ rq[r].op = op /\ rq'[r].op = op
                /\ rq'[r].stage = to /\ rq'[r].seen = seen
                /\ \A s \in Request : s # r => rq'[s] = rq[s]
  BY DEF TypeOK, RequestState, Done, Read, At, Proceed

\* No handler gets to its write, but the ones that may, when it found the member
\* suspended.
LEMMA SeenKeeps == TypeOK /\ SeenInv /\ [Next]_vars => SeenInv'
  <1> SUFFICES ASSUME TypeOK, SeenInv, [Next]_vars PROVE SeenInv'
    OBVIOUS
  <1> USE DEF SeenInv, At
  <1>1. ASSUME NEW r \in Request, Done(r) PROVE SeenInv'
    BY <1>1, SlotMoves DEF Idle
  <1>2. ASSUME NEW r \in Request, NEW op, NEW from, NEW to, NEW seen,
               Read(r, op, from, to, seen),
               \/ seen # "SUSPENDED"
               \/ op \notin {"addMember", "createInvite"} /\ to # "cleanup"
               \/ to # "ready" /\ to # "cleanup"
        PROVE  SeenInv'
    BY <1>2, SlotMoves
  <1>3. CASE UNCHANGED vars \/ \E u \in User : ExpireInvite(u) \/ Register(u)
    BY <1>3 DEF vars, ExpireInvite, Register
  <1>4. ASSUME NEW r \in Request, StartRequest(r) PROVE SeenInv'
    BY <1>4 DEF StartRequest, Authorize, TypeOK
  <1>5. ASSUME NEW r \in Request, MembershipStep(r) PROVE SeenInv'
    <2>1. CASE AddMemberRead(r)
      BY <2>1, <1>2 DEF AddMemberRead
    <2>2. ASSUME NEW op \in {"updateMemberRole", "removeMember", "suspendMember"},
                 ManageRead(r, op)
          PROVE  SeenInv'
      BY <2>2, <1>2 DEF ManageRead
    <2>3. CASE RestoreMemberRead(r)
      BY <2>3, <1>2 DEF RestoreMemberRead
    <2>4. CASE \/ AddMemberWrite(r) \/ UpdateMemberRoleWrite(r) \/ RemoveMemberWrite(r)
               \/ SuspendMemberWrite(r) \/ RestoreMemberWrite(r)
      BY <2>4, <1>1 DEF AddMemberWrite, UpdateMemberRoleWrite, RemoveMemberWrite,
         SuspendMemberWrite, RestoreMemberWrite, ManageWrite
    <2> QED
      BY <1>5, <2>1, <2>2, <2>3, <2>4 DEF MembershipStep
  <1>6. ASSUME NEW r \in Request, InviteStep(r) PROVE SeenInv'
    <2>1. CASE CreateInviteReadInvite(r)
      BY <2>1, <1>2 DEF CreateInviteReadInvite
    <2>2. CASE CreateInviteReadMember(r)
      BY <2>2, <1>2 DEF CreateInviteReadMember
    <2>3. CASE CancelInviteReadMember(r)
      BY <2>3, <1>2 DEF CancelInviteReadMember
    <2>4. CASE ResendInviteRead(r)
      BY <2>4, <1>2 DEF ResendInviteRead
    <2>5. ASSUME NEW op \in {"acceptInvite", "rejectInvite"}, TxReadMember(r, op)
          PROVE  SeenInv'
      BY <2>5, <1>2 DEF TxReadMember
    <2>6. CASE CancelInviteMark(r)
      BY <2>6 DEF CancelInviteMark, Proceed, TypeOK, RequestState
    <2>7. CASE \E u \in User, op \in {"acceptInvite", "rejectInvite"} : FindInvite(r, u, op)
      BY <2>7 DEF FindInvite, TypeOK
    <2>8. CASE \/ CreateInviteCommit(r) \/ CancelInviteCleanup(r) \/ ResendInviteWrite(r)
               \/ AcceptInviteCommit(r) \/ RejectInviteCommit(r)
      BY <2>8, <1>1 DEF CreateInviteCommit, CancelInviteCleanup, ResendInviteWrite,
         AcceptInviteCommit, RejectInviteCommit
    <2> QED
      BY <1>6, <2>1, <2>2, <2>3, <2>4, <2>5, <2>6, <2>7, <2>8 DEF InviteStep
  <1>7. ASSUME NEW r \in Request, UserAdminStep(r) PROVE SeenInv'
    BY <1>7 DEF UserAdminStep, UpdateUserByAdmin, DeleteUser, ReactivateUser, UpdateUserRole,
       UserAdminWrite
  <1>8. ASSUME NEW r \in Request, Fail(r) PROVE SeenInv'
    BY <1>8, <1>1 DEF Fail
  <1> QED
    BY <1>3, <1>4, <1>5, <1>6, <1>7, <1>8 DEF Next

\* A write that ends a suspension is one of those that may, or had read before.
LEMMA WriteLifts ==
  ASSUME TypeOK, NEW r \in Request, NEW u \in User,
         rq[r].stage \in {"ready", "txRead", "cleanup"}, Done(r),
         rq[r].op \in {"restoreMember", "removeMember"} \/ rq[r].seen # "SUSPENDED",
         \A v \in User : v # rq[r].user => member'[v] = member[v],
         member'[u] # member[u]
  PROVE  Lifts(r, u)
  BY SlotMoves DEF Lifts, Idle

\* However many requests overlap, a suspension ends by a request to restore or to
\* remove the member, by the users endpoints, or by a request that had read the
\* row before the member was suspended.
THEOREM SuspensionsLast == Spec => SuspensionLasts
  <1>1. Init => SeenInv
    BY DEF Init, SeenInv, At, Idle
  <1>2. TypeOK /\ SeenInv /\ [Next]_vars =>
            [\A u \in User : member[u].status = "SUSPENDED" /\ member'[u].status # "SUSPENDED" =>
                \/ \E r \in Request : Lifts(r, u)
                \/ u \in UserAdminTargets /\ UNCHANGED rq]_vars
    <2> SUFFICES ASSUME TypeOK, SeenInv, Next, NEW u \in User,
                        member[u].status = "SUSPENDED", member'[u].status # "SUSPENDED"
                 PROVE  \/ \E r \in Request : Lifts(r, u)
                        \/ u \in UserAdminTargets /\ UNCHANGED rq
      OBVIOUS
    <2>1. ASSUME NEW r \in Request, MembershipStep(r) PROVE Lifts(r, u)
      <3>1. CASE AddMemberWrite(r)
        BY <3>1, WriteLifts DEF AddMemberWrite, CreateMember, SetRow, SeenInv, At, TypeOK
      <3>2. CASE \/ UpdateMemberRoleWrite(r) \/ RemoveMemberWrite(r)
                 \/ SuspendMemberWrite(r) \/ RestoreMemberWrite(r)
        BY <3>2, WriteLifts DEF UpdateMemberRoleWrite, RemoveMemberWrite, SuspendMemberWrite,
           RestoreMemberWrite, ManageWrite, SetRow, At, TypeOK
      <3> QED
        BY <2>1, <3>1, <3>2 DEF MembershipStep, AddMemberRead, ManageRead, RestoreMemberRead, Read
    <2>2. ASSUME NEW r \in Request, InviteStep(r) PROVE Lifts(r, u)
      <3>1. CASE CreateInviteCommit(r) \/ CancelInviteCleanup(r)
        BY <3>1, WriteLifts DEF CreateInviteCommit, CancelInviteCleanup, SetStatus, SetRow,
           SeenInv, At, TypeOK
      <3>2. CASE AcceptInviteCommit(r) \/ RejectInviteCommit(r)
        BY <3>2, WriteLifts DEF AcceptInviteCommit, RejectInviteCommit, SetStatus, SetRow,
           At, TypeOK
      <3> QED
        BY <2>2, <3>1, <3>2 DEF InviteStep, CreateInviteReadInvite, CreateInviteReadMember,
           CancelInviteMark, CancelInviteReadMember, ResendInviteRead, ResendInviteWrite,
           FindInvite, TxReadMember, Read
    <2>3. ASSUME NEW r \in Request, UserAdminStep(r)
          PROVE  u \in UserAdminTargets /\ UNCHANGED rq
      BY <2>3 DEF UserAdminStep, UpdateUserByAdmin, DeleteUser, ReactivateUser, UpdateUserRole,
         UserAdminWrite, SetRow, TypeOK
    <2>4. ~(\E r \in Request : StartRequest(r) \/ Fail(r))
          /\ ~(\E v \in User : ExpireInvite(v) \/ Register(v))
      BY DEF StartRequest, Authorize, Fail, ExpireInvite, Register
    <2> QED
      BY <2>1, <2>2, <2>3, <2>4 DEF Next
  <1> QED
    BY <1>1, <1>2, SeenKeeps, TypeCorrect, PTL DEF Spec, SuspensionLasts
-----------------------------------------------------------------------------
(* Requests that come one at a time: every step of a handler is a move of    *)
(* TenantLifecycle, or no move.                                              *)

USE DEF IsIdle

\* The move of one user, told row by row.
MovesTo(u, s, o) ==
    \A v \in User :
        /\ member'[v].status = IF v = u THEN s ELSE member[v].status
        /\ invite'[v].status = IF v = u THEN o ELSE invite[v].status

\* That is the move of TenantLifecycle on the mapped variables.
LEMMA MoveOf ==
  ASSUME NEW u \in User, NEW s, NEW o, MovesTo(u, s, o)
  PROVE  Lifecycle!Move(u, s, o)
  BY DEF MovesTo, Lifecycle!Move

\* One operation of the lifecycle is a step of it.
LEMMA NextOf ==
  ASSUME NEW u \in User,
         \/ Lifecycle!Admit(u) \/ Lifecycle!Remove(u) \/ Lifecycle!Suspend(u)
         \/ Lifecycle!Restore(u) \/ Lifecycle!MakeOffer(u) \/ Lifecycle!Withdraw(u)
         \/ Lifecycle!Vacate(u) \/ Lifecycle!Accept(u) \/ Lifecycle!Reject(u)
         \/ Lifecycle!Override(u)
  PROVE  Lifecycle!Next
  BY DEF Lifecycle!Next

\* The moves of a membership: Admit or Restore, Remove or Suspend, Vacate, Override.
LEMMA RowMoveIsNext ==
  ASSUME NEW u \in User, NEW s, MovesTo(u, s, invite[u].status),
         \/ s = "ACTIVE" /\ member[u].status \in {"NONE", "REMOVED", "SUSPENDED"}
         \/ /\ u # Owner /\ member[u].status # "NONE"
            /\ s = "REMOVED" \/ (s = "SUSPENDED" /\ member[u].status # "SUSPENDED")
         \/ s = "REMOVED" /\ member[u].status = "INVITED" /\ invite[u].status = "CANCELLED"
         \/ /\ u \in UserAdminTargets /\ member[u].status # "NONE"
            /\ s \in {"ACTIVE", "SUSPENDED", "REMOVED"}
  PROVE  Lifecycle!Next
  <1>1. /\ Lifecycle!Move(u, s, invite[u].status)
        /\ [v \in User |-> member[v].status][u] = member[u].status
        /\ [v \in User |-> invite[v].status][u] = invite[u].status
    BY DEF MovesTo, Lifecycle!Move
  <1>2. CASE s = "ACTIVE" /\ member[u].status \in {"NONE", "REMOVED", "SUSPENDED"}
    BY <1>1, <1>2, NextOf DEF Lifecycle!Admit, Lifecycle!Restore, Lifecycle!Move
  <1>3. CASE /\ u # Owner /\ member[u].status # "NONE"
             /\ s = "REMOVED" \/ (s = "SUSPENDED" /\ member[u].status # "SUSPENDED")
    BY <1>1, <1>3, NextOf DEF Lifecycle!Remove, Lifecycle!Suspend, Lifecycle!Move
  <1>4. CASE s = "REMOVED" /\ member[u].status = "INVITED" /\ invite[u].status = "CANCELLED"
    BY <1>1, <1>4, NextOf DEF Lifecycle!Vacate, Lifecycle!Move
  <1>5. CASE /\ u \in UserAdminTargets /\ member[u].status # "NONE"
             /\ s \in {"ACTIVE", "SUSPENDED", "REMOVED"}
    BY <1>1, <1>5, NextOf DEF Lifecycle!Override, Lifecycle!Move
  <1> QED
    BY <1>2, <1>3, <1>4, <1>5

\* The moves of an invite: MakeOffer, Withdraw, Accept, Reject.
LEMMA OfferMoveIsNext ==
  ASSUME NEW u \in User, NEW s, NEW o, MovesTo(u, s, o),
         \/ /\ o = "PENDING" /\ invite[u].status # "PENDING"
            /\ \/ s = "INVITED" /\ member[u].status \in {"NONE", "REMOVED"}
               \/ s = "NONE" /\ member[u].status = "NONE"
         \/ o = "CANCELLED" /\ invite[u].status # "NONE" /\ s = member[u].status
         \/ /\ o = "ACCEPTED" /\ invite[u].status = "PENDING"
            /\ s = IF member[u].status \in {"ACTIVE", "SUSPENDED"} THEN member[u].status
                                                                  ELSE "ACTIVE"
         \/ /\ o = "REJECTED" /\ invite[u].status = "PENDING"
            /\ s = IF member[u].status = "INVITED" THEN "REMOVED" ELSE member[u].status
  PROVE  Lifecycle!Next
  <1>1. /\ Lifecycle!Move(u, s, o)
        /\ [v \in User |-> member[v].status][u] = member[u].status
        /\ [v \in User |-> invite[v].status][u] = invite[u].status
    BY MoveOf
  <1>2. \/ Lifecycle!MakeOffer(u) \/ Lifecycle!Withdraw(u)
        \/ Lifecycle!Accept(u) \/ Lifecycle!Reject(u)
    BY <1>1 DEF Lifecycle!MakeOffer, Lifecycle!Withdraw, Lifecycle!Accept,
                Lifecycle!Reject, Lifecycle!Move
  <1> QED
    BY <1>2, NextOf

\* A step that leaves every status alone is no move.
LEMMA StutterOf ==
  ASSUME \A v \in User : /\ member'[v].status = member[v].status
                         /\ invite'[v].status = invite[v].status
  PROVE  UNCHANGED Lifecycle!vars
  BY DEF Lifecycle!vars

\* A write of a row, with the invite as it was, moves the user it is of.
LEMMA RowMoves ==
  ASSUME TypeOK, NEW u \in User, NEW status, NEW role, SetRow(u, status, role),
         UNCHANGED invite
  PROVE  MovesTo(u, status, invite[u].status)
  BY DEF TypeOK, SetRow, MovesTo

\* So does a write of the status of an invite.
LEMMA InviteMoves ==
  ASSUME TypeOK, NEW u \in User, NEW status, SetInviteStatus(u, status),
         \A v \in User : v # u => member'[v].status = member[v].status
  PROVE  MovesTo(u, member'[u].status, status)
  <1>1. invite' = [invite EXCEPT ![u] = [invite[u] EXCEPT !.status = status]]
    BY DEF SetInviteStatus
  <1>2. invite \in [User -> Invite] /\ invite[u] \in Invite
    BY DEF TypeOK
  <1>3. [invite[u] EXCEPT !.status = status].status = status
    BY <1>2 DEF Invite
  <1> QED
    BY <1>1, <1>2, <1>3 DEF MovesTo

\* A request that ends leaves nothing decided behind it.
LEMMA EndKeepsSerial ==
  ASSUME TypeOK, SerialInv, OneAtATime, NEW r \in Request, Done(r),
         NEW u \in User, NEW s, NEW o, MovesTo(u, s, o), UNCHANGED known,
         s = "INVITED" => o \in {"PENDING", "CANCELLED"},
         s # "NONE" => u \in known
  PROVE  SerialInv'
  <1>1. \A q \in Request : rq'[q] = Idle
    BY DoneRequests DEF OneAtATime
  <1>2. \A q \in Request : DecisionHolds(q)'
    BY <1>1 DEF DecisionHolds, At, Idle
  <1>3. InvitedHasOffer' /\ MembersAreKnown'
    BY DEF SerialInv, MovesTo, InvitedHasOffer, Lifecycle!InvitedHasOffer, MembersAreKnown
  <1> QED
    BY <1>2, <1>3 DEF SerialInv

\* A read decides on what is there.
LEMMA ReadKeepsSerial ==
  ASSUME TypeOK, SerialInv, OneAtATime, NEW r \in Request, NEW op, NEW from, NEW to, NEW seen,
         Read(r, op, from, to, seen),
         rq'[r] = [rq[r] EXCEPT !.stage = to, !.seen = seen] => DecisionHolds(r)'
  PROVE  SerialInv' /\ UNCHANGED Lifecycle!vars
  <1>1. rq'[r] = [rq[r] EXCEPT !.stage = to, !.seen = seen]
    BY DEF Read, Proceed, TypeOK
  <1>2. \A q \in Request : DecisionHolds(q)'
    BY <1>1 DEF OneAtATime
  <1>3. UNCHANGED <<member, invite, known>>
    BY DEF Read
  <1>4. InvitedHasOffer' /\ MembersAreKnown' /\ UNCHANGED Lifecycle!vars
    BY <1>3, StutterOf DEF SerialInv, InvitedHasOffer, Lifecycle!InvitedHasOffer, MembersAreKnown
  <1> QED
    BY <1>2, <1>4 DEF SerialInv

\* The reads and the writes of tenant-membership.service.js.
LEMMA MembershipSerial ==
  ASSUME IInv, SerialInv, OneAtATime, NEW r \in Request, MembershipStep(r)
  PROVE  SerialInv' /\ [Lifecycle!Next]_(Lifecycle!vars)
  <1> DEFINE u == rq[r].user
  <1>0. u \in User /\ rq[r] \in RequestState /\ TypeOK
    BY DEF IInv, TypeOK, RequestState
  <1>d. DecisionHolds(r) /\ MembersAreKnown
    BY DEF SerialInv
  <1>o. member[u].status = "INVITED" => invite[u].status \in {"PENDING", "CANCELLED"}
    BY <1>0 DEF SerialInv, InvitedHasOffer, Lifecycle!InvitedHasOffer
  <1>1. CASE AddMemberRead(r)
    BY <1>0, <1>1, ReadKeepsSerial
       DEF AddMemberRead, Read, At, DecisionHolds, RequestState
  <1>2. CASE AddMemberWrite(r)
    <2>1. /\ member[u].status \in {"NONE", "REMOVED"}
          /\ u \in known
          /\ SetRow(u, "ACTIVE", rq[r].role) /\ Done(r) /\ UNCHANGED <<invite, known>>
      BY <1>0, <1>2, <1>d DEF AddMemberWrite, CreateMember, DecisionHolds, MembersAreKnown
    <2>2. MovesTo(u, "ACTIVE", invite[u].status)
      BY <1>0, <2>1, RowMoves
    <2>3. SerialInv'
      BY <1>0, <2>1, <2>2, EndKeepsSerial
    <2>4. Lifecycle!Next
      BY <1>0, <2>1, <2>2, RowMoveIsNext
    <2> QED
      BY <2>3, <2>4
  <1>3. ASSUME NEW op \in {"updateMemberRole", "removeMember", "suspendMember"},
               ManageRead(r, op)
        PROVE  SerialInv' /\ UNCHANGED Lifecycle!vars
    BY <1>0, <1>3, ReadKeepsSerial
       DEF ManageRead, NotOwner, Read, At, DecisionHolds, RequestState
  <1>4. CASE RestoreMemberRead(r)
    BY <1>0, <1>4, ReadKeepsSerial
       DEF RestoreMemberRead, Read, At, DecisionHolds, RequestState
  <1>5. ASSUME NEW op \in {"updateMemberRole", "removeMember", "suspendMember", "restoreMember"},
               NEW status \in MemberStatus, NEW role, ManageWrite(r, op, status, role),
               status = "INVITED" => member[u].status = "INVITED"
        PROVE  /\ SerialInv'
               /\ MovesTo(u, status, invite[u].status)
               /\ member[u].status # "NONE"
    <2>1. member[u].status # "NONE" /\ u \in known
      BY <1>0, <1>5, <1>d DEF ManageWrite, At, IInv, RequestsInv, CountsOnRow, MembersAreKnown
    <2>2. SetRow(u, status, role) /\ Done(r) /\ UNCHANGED <<invite, known>>
      BY <1>5 DEF ManageWrite
    <2>3. MovesTo(u, status, invite[u].status)
      BY <1>0, <2>2, RowMoves
    <2>4. SerialInv'
      BY <1>0, <1>o, <1>5, <2>1, <2>2, <2>3, EndKeepsSerial
    <2> QED
      BY <2>1, <2>3, <2>4
  <1>6. CASE UpdateMemberRoleWrite(r)
    <2>1. member[u].status \in MemberStatus
      BY <1>0 DEF TypeOK, Row
    <2>2. SerialInv' /\ MovesTo(u, member[u].status, invite[u].status)
      BY <1>5, <1>6, <2>1 DEF UpdateMemberRoleWrite
    <2>3. UNCHANGED Lifecycle!vars
      BY <2>2, StutterOf DEF MovesTo
    <2> QED
      BY <2>2, <2>3
  <1>7. CASE RemoveMemberWrite(r)
    <2>1. ManageWrite(r, "removeMember", "REMOVED", member[u].role)
      BY <1>7 DEF RemoveMemberWrite
    <2>2. u # Owner
      BY <1>d, <2>1 DEF ManageWrite, At, DecisionHolds
    <2>3. SerialInv' /\ MovesTo(u, "REMOVED", invite[u].status) /\ member[u].status # "NONE"
      BY <1>5, <2>1
    <2>4. Lifecycle!Next
      BY <1>0, <2>2, <2>3, RowMoveIsNext
    <2> QED
      BY <2>3, <2>4
  <1>8. CASE SuspendMemberWrite(r)
    <2>1. ManageWrite(r, "suspendMember", "SUSPENDED", member[u].role)
      BY <1>8 DEF SuspendMemberWrite
    <2>2. u # Owner /\ member[u].status # "SUSPENDED"
      BY <1>d, <2>1 DEF ManageWrite, At, DecisionHolds
    <2>3. SerialInv' /\ MovesTo(u, "SUSPENDED", invite[u].status) /\ member[u].status # "NONE"
      BY <1>5, <2>1
    <2>4. Lifecycle!Next
      BY <1>0, <2>2, <2>3, RowMoveIsNext
    <2> QED
      BY <2>3, <2>4
  <1>9. CASE RestoreMemberWrite(r)
    <2>1. ManageWrite(r, "restoreMember", "ACTIVE", member[u].role)
      BY <1>9 DEF RestoreMemberWrite
    <2>2. member[u].status = "SUSPENDED"
      BY <1>d, <2>1 DEF ManageWrite, At, DecisionHolds
    <2>3. SerialInv' /\ MovesTo(u, "ACTIVE", invite[u].status)
      BY <1>5, <2>1
    <2>4. Lifecycle!Next
      BY <1>0, <2>2, <2>3, RowMoveIsNext
    <2> QED
      BY <2>3, <2>4
  <1> QED
    BY <1>1, <1>2, <1>3, <1>4, <1>6, <1>7, <1>8, <1>9 DEF MembershipStep

\* The statements of createInvite, cancelInvite and resendInvite, and of the
\* acceptance and the rejection of an invite.
LEMMA InviteSerial ==
  ASSUME IInv, SerialInv, OneAtATime, NEW r \in Request, InviteStep(r)
  PROVE  SerialInv' /\ [Lifecycle!Next]_(Lifecycle!vars)
  <1> DEFINE u == rq[r].user
  <1>0. u \in User /\ rq[r] \in RequestState /\ TypeOK
    BY DEF IInv, TypeOK, RequestState
  <1>d. DecisionHolds(r) /\ MembersAreKnown
    BY DEF SerialInv
  <1>o. member[u].status = "INVITED" => invite[u].status \in {"PENDING", "CANCELLED"}
    BY <1>0 DEF SerialInv, InvitedHasOffer, Lifecycle!InvitedHasOffer
  <1>i. invite[u] \in Invite /\ member[u] \in Row
    BY <1>0 DEF TypeOK
  <1>1. CASE CreateInviteReadInvite(r)
    BY <1>0, <1>1, ReadKeepsSerial
       DEF CreateInviteReadInvite, Read, At, DecisionHolds, RequestState
  <1>2. CASE CreateInviteReadMember(r)
    BY <1>0, <1>2, <1>d, <1>i, ReadKeepsSerial
       DEF CreateInviteReadMember, Read, At, DecisionHolds, RequestState, MembersAreKnown, Row
  <1>3. CASE CreateInviteCommit(r)
    <2> DEFINE s == IF rq[r].seen = "NO_ACCOUNT" THEN member[u].status ELSE "INVITED"
    <2>1. /\ invite[u].status # "PENDING"
          /\ member[u].status \in {"NONE", "REMOVED"}
          /\ rq[r].seen = "NO_ACCOUNT" => member[u].status = "NONE"
          /\ rq[r].seen # "NO_ACCOUNT" => u \in known
      BY <1>0, <1>3, <1>d DEF CreateInviteCommit, At, DecisionHolds
    <2>2. MovesTo(u, s, "PENDING") /\ Done(r) /\ UNCHANGED known
      BY <1>0, <1>3 DEF CreateInviteCommit, SetRow, MovesTo, TypeOK
    <2>3. SerialInv'
      BY <1>0, <2>1, <2>2, EndKeepsSerial
    <2>4. Lifecycle!Next
      BY <1>0, <2>1, <2>2, OfferMoveIsNext
    <2> QED
      BY <2>3, <2>4
  <1>4. CASE CancelInviteMark(r)
    <2>1. MovesTo(u, member[u].status, "CANCELLED") /\ invite[u].status # "NONE"
      BY <1>0, <1>4, InviteMoves DEF CancelInviteMark
    <2>2. Lifecycle!Next
      BY <1>0, <2>1, OfferMoveIsNext
    <2>3. rq'[r] = [rq[r] EXCEPT !.stage = "marked", !.seen = "NONE"]
      BY <1>0, <1>4 DEF CancelInviteMark, Proceed, TypeOK
    <2>4. DecisionHolds(r)'
      BY <1>0, <1>4, <2>1, <2>3 DEF CancelInviteMark, At, MovesTo, DecisionHolds, RequestState
    <2>5. InvitedHasOffer' /\ MembersAreKnown'
      BY <1>4, <2>1 DEF CancelInviteMark, MovesTo, SerialInv, InvitedHasOffer,
                        Lifecycle!InvitedHasOffer, MembersAreKnown
    <2> QED
      BY <2>2, <2>4, <2>5 DEF SerialInv, OneAtATime
  <1>5. CASE CancelInviteReadMember(r)
    BY <1>0, <1>5, <1>d, ReadKeepsSerial
       DEF CancelInviteReadMember, Read, At, DecisionHolds, RequestState
  <1>6. CASE CancelInviteCleanup(r)
    <2>1. member[u].status = "INVITED" /\ invite[u].status = "CANCELLED" /\ u \in known
      BY <1>0, <1>6, <1>d DEF CancelInviteCleanup, At, DecisionHolds, MembersAreKnown
    <2>2. SetRow(u, "REMOVED", member[u].role) /\ Done(r) /\ UNCHANGED <<invite, known>>
      BY <1>6 DEF CancelInviteCleanup, SetStatus
    <2>3. MovesTo(u, "REMOVED", invite[u].status)
      BY <1>0, <2>2, RowMoves
    <2>4. SerialInv'
      BY <1>0, <2>1, <2>2, <2>3, EndKeepsSerial
    <2>5. Lifecycle!Next
      BY <1>0, <2>1, <2>3, RowMoveIsNext
    <2> QED
      BY <2>4, <2>5
  <1>7. CASE ResendInviteRead(r)
    BY <1>0, <1>7, ReadKeepsSerial
       DEF ResendInviteRead, Read, At, DecisionHolds, RequestState
  <1>8. CASE ResendInviteWrite(r)
    <2>1. MovesTo(u, member[u].status, invite[u].status) /\ Done(r) /\ UNCHANGED known
      <3>1. invite' = [invite EXCEPT ![u] = [invite[u] EXCEPT !.live = TRUE]] /\ UNCHANGED member
        BY <1>8 DEF ResendInviteWrite
      <3>2. [invite[u] EXCEPT !.live = TRUE].status = invite[u].status
        BY <1>i DEF Invite
      <3> QED
        BY <1>0, <1>8, <3>1, <3>2 DEF ResendInviteWrite, MovesTo, TypeOK
    <2>2. SerialInv'
      BY <1>0, <1>d, <1>o, <2>1, EndKeepsSerial DEF MembersAreKnown
    <2>3. UNCHANGED Lifecycle!vars
      BY <2>1, StutterOf DEF MovesTo
    <2> QED
      BY <2>2, <2>3
  <1>9. ASSUME NEW v \in User, NEW op \in SelfOps, FindInvite(r, v, op)
        PROVE  SerialInv' /\ UNCHANGED Lifecycle!vars
    <2>1. /\ rq'[r] = [op |-> op, stage |-> "found", user |-> v,
                       role |-> invite[v].role, seen |-> "NONE"]
          /\ invite[v].status = "PENDING" /\ v \in known
          /\ UNCHANGED <<member, invite, known>>
      BY <1>0, <1>9 DEF FindInvite, TypeOK
    <2>2. DecisionHolds(r)'
      BY <1>9, <2>1 DEF At, DecisionHolds
    <2>3. InvitedHasOffer' /\ MembersAreKnown' /\ UNCHANGED Lifecycle!vars
      BY <2>1, StutterOf
         DEF SerialInv, InvitedHasOffer, Lifecycle!InvitedHasOffer, MembersAreKnown
    <2> QED
      BY <2>2, <2>3 DEF SerialInv, OneAtATime
  <1>10. ASSUME NEW op \in SelfOps, TxReadMember(r, op)
         PROVE  SerialInv' /\ UNCHANGED Lifecycle!vars
    BY <1>0, <1>10, <1>d, ReadKeepsSerial
       DEF TxReadMember, Read, At, DecisionHolds, RequestState
  <1>11. ASSUME rq[r].op \in SelfOps, rq[r].stage = "txRead"
         PROVE  /\ invite[u].status = "PENDING"
                /\ rq[r].seen = member[u].status
    BY <1>11, <1>d DEF DecisionHolds
  <1>12. CASE AcceptInviteCommit(r)
    <2> DEFINE s == IF member[u].status \in {"ACTIVE", "SUSPENDED"} THEN member[u].status
                                                                  ELSE "ACTIVE"
    <2>1. rq[r].op \in SelfOps /\ rq[r].stage = "txRead"
      BY <1>12 DEF AcceptInviteCommit, At
    <2>2. /\ member'[u].status = s
          /\ \A v \in User : v # u => member'[v].status = member[v].status
      BY <1>0, <1>11, <1>12, <2>1 DEF AcceptInviteCommit, SetRow, TypeOK
    <2>3. MovesTo(u, s, "ACCEPTED") /\ Done(r) /\ UNCHANGED known
      BY <1>0, <1>12, <2>2, InviteMoves DEF AcceptInviteCommit
    <2>4. u \in known
      BY <1>0, <2>1, <1>d DEF DecisionHolds
    <2>5. SerialInv'
      BY <1>0, <2>3, <2>4, EndKeepsSerial
    <2>6. Lifecycle!Next
      BY <1>0, <1>11, <2>1, <2>3, OfferMoveIsNext
    <2> QED
      BY <2>5, <2>6
  <1>13. CASE RejectInviteCommit(r)
    <2> DEFINE s == IF member[u].status = "INVITED" THEN "REMOVED" ELSE member[u].status
    <2>1. rq[r].op \in SelfOps /\ rq[r].stage = "txRead"
      BY <1>13 DEF RejectInviteCommit, At
    <2>2. /\ member'[u].status = s
          /\ \A v \in User : v # u => member'[v].status = member[v].status
      BY <1>0, <1>11, <1>13, <2>1 DEF RejectInviteCommit, SetStatus, SetRow, TypeOK
    <2>3. MovesTo(u, s, "REJECTED") /\ Done(r) /\ UNCHANGED known
      BY <1>0, <1>13, <2>2, InviteMoves DEF RejectInviteCommit
    <2>4. u \in known
      BY <1>0, <2>1, <1>d DEF DecisionHolds
    <2>5. SerialInv'
      BY <1>0, <2>3, <2>4, EndKeepsSerial
    <2>6. Lifecycle!Next
      BY <1>0, <1>11, <2>1, <2>3, OfferMoveIsNext
    <2> QED
      BY <2>5, <2>6
  <1> QED
    BY <1>1, <1>2, <1>3, <1>4, <1>5, <1>6, <1>7, <1>8, <1>9, <1>10, <1>12, <1>13
       DEF InviteStep

\* A request that starts or fails, the endpoints that write in one step, expiry
\* and signup.
LEMMA OtherSerial ==
  ASSUME IInv, SerialInv, OneAtATime,
         \/ \E r \in Request : StartRequest(r) \/ Fail(r) \/ UserAdminStep(r)
         \/ \E u \in User : ExpireInvite(u) \/ Register(u)
         \/ UNCHANGED vars
  PROVE  SerialInv' /\ [Lifecycle!Next]_(Lifecycle!vars)
  <1>0. TypeOK /\ MembersAreKnown /\ \A r \in Request : DecisionHolds(r)
    BY DEF IInv, SerialInv
  <1>1. ASSUME NEW r \in Request, StartRequest(r)
        PROVE  SerialInv' /\ UNCHANGED Lifecycle!vars
    <2>1. PICK actor \in User, u \in User, op \in RoleOps \cup PlainOps,
               role \in Role \cup {NoRole} : Authorize(r, actor, op, u, role)
      BY <1>1 DEF StartRequest
    <2>2. /\ rq'[r] = [op |-> op, stage |-> "authorized", user |-> u, role |-> role,
                       seen |-> "NONE"]
          /\ UNCHANGED <<member, invite, known>>
      BY <1>0, <2>1 DEF Authorize, TypeOK
    <2>3. DecisionHolds(r)'
      BY <2>2 DEF At, DecisionHolds
    <2>4. InvitedHasOffer' /\ MembersAreKnown' /\ UNCHANGED Lifecycle!vars
      BY <2>2, StutterOf
         DEF SerialInv, InvitedHasOffer, Lifecycle!InvitedHasOffer, MembersAreKnown
    <2> QED
      BY <1>1, <2>3, <2>4 DEF SerialInv, OneAtATime
  <1>2. ASSUME NEW r \in Request, Fail(r)
        PROVE  SerialInv' /\ UNCHANGED Lifecycle!vars
    <2>1. Done(r) /\ UNCHANGED <<member, invite, known>>
      BY <1>2 DEF Fail
    <2>2. MovesTo(Owner, member[Owner].status, invite[Owner].status)
      BY <2>1 DEF MovesTo
    <2>3. SerialInv'
      BY <1>0, <1>2, <2>1, <2>2, EndKeepsSerial
         DEF SerialInv, InvitedHasOffer, Lifecycle!InvitedHasOffer, MembersAreKnown
    <2> QED
      BY <2>1, <2>3, StutterOf
  <1>3. ASSUME NEW r \in Request, UserAdminStep(r)
        PROVE  SerialInv' /\ [Lifecycle!Next]_(Lifecycle!vars)
    <2>1. PICK u \in User, status \in MemberStatus \ {"NONE"}, role \in Role \cup {NoRole} :
              /\ UserAdminWrite(r, u, status, role)
              /\ status = member[u].status \/ status \in {"ACTIVE", "SUSPENDED", "REMOVED"}
      BY <1>0, <1>3 DEF UserAdminStep, UpdateUserByAdmin, DeleteUser, ReactivateUser,
                        UpdateUserRole, UserAdminWrite, TypeOK, Row
    <2>2. /\ u \in UserAdminTargets /\ member[u].status # "NONE" /\ IsIdle(r)
          /\ SetRow(u, status, role) /\ UNCHANGED <<invite, known, rq>>
      BY <2>1 DEF UserAdminWrite
    <2>3. MovesTo(u, status, invite[u].status)
      BY <1>0, <2>2, RowMoves
    <2>4. \A q \in Request : DecisionHolds(q)'
      <3>1. rq'[r] = rq[r] /\ rq[r].op = "none"
        BY <2>2 DEF IsIdle
      <3>2. rq[r].stage = "idle"
        BY <1>0, <1>3, <3>1 DEF DecisionHolds, TypeOK, RequestState
      <3> QED
        BY <1>3, <3>1, <3>2 DEF OneAtATime, DecisionHolds, At
    <2>5. InvitedHasOffer' /\ MembersAreKnown'
      BY <2>1, <2>2, <2>3 DEF MovesTo, SerialInv, InvitedHasOffer,
                              Lifecycle!InvitedHasOffer, MembersAreKnown
    <2>6. CASE status = member[u].status
      BY <2>3, <2>4, <2>5, <2>6, StutterOf DEF MovesTo, SerialInv
    <2>7. CASE status \in {"ACTIVE", "SUSPENDED", "REMOVED"}
      BY <2>2, <2>3, <2>4, <2>5, <2>7, RowMoveIsNext DEF SerialInv
    <2> QED
      BY <2>1, <2>6, <2>7
  <1>4. ASSUME NEW u \in User, ExpireInvite(u) \/ Register(u)
        PROVE  SerialInv' /\ UNCHANGED Lifecycle!vars
    <2>1. /\ \A v \in User : invite'[v].status = invite[v].status
          /\ known \subseteq known' /\ UNCHANGED <<member, rq>>
      <3>1. invite[u] \in Invite
        BY <1>0, <1>4 DEF TypeOK
      <3>2. [invite[u] EXCEPT !.live = FALSE].status = invite[u].status
        BY <3>1 DEF Invite
      <3> QED
        BY <1>0, <1>4, <3>2 DEF ExpireInvite, Register, TypeOK
    <2>2. \A q \in Request : rq[q].user \in User
      BY <1>0 DEF TypeOK, RequestState
    <2>3. \A q \in Request : DecisionHolds(q)'
      BY <1>0, <2>1, <2>2 DEF DecisionHolds, At, IsIdle
    <2>4. InvitedHasOffer' /\ MembersAreKnown'
      BY <2>1 DEF SerialInv, InvitedHasOffer, Lifecycle!InvitedHasOffer, MembersAreKnown
    <2> QED
      BY <2>1, <2>3, <2>4, StutterOf DEF SerialInv
  <1>5. CASE UNCHANGED vars
    BY <1>0, <1>5, StutterOf DEF vars, SerialInv, InvitedHasOffer,
       Lifecycle!InvitedHasOffer, MembersAreKnown, DecisionHolds, At
  <1> QED
    BY <1>1, <1>2, <1>3, <1>4, <1>5

\* Requests that come one at a time keep what they decided on.
LEMMA SerialStep ==
  ASSUME IInv, SerialInv, OneAtATime, [Next]_vars
  PROVE  SerialInv' /\ [Lifecycle!Next]_(Lifecycle!vars)
  BY MembershipSerial, InviteSerial, OtherSerial DEF Next

\* The tenant as createTenant leaves it is the initial state of the
\* lifecycle, with nothing decided.
LEMMA SerialInit ==
  ASSUME Init
  PROVE  SerialInv /\ Lifecycle!Init
  <1>1. \A r \in Request : DecisionHolds(r)
    BY DEF Init, DecisionHolds, At, Idle
  <1>2. InvitedHasOffer /\ MembersAreKnown
    BY DEF Init, InvitedHasOffer, Lifecycle!InvitedHasOffer, MembersAreKnown
  <1>3. Lifecycle!Init
    BY DEF Init, Lifecycle!Init
  <1> QED
    BY <1>1, <1>2, <1>3 DEF SerialInv

\* When requests come one at a time, what each decided on when it read holds
\* until it writes: expiry and signup, which may still come between, change
\* nothing it has looked at.
THEOREM SerialInductive == OneAtATime => (Spec => []SerialInv)
  <1> SUFFICES ASSUME OneAtATime PROVE Spec => []SerialInv
    OBVIOUS
  <1>1. Init => SerialInv
    BY SerialInit
  <1>2. IInv /\ SerialInv /\ [Next]_vars => SerialInv'
    BY SerialStep
  <1> QED
    BY <1>1, <1>2, Inductive, PTL DEF Spec

\* An INVITED row is then one whose invite is open, or was cancelled by a handler
\* that has not finished or never will.
THEOREM InvitedWithOffer == OneAtATime => (Spec => []InvitedHasOffer)
  <1> SUFFICES ASSUME OneAtATime PROVE Spec => []InvitedHasOffer
    OBVIOUS
  <1>1. SerialInv => InvitedHasOffer
    BY DEF SerialInv
  <1> QED
    BY <1>1, SerialInductive, PTL

\* Then the services implement TenantLifecycle: whatever statement a handler is at,
\* and wherever it stops, each step is one move of one user or none.
THEOREM ImplementsLifecycle == OneAtATime => (Spec => SerialLifecycle)
  <1> SUFFICES ASSUME OneAtATime PROVE Spec => SerialLifecycle
    OBVIOUS
  <1>1. Init => Lifecycle!Init
    BY SerialInit
  <1>2. IInv /\ SerialInv /\ [Next]_vars => [Lifecycle!Next]_(Lifecycle!vars)
    BY SerialStep
  <1> QED
    BY <1>1, <1>2, Inductive, SerialInductive, PTL DEF Spec, SerialLifecycle, Lifecycle!Spec
=============================================================================
