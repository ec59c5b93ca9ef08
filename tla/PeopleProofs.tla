----------------------------- MODULE PeopleProofs -----------------------------
(***************************************************************************)
(* Proofs about ProjectMembers, Departments and RolePermissions, for any   *)
(* users, permissions and number of overlapping requests, and about the    *)
(* composition with the sessions of a user (MCPeople).                     *)
(***************************************************************************)
EXTENDS MCPeople, TLAPS

USE FailAssumption

-----------------------------------------------------------------------------
(***************************************************************************)
(* ProjectMembers                                                          *)
(***************************************************************************)
USE CreatorAssumption

-----------------------------------------------------------------------------
(* Shapes *)

\* The state of a free slot is the state of a request.
LEMMA ProjectIdleIsRequest == Idle \in RequestState /\ Idle.stage = "idle"
  BY DEF Idle, RequestState, Operation, Role

\* A row that a write left behind.
LEMMA WrittenRow ==
  ASSUME NEW w \in Row, NEW newRole \in Role
  PROVE  /\ [w EXCEPT !.state = "removed"] \in Row
         /\ [w EXCEPT !.state = "removed"].role = w.role
         /\ [w EXCEPT !.state = "removed"].state = "removed"
         /\ [w EXCEPT !.role = newRole] \in Row
         /\ [w EXCEPT !.role = newRole].role = newRole
         /\ [w EXCEPT !.role = newRole].state = w.state
         /\ [role |-> newRole, state |-> "active"] \in Row
  BY DEF Row

\* What a write records of the checks it repeats.
LEMMA FinishFacts ==
  ASSUME TypeOK, NEW r \in Request, Finish(r)
  PROVE  /\ stale' \in BOOLEAN /\ ghost' \in BOOLEAN
         /\ rq' = [rq EXCEPT ![r] = Idle]
         /\ ~stale' => /\ ~stale
                       /\ ActorPasses(rq[r].op, rq[r].actor, rq[r].target)
                       /\ TargetPasses(rq[r].op, rq[r].actor, row[rq[r].actor].role,
                                       rq[r].target)
         /\ ~ghost' => ~ghost /\ Active(rq[r].actor)
  <1> DEFINE passes == ActorPasses(rq[r].op, rq[r].actor, rq[r].target)
             fits == TargetPasses(rq[r].op, rq[r].actor, row[rq[r].actor].role, rq[r].target)
             present == Active(rq[r].actor)
  <1>1. /\ stale' = (stale \/ ~passes \/ ~fits)
        /\ ghost' = (ghost \/ ~present)
        /\ rq' = [rq EXCEPT ![r] = Idle]
    BY DEF Finish
  <1> HIDE DEF passes, fits, present
  <1>2. stale \in BOOLEAN /\ ghost \in BOOLEAN
    BY DEF TypeOK
  <1>3. stale' \in BOOLEAN /\ ghost' \in BOOLEAN
    BY ONLY <1>1, <1>2
  <1>4. (~stale' => ~stale /\ passes /\ fits) /\ (~ghost' => ~ghost /\ present)
    BY ONLY <1>1, <1>2
  <1> QED
    BY ONLY <1>1, <1>3, <1>4 DEF passes, fits, present

-----------------------------------------------------------------------------
(* Steps that write no row *)

\* A request moves on, and the shape of its slot is right.
LEMMA ProjectMoveKeeps ==
  ASSUME IInv, NEW r \in Request, NEW q \in RequestState,
         rq' = [rq EXCEPT ![r] = q],
         UNCHANGED <<project, row, stale, ghost>>,
         q.stage \in {"authorized", "ready"} => project # "none",
         q.stage = "ready" /\ q.op \in {"remove", "role"} => Member(q.target),
         q.stage = "ready" /\ q.op = "role" => q.actor # q.target
  PROVE  IInv'
  <1>1. TypeOK'
    BY DEF IInv, TypeOK
  <1>2. ShapeInv'
    BY DEF IInv, TypeOK, ShapeInv, Member
  <1>3. OwnerRowRemains' /\ ActiveOwnerRemains'
    BY DEF IInv, OwnerRowRemains, ActiveOwnerRemains, Owns, Active, Member
  <1> QED
    BY <1>1, <1>2, <1>3 DEF IInv

\* A step that writes no row and frees its slot disturbs nothing.
LEMMA ProjectIdleKeeps ==
  ASSUME IInv, NEW r \in Request, rq' = [rq EXCEPT ![r] = Idle],
         UNCHANGED <<project, row, stale, ghost>>
  PROVE  IInv'
  BY ProjectMoveKeeps, ProjectIdleIsRequest

\* The check that opens createProject writes nothing.
LEMMA CreateProjectCheckKeeps ==
  ASSUME IInv, NEW r \in Request, CreateProjectCheck(r)
  PROVE  IInv'
  <1> DEFINE q == [Idle EXCEPT !.stage = "creating"]
  <1>1. q \in RequestState /\ q.stage = "creating"
    BY DEF Idle, RequestState, Operation, Role
  <1>2. rq' = [rq EXCEPT ![r] = q] /\ UNCHANGED <<project, row, stale, ghost>>
    BY DEF CreateProjectCheck
  <1> HIDE DEF q
  <1> QED
    BY <1>1, <1>2, ProjectMoveKeeps

\* The read of the project and of the row of the actor writes nothing.
LEMMA AuthorizeKeeps ==
  ASSUME IInv, NEW r \in Request, NEW op \in Operation, NEW actor \in User,
         NEW target \in User, Authorize(r, op, actor, target)
  PROVE  IInv'
  <1> DEFINE q == [stage |-> IF op \in OnMember THEN "authorized" ELSE "ready", op |-> op,
                   actor |-> actor, target |-> target, rank |-> row[actor].role]
  <1>1. /\ q \in RequestState
        /\ q.op = op
        /\ q.stage = "ready" => op \notin {"remove", "role"}
    BY DEF IInv, TypeOK, Row, RequestState, OnMember
  <1>2. /\ rq' = [rq EXCEPT ![r] = q]
        /\ UNCHANGED <<project, row, stale, ghost>>
        /\ project # "none"
    BY DEF Authorize
  <1> HIDE DEF q
  <1> QED
    BY <1>1, <1>2, ProjectMoveKeeps

\* The read of the row of the target settles what ShapeInv says of the
\* write.
LEMMA ReadTargetKeeps ==
  ASSUME IInv, NEW r \in Request, ReadTarget(r)
  PROVE  IInv'
  <1> DEFINE q == [rq[r] EXCEPT !.stage = "ready"]
  <1>1. rq[r] \in RequestState
    BY DEF IInv, TypeOK
  <1>2. /\ q \in RequestState
        /\ q.stage = "ready" /\ q.op = rq[r].op /\ q.actor = rq[r].actor
        /\ q.target = rq[r].target
    BY ONLY <1>1 DEF RequestState
  <1>3. /\ rq' = [rq EXCEPT ![r] = q]
        /\ UNCHANGED <<project, row, stale, ghost>>
        /\ project # "none"
    BY DEF ReadTarget, IInv, ShapeInv
  <1>4. /\ rq[r].op = "remove" => Member(rq[r].target)
        /\ rq[r].op = "role" => Member(rq[r].target) /\ rq[r].actor # rq[r].target
    BY DEF ReadTarget, TargetPasses, MayRemove
  <1> HIDE DEF q
  <1> QED
    BY <1>2, <1>3, <1>4, ProjectMoveKeeps

-----------------------------------------------------------------------------
(* Steps that write a row *)

\* What a write leaves: the other rows, an existing target, an idle slot.  The
\* owners are left to the lemma of each write.
LEMMA WriteKeepsShape ==
  ASSUME IInv, NEW r \in Request, Ready(r, rq[r].op), Finish(r), NEW w \in Row,
         w.state # "none", row' = [row EXCEPT ![rq[r].target] = w],
         project' = project
  PROVE  /\ TypeOK' /\ ShapeInv' /\ project # "none"
         /\ row'[rq[r].target] = w
         /\ \A u \in User : u # rq[r].target => row'[u] = row[u]
         /\ rq[r].actor \in User /\ rq[r].target \in User
  <1>1. /\ rq[r].actor \in User /\ rq[r].target \in User
        /\ rq' = [rq EXCEPT ![r] = Idle] /\ stale' \in BOOLEAN /\ ghost' \in BOOLEAN
    BY FinishFacts DEF IInv, TypeOK, RequestState
  <1>2. /\ row'[rq[r].target] = w /\ row' \in [User -> Row]
        /\ \A u \in User : u # rq[r].target => row'[u] = row[u]
    BY <1>1 DEF IInv, TypeOK
  <1>3. project # "none"
    BY DEF IInv, ShapeInv, Ready
  <1>4. TypeOK'
    BY <1>1, <1>2, ProjectIdleIsRequest DEF IInv, TypeOK
  <1>5. \A u \in User : Member(u) => Member(u)'
    BY <1>1, <1>2 DEF Member
  <1>6. ShapeInv'
    <2>1. \A p \in Request : rq'[p] = IF p = r THEN Idle ELSE rq[p]
      BY <1>1 DEF IInv, TypeOK
    <2>2. \A p \in Request : rq[p].target \in User
      BY DEF IInv, TypeOK, RequestState
    <2> QED
      BY <1>3, <1>5, <2>1, <2>2, ProjectIdleIsRequest DEF IInv, ShapeInv
  <1> QED
    BY <1>1, <1>2, <1>3, <1>4, <1>6

\* The owners survive a write that spares them.
LEMMA OwnersSurvive ==
  ASSUME IInv, NEW r \in Request, Finish(r), project # "none", UNCHANGED project,
         NEW target \in User,
         \A u \in User : u # target => row'[u] = row[u],
         ~stale' => \/ ~Owns(target)
                    \/ /\ rq[r].actor \in User /\ rq[r].actor # target
                       /\ Owns(rq[r].actor)
  PROVE  OwnerRowRemains' /\ ActiveOwnerRemains'
  <1>1. /\ ~stale' => ~stale
        /\ ~ghost' => ~ghost /\ Active(rq[r].actor)
    BY FinishFacts DEF IInv
  <1>2. \A u \in User : u # target => (Owns(u) => Owns(u)') /\ (Active(u) => Active(u)')
    BY DEF Owns, Member, Active
  <1>3. OwnerRowRemains'
    BY <1>1, <1>2 DEF IInv, OwnerRowRemains
  <1>4. ActiveOwnerRemains'
    BY <1>1, <1>2 DEF IInv, ActiveOwnerRemains
  <1> QED
    BY <1>3, <1>4

\* addMember adds a row and takes no owner away.
LEMMA ProjectAddMemberKeeps ==
  ASSUME IInv, NEW r \in Request, AddMemberWrite(r)
  PROVE  IInv'
  <1>1. PICK newRole \in Role :
            row' = [row EXCEPT ![rq[r].target] = [role |-> newRole, state |-> "active"]]
    BY DEF AddMemberWrite
  <1>2. Ready(r, rq[r].op) /\ rq[r].op = "add" /\ Finish(r) /\ project' = project
    BY DEF AddMemberWrite, Ready
  <1> DEFINE w == [role |-> newRole, state |-> "active"]
  <1>3. w \in Row /\ w.state # "none"
    BY DEF Row
  <1> HIDE DEF w
  <1>4. /\ TypeOK' /\ ShapeInv' /\ project # "none" /\ rq[r].target \in User
        /\ \A u \in User : u # rq[r].target => row'[u] = row[u]
    BY <1>1, <1>2, <1>3, WriteKeepsShape DEF w
  <1>5. ~stale' => ~Owns(rq[r].target)
    BY <1>2, FinishFacts DEF IInv, TargetPasses, Owns
  <1> QED
    BY <1>2, <1>4, <1>5, OwnersSurvive DEF IInv

\* removeMember keeps an owner, its actor, unless its checks no longer hold.
LEMMA ProjectRemoveMemberKeeps ==
  ASSUME IInv, NEW r \in Request, RemoveMemberWrite(r)
  PROVE  IInv'
  <1>1. /\ Ready(r, rq[r].op) /\ rq[r].op = "remove" /\ Finish(r) /\ project' = project
        /\ row' = [row EXCEPT ![rq[r].target] = [@ EXCEPT !.state = "removed"]]
    BY DEF RemoveMemberWrite, Ready
  <1>2. rq[r].actor \in User /\ rq[r].target \in User /\ row[rq[r].target] \in Row
    BY DEF IInv, TypeOK, RequestState
  <1> DEFINE w == [row[rq[r].target] EXCEPT !.state = "removed"]
  <1>3. w \in Row /\ w.state # "none" /\ row' = [row EXCEPT ![rq[r].target] = w]
    BY <1>1, <1>2, WrittenRow DEF IInv, TypeOK, Row, Role
  <1> HIDE DEF w
  <1>4. /\ TypeOK' /\ ShapeInv' /\ project # "none"
        /\ \A u \in User : u # rq[r].target => row'[u] = row[u]
    BY <1>1, <1>3, WriteKeepsShape
  <1>5. ~stale' => \/ ~Owns(rq[r].target)
                   \/ rq[r].actor # rq[r].target /\ Owns(rq[r].actor)
    <2> SUFFICES ASSUME ~stale', Owns(rq[r].target)
                 PROVE  rq[r].actor # rq[r].target /\ Owns(rq[r].actor)
      OBVIOUS
    <2>1. MayRemove(rq[r].actor, row[rq[r].actor].role, rq[r].target)
      BY <1>1, FinishFacts DEF IInv, TargetPasses
    <2>2. rq[r].actor # rq[r].target /\ row[rq[r].actor].role # "MAINTAINER"
      BY <2>1 DEF MayRemove, Owns
    <2>3. Leads(rq[r].actor)
      BY <1>1, <2>2, FinishFacts DEF IInv, ActorPasses
    <2> QED
      BY <2>2, <2>3 DEF Leads, Owns
  <1> QED
    BY <1>1, <1>2, <1>4, <1>5, OwnersSurvive DEF IInv

\* updateMemberRole keeps an owner, its actor, unless its checks no longer
\* hold.
LEMMA UpdateMemberRoleKeeps ==
  ASSUME IInv, NEW r \in Request, UpdateMemberRoleWrite(r)
  PROVE  IInv'
  <1>1. PICK newRole \in Role :
            row' = [row EXCEPT ![rq[r].target] = [@ EXCEPT !.role = newRole]]
    BY DEF UpdateMemberRoleWrite
  <1>2. Ready(r, rq[r].op) /\ rq[r].op = "role" /\ Finish(r) /\ project' = project
    BY DEF UpdateMemberRoleWrite, Ready
  <1>3. /\ rq[r].actor \in User /\ rq[r].target \in User /\ row[rq[r].target] \in Row
        /\ rq[r].actor # rq[r].target /\ row[rq[r].target].state # "none"
    BY <1>2 DEF IInv, TypeOK, RequestState, ShapeInv, Ready, Member
  <1> DEFINE w == [row[rq[r].target] EXCEPT !.role = newRole]
  <1>4. w \in Row /\ w.state # "none" /\ row' = [row EXCEPT ![rq[r].target] = w]
    BY <1>1, <1>3, WrittenRow DEF IInv, TypeOK
  <1> HIDE DEF w
  <1>5. /\ TypeOK' /\ ShapeInv' /\ project # "none"
        /\ \A u \in User : u # rq[r].target => row'[u] = row[u]
    BY <1>2, <1>4, WriteKeepsShape
  <1>6. ~stale' => Owns(rq[r].actor)
    BY <1>2, FinishFacts DEF IInv, ActorPasses
  <1> QED
    BY <1>2, <1>3, <1>5, <1>6, OwnersSurvive DEF IInv

-----------------------------------------------------------------------------
(* The project itself *)

\* createProject makes its creator the owner.
LEMMA CreateProjectKeeps ==
  ASSUME IInv, NEW r \in Request, CreateProjectCommit(r)
  PROVE  IInv'
  <1>1. /\ project' = "live" /\ rq' = [rq EXCEPT ![r] = Idle]
        /\ row' = [row EXCEPT ![Creator] = [role |-> "OWNER", state |-> "active"]]
        /\ UNCHANGED <<stale, ghost>> /\ project = "none"
    BY DEF CreateProjectCommit
  <1>2. row' \in [User -> Row] /\ row'[Creator] = [role |-> "OWNER", state |-> "active"]
    BY <1>1 DEF IInv, TypeOK, Row, Role
  <1>3. TypeOK'
    BY <1>1, <1>2, ProjectIdleIsRequest DEF IInv, TypeOK
  <1>4. ShapeInv'
    <2>1. \A p \in Request : rq[p].stage \notin {"authorized", "ready"}
      BY <1>1 DEF IInv, ShapeInv
    <2>2. \A p \in Request : rq'[p].stage \notin {"authorized", "ready"}
      BY <1>1, <2>1, ProjectIdleIsRequest DEF IInv, TypeOK
    <2> QED
      BY <1>1, <2>2 DEF ShapeInv
  <1>5. OwnerRowRemains' /\ ActiveOwnerRemains'
    BY <1>2 DEF OwnerRowRemains, ActiveOwnerRemains, Owns, Active, Member
  <1> QED
    BY <1>3, <1>4, <1>5 DEF IInv

\* updateProject and deleteProject leave the rows alone.
LEMMA ProjectRowKeeps ==
  ASSUME IInv, NEW r \in Request, UpdateProjectWrite(r) \/ DeleteProjectWrite(r)
  PROVE  IInv'
  <1>1. /\ project' \in {"live", "deleted"} /\ UNCHANGED row /\ rq' = [rq EXCEPT ![r] = Idle]
        /\ stale' \in BOOLEAN /\ ghost' \in BOOLEAN
        /\ ~stale' => ~stale
        /\ ~ghost' => ~ghost
    BY FinishFacts DEF IInv, UpdateProjectWrite, DeleteProjectWrite
  <1>2. project # "none"
    BY DEF IInv, ShapeInv, UpdateProjectWrite, DeleteProjectWrite, Ready
  <1>3. TypeOK'
    BY <1>1, ProjectIdleIsRequest DEF IInv, TypeOK
  <1>4. ShapeInv'
    BY <1>1, ProjectIdleIsRequest DEF IInv, TypeOK, ShapeInv, Member
  <1>5. OwnerRowRemains' /\ ActiveOwnerRemains'
    BY <1>1, <1>2 DEF IInv, OwnerRowRemains, ActiveOwnerRemains, Owns, Active, Member
  <1> QED
    BY <1>3, <1>4, <1>5 DEF IInv

-----------------------------------------------------------------------------
(* Theorems *)

\* The invariant of the projects holds before there is one.
LEMMA ProjectInitIInv == Init => IInv
  <1> SUFFICES ASSUME Init PROVE IInv
    OBVIOUS
  <1>1. TypeOK
    BY ProjectIdleIsRequest DEF Init, TypeOK, Row, NoRow, Role
  <1>2. ShapeInv
    BY ProjectIdleIsRequest DEF Init, ShapeInv, Member, NoRow
  <1> QED
    BY <1>1, <1>2 DEF Init, IInv, OwnerRowRemains, ActiveOwnerRemains

\* Every step on a project keeps its invariant.
LEMMA ProjectNextKeeps == IInv /\ [Next]_vars => IInv'
  <1> SUFFICES ASSUME IInv, [Next]_vars PROVE IInv'
    OBVIOUS
  <1>1. CASE UNCHANGED vars
    BY <1>1 DEF vars, IInv, TypeOK, ShapeInv, OwnerRowRemains, ActiveOwnerRemains,
                Owns, Active, Member
  <1>2. ASSUME NEW r \in Request, Step(r) PROVE IInv'
    <2>1. CASE CreateProjectCheck(r)
      BY <2>1, CreateProjectCheckKeeps
    <2>2. CASE CreateProjectCommit(r)
      BY <2>2, CreateProjectKeeps
    <2>3. CASE \E op \in Operation, actor \in User, target \in User :
                   Authorize(r, op, actor, target)
      BY <2>3, AuthorizeKeeps
    <2>4. CASE ReadTarget(r)
      BY <2>4, ReadTargetKeeps
    <2>5. CASE AddMemberWrite(r)
      BY <2>5, ProjectAddMemberKeeps
    <2>6. CASE RemoveMemberWrite(r)
      BY <2>6, ProjectRemoveMemberKeeps
    <2>7. CASE UpdateMemberRoleWrite(r)
      BY <2>7, UpdateMemberRoleKeeps
    <2>8. CASE UpdateProjectWrite(r) \/ DeleteProjectWrite(r)
      BY <2>8, ProjectRowKeeps
    <2>9. CASE RefuseTarget(r) \/ Fail(r)
      BY <2>9, ProjectIdleKeeps DEF RefuseTarget, Fail
    <2> QED
      BY <1>2, <2>1, <2>2, <2>3, <2>4, <2>5, <2>6, <2>7, <2>8, <2>9 DEF Step
  <1> QED
    BY <1>1, <1>2 DEF Next

\* The shape of rows and requests, and the owners, in every reachable state.
THEOREM ProjectInductive == Spec => []IInv
  BY ProjectInitIInv, ProjectNextKeeps, PTL DEF Spec

\* The rows and the requests keep their shape.
THEOREM ProjectTypeCorrect == Spec => []TypeOK
  <1>1. IInv => TypeOK
    BY DEF IInv
  <1> QED
    BY <1>1, ProjectInductive, PTL

\* For any users and any overlap: as long as no write meets rows its own checks
\* would refuse, somebody passes the owner's checks.
THEOREM OwnersRemain == Spec => []OwnerRowRemains
  <1>1. IInv => OwnerRowRemains
    BY DEF IInv
  <1> QED
    BY <1>1, ProjectInductive, PTL

\* As long as no removed member acts either, that owner is still a member.
THEOREM ActiveOwnersRemain == Spec => []ActiveOwnerRemains
  <1>1. IInv => ActiveOwnerRemains
    BY DEF IInv
  <1> QED
    BY <1>1, ProjectInductive, PTL

HIDE CreatorAssumption

-----------------------------------------------------------------------------
(***************************************************************************)
(* Departments                                                             *)
(***************************************************************************)
USE NowhereAssumption

-----------------------------------------------------------------------------
(* Shapes *)

\* The state of a free slot is the state of a request.
LEMMA DeptIdleIsRequest == DeptIdle \in DeptRequest /\ DeptIdle.stage = "idle"
  BY DEF DeptIdle, DeptRequest

\* One slot is written.
LEMMA DeptSlots ==
  ASSUME DeptTypeOK, NEW r \in Request, NEW w \in DeptRequest,
         deptRq' = [deptRq EXCEPT ![r] = w]
  PROVE  /\ deptRq' \in [Request -> DeptRequest]
         /\ deptRq'[r] = w
         /\ \A p \in Request \ {r} : deptRq'[p] = deptRq[p]
  BY DEF DeptTypeOK

\* A request moves on to a stage, or is over.
LEMMA DeptGoSlot ==
  ASSUME DeptTypeOK, NEW r \in Request, NEW stage \in DeptStage, DeptGo(r, stage),
         deptRq[r].dept \in Department,
         deptRq[r].user \in Employee \/ stage \in {"checkName", "update"}
  PROVE  \E w \in DeptRequest :
            /\ deptRq' = [deptRq EXCEPT ![r] = w]
            /\ w.stage = stage /\ w.dept = deptRq[r].dept /\ w.user = deptRq[r].user
  <1> DEFINE w == [stage |-> stage, dept |-> deptRq[r].dept, user |-> deptRq[r].user]
  <1>1. deptRq[r] \in DeptRequest
    BY DEF DeptTypeOK
  <1>2. w = [deptRq[r] EXCEPT !.stage = stage]
    BY <1>1 DEF DeptRequest
  <1>3. deptRq' = [deptRq EXCEPT ![r] = w]
    BY <1>2 DEF DeptGo
  <1>4. w \in DeptRequest
    BY <1>1 DEF DeptRequest
  <1> QED
    BY <1>3, <1>4

\* A department that exists has an employee for its manager.
LEMMA ManagerIsEmployee ==
  ASSUME DeptTypeOK, NEW d \in Department, dept[d].state # "none"
  PROVE  dept[d].manager \in Employee /\ dept[d].state \in {"live", "deleted"}
  <1>1. dept[d] \in Dept
    BY DEF DeptTypeOK
  <1> QED
    BY <1>1 DEF Dept

\* Who the stages of a row are about.
LEMMA DeptRowStage ==
  ASSUME DeptTypeOK, NEW r \in Request,
         deptRq[r].stage \in {"created", "add", "added", "remove", "removed", "promote", "promoted"}
  PROVE  deptRq[r].dept \in Department /\ deptRq[r].user \in Employee
  <1>1. deptRq[r] \in DeptRequest
    BY DEF DeptTypeOK
  <1> QED
    BY <1>1 DEF DeptRequest

-----------------------------------------------------------------------------
(* Steps *)

\* A step of a request under way: it writes its own department and the row of its
\* own user there, and still finds what it relies on.
LEMMA DeptStepKeeps ==
  ASSUME DeptIInv, NEW r \in Request, deptRq[r].stage # "idle",
         NEW w \in DeptRequest, deptRq' = [deptRq EXCEPT ![r] = w],
         w.stage # "idle" => w.dept = deptRq[r].dept /\ w.user = deptRq[r].user,
         dept' \in [Department -> Dept], seat' \in [Department -> [Employee -> Seat]],
         home' \in [Employee -> Department \cup {Nowhere}], halfway' \subseteq Employee,
         UNCHANGED <<busyDept, busyUser>>,
         \A d \in Department \ {deptRq[r].dept} : dept'[d] = dept[d] /\ seat'[d] = seat[d],
         \A d \in Department : dept[d].state # "none" => dept'[d].state # "none",
         \A d \in Department, u \in Employee \ {deptRq[r].user} : seat'[d][u] = seat[d][u],
         ReliesOn(w)', ManagerStaysMember', HomeHasRow'
  PROVE  DeptIInv'
  <1>1. DeptTypeOK /\ OverlapsRecorded
    BY DEF DeptIInv
  <1>2. /\ deptRq' \in [Request -> DeptRequest] /\ deptRq'[r] = w
        /\ \A p \in Request \ {r} : deptRq'[p] = deptRq[p]
    BY <1>1, DeptSlots
  <1>3. DeptTypeOK'
    BY <1>1, <1>2 DEF DeptTypeOK
  <1>4. OverlapsRecorded'
    BY <1>1, <1>2 DEF OverlapsRecorded
  <1>5. ASSUME NEW p \in Request
        PROVE  ReliesOn(deptRq[p])'
    <2>1. CASE p = r
      BY <1>2, <2>1 DEF ReliesOn
    <2>2. CASE p # r /\ deptRq[p].stage # "idle"
      <3>1. ReliesOn(deptRq[p]) /\ deptRq'[p] = deptRq[p] /\ deptRq[p].dept \in Department
        BY <1>2, <2>2 DEF DeptIInv, ReliesOn
      <3>2. deptRq[p].dept \notin busyDept => deptRq[p].dept # deptRq[r].dept
        BY <1>1, <2>2 DEF OverlapsRecorded
      <3>3. deptRq[p].user \notin busyUser \cup {Nowhere} => deptRq[p].user # deptRq[r].user
        BY <1>1, <2>2 DEF OverlapsRecorded
      <3>4. deptRq[p].stage \in {"created", "added", "promoted"} => deptRq[p].user \in Employee
        BY <1>1, DeptRowStage
      <3>5. deptRq[p].user \in Employee \cup {Nowhere}
        BY <1>1 DEF DeptTypeOK, DeptRequest
      <3> QED
        BY <3>1, <3>2, <3>3, <3>4, <3>5 DEF ReliesOn
    <2>3. CASE p # r /\ deptRq[p].stage = "idle"
      BY <1>2, <2>3 DEF ReliesOn
    <2> QED
      BY <2>1, <2>2, <2>3
  <1> QED
    BY <1>3, <1>4, <1>5 DEF DeptIInv

\* A request that begins records whom it meets.
LEMMA DeptBeginShape ==
  ASSUME DeptIInv, NEW r \in Request, NEW d \in Department, NEW u \in Employee \cup {Nowhere},
         NEW stage \in DeptStage, DeptBegin(r, d, u, stage),
         [stage |-> stage, dept |-> d, user |-> u] \in DeptRequest
  PROVE  /\ deptRq' \in [Request -> DeptRequest]
         /\ deptRq'[r] = [stage |-> stage, dept |-> d, user |-> u]
         /\ \A p \in Request \ {r} : deptRq'[p] = deptRq[p]
         /\ busyDept \subseteq busyDept' /\ busyDept' \subseteq Department
         /\ busyUser \subseteq busyUser' /\ busyUser' \subseteq Employee
         /\ halfway' = halfway
         /\ OverlapsRecorded'
  <1> DEFINE w == [stage |-> stage, dept |-> d, user |-> u]
             others == {q \in Request \ {r} : deptRq[q].stage # "idle"}
  <1>1. DeptTypeOK /\ OverlapsRecorded
    BY DEF DeptIInv
  <1>2. /\ deptRq' = [deptRq EXCEPT ![r] = w]
        /\ busyDept' = IF \E q \in others : deptRq[q].dept = d THEN busyDept \cup {d} ELSE busyDept
        /\ busyUser' = IF \E q \in others : deptRq[q].user = u
                       THEN busyUser \cup ({u} \ {Nowhere}) ELSE busyUser
        /\ halfway' = halfway
    BY DEF DeptBegin
  <1>3. w.stage = stage /\ w.dept = d /\ w.user = u
    OBVIOUS
  <1> HIDE DEF w
  <1>4. /\ deptRq' \in [Request -> DeptRequest] /\ deptRq'[r] = w
        /\ \A p \in Request \ {r} : deptRq'[p] = deptRq[p]
    BY <1>1, <1>2, DeptSlots DEF w
  <1>5. /\ busyDept \subseteq busyDept' /\ busyDept' \subseteq Department
        /\ busyUser \subseteq busyUser' /\ busyUser' \subseteq Employee
    BY <1>1, <1>2 DEF DeptTypeOK
  <1>6. ASSUME NEW p \in Request \ {r}, deptRq[p].stage # "idle"
        PROVE  /\ deptRq[p].dept = d => d \in busyDept'
               /\ deptRq[p].user = u => u \in busyUser' \cup {Nowhere}
    BY <1>2, <1>6
  <1>7. OverlapsRecorded'
    <2> SUFFICES ASSUME NEW p \in Request, NEW q \in Request, p # q,
                        deptRq'[p].stage # "idle", deptRq'[q].stage # "idle"
                 PROVE  /\ deptRq'[p].dept = deptRq'[q].dept => deptRq'[p].dept \in busyDept'
                        /\ deptRq'[p].user = deptRq'[q].user
                                => deptRq'[p].user \in busyUser' \cup {Nowhere}
      BY DEF OverlapsRecorded
    <2>1. CASE p = r
      BY <1>3, <1>4, <1>6, <2>1
    <2>2. CASE q = r
      BY <1>3, <1>4, <1>6, <2>2
    <2>3. CASE p # r /\ q # r
      BY <1>1, <1>4, <1>5, <2>3 DEF OverlapsRecorded
    <2> QED
      BY <2>1, <2>2, <2>3
  <1> QED
    BY <1>2, <1>4, <1>5, <1>7 DEF w

\* A request that only reads.
LEMMA DeptReadKeeps ==
  ASSUME DeptIInv, NEW r \in Request, NEW d \in Department, NEW u \in Employee \cup {Nowhere},
         NEW stage \in DeptStage, DeptBegin(r, d, u, stage), UNCHANGED <<dept, seat, home>>,
         [stage |-> stage, dept |-> d, user |-> u] \in DeptRequest,
         ReliesOn([stage |-> stage, dept |-> d, user |-> u])
  PROVE  DeptIInv'
  <1>1. /\ deptRq' \in [Request -> DeptRequest]
        /\ deptRq'[r] = [stage |-> stage, dept |-> d, user |-> u]
        /\ \A p \in Request \ {r} : deptRq'[p] = deptRq[p]
        /\ busyDept \subseteq busyDept' /\ busyDept' \subseteq Department
        /\ busyUser \subseteq busyUser' /\ busyUser' \subseteq Employee
        /\ halfway' = halfway
        /\ OverlapsRecorded'
    BY DeptBeginShape
  <1>2. DeptTypeOK' /\ ManagerStaysMember' /\ HomeHasRow'
    BY <1>1 DEF DeptIInv, DeptTypeOK, ManagerStaysMember, HomeHasRow
  <1>3. ASSUME NEW q, ReliesOn(q)
        PROVE  ReliesOn(q)'
    BY <1>1, <1>3 DEF ReliesOn
  <1>4. ASSUME NEW p \in Request
        PROVE  ReliesOn(deptRq[p])'
    <2>1. CASE p = r
      BY <1>1, <1>3, <2>1 DEF ReliesOn
    <2>2. CASE p # r
      <3>1. ReliesOn(deptRq[p]) /\ deptRq'[p] = deptRq[p]
        BY <1>1, <2>2 DEF DeptIInv
      <3> QED
        BY <1>1, <3>1 DEF ReliesOn
    <2> QED
      BY <2>1, <2>2
  <1> QED
    BY <1>1, <1>2, <1>4 DEF DeptIInv

\* A new department has no request on it, and its creation writes row and
\* manager together.
LEMMA DeptCreateKeeps ==
  ASSUME DeptIInv, NEW r \in Request, NEW d \in Department, NEW u \in Employee,
         CreateDepartment(r, d, u)
  PROVE  DeptIInv'
  <1> DEFINE w == [stage |-> "created", dept |-> d, user |-> u]
  <1>1. DeptTypeOK
    BY DEF DeptIInv
  <1>2. w \in DeptRequest /\ "created" \in DeptStage /\ u \in Employee \cup {Nowhere}
    BY DEF DeptRequest, DeptStage
  <1>3. /\ dept[d].state = "none"
        /\ dept' = [dept EXCEPT ![d] = [state |-> "live", manager |-> u]]
        /\ seat' = [seat EXCEPT ![d][u] = "live"]
        /\ home' = home
        /\ DeptBegin(r, d, u, "created")
    BY DEF CreateDepartment, InsertDepartment
  <1>4. /\ deptRq' \in [Request -> DeptRequest] /\ deptRq'[r] = w
        /\ \A p \in Request \ {r} : deptRq'[p] = deptRq[p]
        /\ busyDept \subseteq busyDept' /\ busyDept' \subseteq Department
        /\ busyUser \subseteq busyUser' /\ busyUser' \subseteq Employee
        /\ halfway' = halfway
        /\ OverlapsRecorded'
    BY <1>2, <1>3, DeptBeginShape
  <1>5. /\ dept' \in [Department -> Dept] /\ seat' \in [Department -> [Employee -> Seat]]
        /\ dept'[d].state = "live" /\ dept'[d].manager = u /\ seat'[d][u] = "live"
        /\ \A e \in Department \ {d} : dept'[e] = dept[e] /\ seat'[e] = seat[e]
        /\ \A e \in Department, v \in Employee : seat[e][v] = "live" => seat'[e][v] = "live"
    BY <1>1, <1>3 DEF DeptTypeOK, Dept, Seat
  <1>6. DeptTypeOK'
    BY <1>1, <1>3, <1>4, <1>5 DEF DeptTypeOK
  <1>7. ManagerStaysMember'
    <2> SUFFICES ASSUME NEW e \in Department, dept'[e].state # "none", e \notin busyDept'
                 PROVE  seat'[e][dept'[e].manager] = "live"
      BY DEF ManagerStaysMember
    <2>1. CASE e = d
      BY <1>5, <2>1
    <2>2. CASE e # d
      BY <1>4, <1>5, <2>2 DEF DeptIInv, ManagerStaysMember
    <2> QED
      BY <2>1, <2>2
  <1>8. HomeHasRow'
    BY <1>1, <1>3, <1>4, <1>5 DEF DeptIInv, HomeHasRow, DeptTypeOK
  <1>9. ASSUME NEW p \in Request
        PROVE  ReliesOn(deptRq[p])'
    <2>1. CASE p = r
      BY <1>4, <1>5, <2>1 DEF ReliesOn
    <2>2. CASE p # r /\ deptRq[p].stage # "idle"
      <3>1. /\ ReliesOn(deptRq[p]) /\ deptRq'[p] = deptRq[p]
            /\ deptRq[p].dept \in Department \ {d}
        BY <1>3, <1>4, <2>2 DEF DeptIInv, ReliesOn
      <3> QED
        BY <1>4, <1>5, <3>1 DEF ReliesOn
    <2>3. CASE p # r /\ deptRq[p].stage = "idle"
      BY <1>4, <2>3 DEF ReliesOn
    <2> QED
      BY <2>1, <2>2, <2>3
  <1> QED
    BY <1>4, <1>6, <1>7, <1>8, <1>9 DEF DeptIInv

\* A request that starts writes nothing, and is recorded as busy with those
\* it meets.
LEMMA DeptBeginKeeps ==
  ASSUME DeptIInv, NEW r \in Request, NEW d \in Department, NEW u \in Employee \cup {Nowhere},
         \/ u \in Employee /\ AddMemberRead(r, d, u)
         \/ u \in Employee /\ RemoveMemberRead(r, d, u)
         \/ UpdateDepartmentRead(r, d, u)
         \/ u = Nowhere /\ DeleteDepartmentRead(r, d)
  PROVE  DeptIInv'
  <1> DEFINE w(stage) == [stage |-> stage, dept |-> d, user |-> u]
  <1>1. /\ dept[d].state = "live" /\ UNCHANGED <<dept, seat, home>>
    BY DEF AddMemberRead, RemoveMemberRead, UpdateDepartmentRead, DeleteDepartmentRead, Found
  <1>2. CASE u \in Employee /\ AddMemberRead(r, d, u)
    <2>1. w("add") \in DeptRequest /\ ReliesOn(w("add"))
      BY <1>1, <1>2 DEF DeptRequest, DeptStage, ReliesOn
    <2> QED
      BY <1>1, <1>2, <2>1, DeptReadKeeps DEF AddMemberRead, Found, DeptStage
  <1>3. CASE u \in Employee /\ RemoveMemberRead(r, d, u)
    <2>1. dept[d].manager # u
      BY <1>3 DEF RemoveMemberRead, Found
    <2>2. w("remove") \in DeptRequest /\ ReliesOn(w("remove"))
      BY <1>1, <1>3, <2>1 DEF DeptRequest, DeptStage, ReliesOn
    <2> QED
      BY <1>1, <1>3, <2>2, DeptReadKeeps DEF RemoveMemberRead, DeptStage, Found
  <1>4. CASE UpdateDepartmentRead(r, d, u)
    <2>1. CASE u \in {Nowhere, dept[d].manager}
      <3>1. d \notin busyDept => seat[d][dept[d].manager] = "live"
        BY <1>1 DEF DeptIInv, ManagerStaysMember
      <3>2. w("checkName") \in DeptRequest /\ ReliesOn(w("checkName"))
        BY <1>1, <2>1, <3>1 DEF DeptRequest, ReliesOn
      <3>3. DeptBegin(r, d, u, "checkName")
        BY <1>4, <2>1 DEF UpdateDepartmentRead, Found
      <3> QED
        BY <1>1, <3>2, <3>3, DeptReadKeeps DEF DeptStage
    <2>2. CASE u \notin {Nowhere, dept[d].manager}
      <3>1. w("promote") \in DeptRequest /\ ReliesOn(w("promote"))
        BY <1>1, <2>2 DEF DeptRequest, DeptStage, ReliesOn
      <3>2. DeptBegin(r, d, u, "promote")
        BY <1>4, <2>2 DEF UpdateDepartmentRead, Found
      <3> QED
        BY <1>1, <3>1, <3>2, DeptReadKeeps DEF DeptStage
    <2> QED
      BY <2>1, <2>2
  <1>5. CASE u = Nowhere /\ DeleteDepartmentRead(r, d)
    <2>1. w("delete") \in DeptRequest /\ ReliesOn(w("delete"))
      BY <1>1, <1>5 DEF DeptRequest, ReliesOn
    <2>2. DeptBegin(r, d, u, "delete")
      BY <1>5 DEF DeleteDepartmentRead, Found
    <2> QED
      BY <1>1, <2>1, <2>2, DeptReadKeeps DEF DeptStage
  <1> QED
    BY <1>2, <1>3, <1>4, <1>5

\* addDepartmentMember and removeDepartmentMember: the user is halfway.
LEMMA DeptRowKeeps ==
  ASSUME DeptIInv, NEW r \in Request, AddDepartmentMember(r) \/ RemoveDepartmentMember(r)
  PROVE  DeptIInv'
  <1> DEFINE d == deptRq[r].dept
             u == deptRq[r].user
  <1>1. DeptTypeOK /\ ReliesOn(deptRq[r])
    BY DEF DeptIInv
  <1>2. deptRq[r].stage \in {"add", "promote", "remove"}
    BY DEF AddDepartmentMember, RemoveDepartmentMember
  <1>3. d \in Department /\ u \in Employee /\ dept[d].state # "none"
    BY <1>1, <1>2, DeptRowStage DEF ReliesOn
  <1>4. PICK s \in {"live", "removed"}, stage \in {"added", "promoted", "removed"} :
          /\ s = "removed" => deptRq[r].stage = "remove" /\ stage = "removed"
          /\ s = "live" => stage # "removed"
          /\ seat' = [seat EXCEPT ![d][u] = s]
          /\ DeptGo(r, stage)
    BY DEF AddDepartmentMember, RemoveDepartmentMember
  <1>5. halfway' = halfway \cup {u} /\ UNCHANGED <<dept, home, busyDept, busyUser>>
    BY DEF AddDepartmentMember, RemoveDepartmentMember
  <1>6. stage \in DeptStage
    BY DEF DeptStage
  <1>7. PICK w \in DeptRequest : /\ deptRq' = [deptRq EXCEPT ![r] = w]
                                 /\ w.stage = stage /\ w.dept = d /\ w.user = u
    BY <1>1, <1>3, <1>4, <1>6, DeptGoSlot
  <1>8. /\ seat' \in [Department -> [Employee -> Seat]] /\ seat'[d][u] = s
        /\ \A e \in Department \ {d} : seat'[e] = seat[e]
        /\ \A e \in Department, v \in Employee \ {u} : seat'[e][v] = seat[e][v]
    BY <1>1, <1>3, <1>4 DEF DeptTypeOK, Seat
  <1> HIDE DEF d, u
  <1>9. ReliesOn(w)'
    BY <1>3, <1>4, <1>5, <1>7, <1>8 DEF ReliesOn
  <1>10. ManagerStaysMember'
    <2> SUFFICES ASSUME NEW e \in Department, dept[e].state # "none", e \notin busyDept
                 PROVE  seat'[e][dept[e].manager] = "live"
      BY <1>5 DEF ManagerStaysMember
    <2>1. seat[e][dept[e].manager] = "live" /\ dept[e].manager \in Employee
      BY <1>1, ManagerIsEmployee DEF DeptIInv, ManagerStaysMember
    <2>2. CASE e = d /\ dept[e].manager = u
      BY <1>1, <1>4, <1>8, <2>2 DEF ReliesOn, d, u
    <2>3. CASE e # d \/ dept[e].manager # u
      BY <1>8, <2>1, <2>3
    <2> QED
      BY <2>2, <2>3
  <1>11. HomeHasRow'
    BY <1>1, <1>5, <1>8 DEF DeptIInv, HomeHasRow, DeptTypeOK
  <1>12. halfway' \subseteq Employee
    BY <1>1, <1>3, <1>5 DEF DeptTypeOK
  <1> QED
    BY <1>1, <1>2, <1>5, <1>7, <1>8, <1>9, <1>10, <1>11, <1>12, DeptStepKeeps DEF DeptTypeOK, d, u

\* A home that follows a row, and the home a removal clears.
LEMMA DeptHomeKeeps ==
  ASSUME DeptIInv, NEW r \in Request,
         HomeOfFirstManager(r) \/ HomeOfMember(r) \/ HomeOfManager(r) \/ NoHome(r)
  PROVE  DeptIInv'
  <1> DEFINE d == deptRq[r].dept
             u == deptRq[r].user
  <1>1. DeptTypeOK /\ ReliesOn(deptRq[r])
    BY DEF DeptIInv
  <1>2. PICK place \in {d, Nowhere} :
          /\ \/ place = d /\ deptRq[r].stage \in {"created", "added", "promoted"}
             \/ place = Nowhere /\ deptRq[r].stage = "removed"
          /\ home' = [home EXCEPT ![u] = place]
          /\ \/ DeptDone(r)
             \/ deptRq[r].stage = "promoted" /\ DeptGo(r, "checkName")
    BY DEF HomeOfFirstManager, HomeOfMember, HomeOfManager, NoHome, WriteHome
  <1>3. halfway' = halfway \ {u} /\ UNCHANGED <<dept, seat, busyDept, busyUser>>
    BY DEF HomeOfFirstManager, HomeOfMember, HomeOfManager, NoHome, WriteHome
  <1>4. d \in Department /\ u \in Employee
    BY <1>1, <1>2, DeptRowStage
  <1>5. PICK w \in DeptRequest :
          /\ deptRq' = [deptRq EXCEPT ![r] = w]
          /\ \/ w.stage = "idle"
             \/ deptRq[r].stage = "promoted" /\ w.stage = "checkName" /\ w.dept = d /\ w.user = u
    <2>1. CASE DeptDone(r)
      BY <2>1, DeptIdleIsRequest DEF DeptDone
    <2>2. CASE deptRq[r].stage = "promoted" /\ DeptGo(r, "checkName")
      BY <1>1, <1>4, <2>2, DeptGoSlot DEF DeptStage
    <2> QED
      BY <1>2, <2>1, <2>2
  <1>6. home' \in [Employee -> Department \cup {Nowhere}]
    BY <1>1, <1>2, <1>4 DEF DeptTypeOK
  <1>7. \A v \in Employee : home'[v] = IF v = u THEN place ELSE home[v]
    BY <1>1, <1>2 DEF DeptTypeOK
  <1> HIDE DEF d, u
  <1>8. ReliesOn(w)'
    BY <1>1, <1>3, <1>5 DEF ReliesOn, d, u
  <1>9. ManagerStaysMember'
    BY <1>3 DEF DeptIInv, ManagerStaysMember
  <1>10. HomeHasRow'
    <2> SUFFICES ASSUME NEW v \in Employee, v \notin busyUser, v \notin halfway',
                        home'[v] # Nowhere
                 PROVE  seat[home'[v]][v] = "live"
      BY <1>3 DEF HomeHasRow
    <2>1. CASE v = u
      BY <1>1, <1>2, <1>7, <2>1 DEF ReliesOn, d, u
    <2>2. CASE v # u
      BY <1>3, <1>7, <2>2 DEF DeptIInv, HomeHasRow
    <2> QED
      BY <2>1, <2>2
  <1>11. halfway' \subseteq Employee
    BY <1>1, <1>3 DEF DeptTypeOK
  <1> QED
    BY <1>1, <1>2, <1>3, <1>5, <1>6, <1>8, <1>9, <1>10, <1>11, DeptStepKeeps DEF DeptTypeOK, d, u

\* A request that ends, or passes the check of the name, and writes nothing.
LEMMA DeptPassKeeps ==
  ASSUME DeptIInv, NEW r \in Request, CheckName(r) \/ DeptFail(r)
  PROVE  DeptIInv'
  <1>1. DeptTypeOK /\ ReliesOn(deptRq[r])
    BY DEF DeptIInv
  <1>2. /\ deptRq[r].stage # "idle"
        /\ UNCHANGED <<dept, seat, home, busyDept, busyUser, halfway>>
    BY DEF CheckName, DeptFail
  <1>3. DeptDone(r) \/ (deptRq[r].stage = "checkName" /\ DeptGo(r, "update"))
    BY DEF CheckName, DeptFail
  <1>4. deptRq[r].dept \in Department
    BY <1>1, <1>2 DEF ReliesOn
  <1>5. PICK w \in DeptRequest :
          /\ deptRq' = [deptRq EXCEPT ![r] = w]
          /\ \/ w.stage = "idle"
             \/ /\ deptRq[r].stage = "checkName" /\ w.stage = "update"
                /\ w.dept = deptRq[r].dept /\ w.user = deptRq[r].user
    <2>1. CASE DeptDone(r)
      BY <2>1, DeptIdleIsRequest DEF DeptDone
    <2>2. CASE deptRq[r].stage = "checkName" /\ DeptGo(r, "update")
      BY <1>1, <1>4, <2>2, DeptGoSlot DEF DeptStage
    <2> QED
      BY <1>3, <2>1, <2>2
  <1>6. ReliesOn(w)'
    BY <1>1, <1>2, <1>5 DEF ReliesOn
  <1>7. ManagerStaysMember' /\ HomeHasRow'
    BY <1>2 DEF DeptIInv, ManagerStaysMember, HomeHasRow
  <1> QED
    BY <1>1, <1>2, <1>5, <1>6, <1>7, DeptStepKeeps DEF DeptTypeOK

\* The write of the department itself, the last of its request.
LEMMA DeptWriteKeeps ==
  ASSUME DeptIInv, NEW r \in Request, UpdateDepartmentWrite(r) \/ DeleteDepartmentWrite(r)
  PROVE  DeptIInv'
  <1> DEFINE d == deptRq[r].dept
             u == deptRq[r].user
  <1>1. DeptTypeOK /\ ReliesOn(deptRq[r])
    BY DEF DeptIInv
  <1>2. /\ deptRq[r].stage \in {"update", "delete"}
        /\ deptRq' = [deptRq EXCEPT ![r] = DeptIdle]
        /\ UNCHANGED <<seat, home, busyDept, busyUser, halfway>>
    BY DEF UpdateDepartmentWrite, DeleteDepartmentWrite, DeptDone
  <1>3. d \in Department /\ dept[d].state # "none"
    BY <1>1, <1>2 DEF ReliesOn
  <1>4. dept[d] \in [state : {"live", "deleted"}, manager : Employee]
    <2>1. dept[d] \in Dept
      BY <1>1, <1>3 DEF DeptTypeOK
    <2> QED
      BY <1>3, <2>1 DEF Dept
  <1>5. u \in Employee \cup {Nowhere}
    BY <1>1 DEF DeptTypeOK, DeptRequest
  <1>6. PICK written \in [state : {"live", "deleted"}, manager : Employee] :
          /\ dept' = [dept EXCEPT ![d] = written]
          /\ \/ written.manager = dept[d].manager
             \/ deptRq[r].stage = "update" /\ u # Nowhere /\ written.manager = u
    <2>1. CASE DeleteDepartmentWrite(r)
      <3>1. dept' = [dept EXCEPT ![d] = [dept[d] EXCEPT !.state = "deleted"]]
        BY <2>1 DEF DeleteDepartmentWrite, SoftDelete
      <3>2. /\ [dept[d] EXCEPT !.state = "deleted"] \in [state : {"live", "deleted"}, manager : Employee]
            /\ [dept[d] EXCEPT !.state = "deleted"].manager = dept[d].manager
        BY ONLY <1>4
      <3> QED
        BY <3>1, <3>2
    <2>2. CASE UpdateDepartmentWrite(r) /\ u = Nowhere
      <3>1. dept' = [dept EXCEPT ![d] = dept[d]]
        BY <1>1, <2>2 DEF UpdateDepartmentWrite, DeptTypeOK
      <3> QED
        BY <1>4, <3>1
    <2>3. CASE UpdateDepartmentWrite(r) /\ u # Nowhere
      <3>1. /\ dept' = [dept EXCEPT ![d] = [dept[d] EXCEPT !.manager = u]]
            /\ deptRq[r].stage = "update"
        BY <2>3 DEF UpdateDepartmentWrite
      <3>2. u \in Employee
        BY <1>5, <2>3
      <3>3. /\ [dept[d] EXCEPT !.manager = u] \in [state : {"live", "deleted"}, manager : Employee]
            /\ [dept[d] EXCEPT !.manager = u].manager = u
        BY ONLY <1>4, <3>2
      <3> QED
        BY <2>3, <3>1, <3>3
    <2> QED
      BY <2>1, <2>2, <2>3
  <1>7. /\ dept' \in [Department -> Dept] /\ dept'[d] = written
        /\ \A e \in Department \ {d} : dept'[e] = dept[e]
        /\ \A e \in Department : dept[e].state # "none" => dept'[e].state # "none"
    BY <1>1, <1>3, <1>6 DEF DeptTypeOK, Dept
  <1> HIDE DEF d, u
  <1>8. ManagerStaysMember'
    <2> SUFFICES ASSUME NEW e \in Department, dept'[e].state # "none", e \notin busyDept
                 PROVE  seat[e][dept'[e].manager] = "live"
      BY <1>2 DEF ManagerStaysMember
    <2>1. CASE e # d
      BY <1>7, <2>1 DEF DeptIInv, ManagerStaysMember
    <2>2. CASE e = d /\ written.manager = dept[d].manager
      BY <1>3, <1>7, <2>2 DEF DeptIInv, ManagerStaysMember
    <2>3. CASE e = d /\ deptRq[r].stage = "update" /\ u # Nowhere /\ written.manager = u
      BY <1>1, <1>7, <2>3 DEF ReliesOn, d, u
    <2> QED
      BY <1>6, <2>1, <2>2, <2>3
  <1>9. HomeHasRow'
    BY <1>2 DEF DeptIInv, HomeHasRow
  <1>10. ReliesOn(DeptIdle)'
    BY DeptIdleIsRequest DEF ReliesOn
  <1> QED
    BY <1>1, <1>2, <1>7, <1>8, <1>9, <1>10, DeptIdleIsRequest, DeptStepKeeps DEF DeptTypeOK, d, u

\* The invariant of the departments holds before there is one.
LEMMA DeptInitIInv == DeptInit => DeptIInv
  <1> SUFFICES ASSUME DeptInit PROVE DeptIInv
    OBVIOUS
  <1>1. \A r \in Request : deptRq[r] = DeptIdle
    BY DEF DeptInit
  <1>2. DeptTypeOK
    BY DeptIdleIsRequest DEF DeptInit, DeptTypeOK, Dept, Seat
  <1>3. ManagerStaysMember /\ HomeHasRow
    BY DEF DeptInit, ManagerStaysMember, HomeHasRow
  <1>4. OverlapsRecorded
    BY <1>1, DeptIdleIsRequest DEF OverlapsRecorded
  <1>5. \A r \in Request : ReliesOn(deptRq[r])
    BY <1>1, DeptIdleIsRequest DEF ReliesOn
  <1> QED
    BY <1>2, <1>3, <1>4, <1>5 DEF DeptIInv

\* Every step on the departments keeps their invariant.
LEMMA DeptNextKeeps == DeptIInv /\ [DeptNext]_deptVars => DeptIInv'
  <1> SUFFICES ASSUME DeptIInv, [DeptNext]_deptVars PROVE DeptIInv'
    OBVIOUS
  <1>1. CASE UNCHANGED deptVars
    BY <1>1 DEF deptVars, DeptIInv, DeptTypeOK, ManagerStaysMember, HomeHasRow,
                OverlapsRecorded, ReliesOn
  <1>2. ASSUME NEW r \in Request, NEW d \in Department, NEW u \in Employee,
               CreateDepartment(r, d, u) \/ AddMemberRead(r, d, u) \/ RemoveMemberRead(r, d, u)
        PROVE  DeptIInv'
    BY <1>2, DeptCreateKeeps, DeptBeginKeeps
  <1>3. ASSUME NEW r \in Request, NEW d \in Department, NEW u \in Employee \cup {Nowhere},
               UpdateDepartmentRead(r, d, u)
        PROVE  DeptIInv'
    BY <1>3, DeptBeginKeeps
  <1>4. ASSUME NEW r \in Request, NEW d \in Department, DeleteDepartmentRead(r, d)
        PROVE  DeptIInv'
    BY <1>4, DeptBeginKeeps
  <1> QED
    BY <1>1, <1>2, <1>3, <1>4, DeptRowKeeps, DeptHomeKeeps, DeptPassKeeps, DeptWriteKeeps DEF DeptNext

-----------------------------------------------------------------------------
(* Theorems *)

\* The inductive invariant holds in every reachable state.
THEOREM DeptInductive == DeptSpec => []DeptIInv
  BY DeptInitIInv, DeptNextKeeps, PTL DEF DeptSpec

\* However many departments are changed at once, and wherever requests fail: a
\* manager whose department no two requests were at together has a member row there.
THEOREM ManagerIsMember == DeptSpec => []ManagerStaysMember
  <1>1. DeptIInv => ManagerStaysMember
    BY DEF DeptIInv
  <1> QED
    BY <1>1, DeptInductive, PTL

\* The home of a user is a department with a row of theirs, unless requests were
\* about the user together or one of them is, or ended, between row and home.
THEOREM HomeIsMembership == DeptSpec => []HomeHasRow
  <1>1. DeptIInv => HomeHasRow
    BY DEF DeptIInv
  <1> QED
    BY <1>1, DeptInductive, PTL

HIDE NowhereAssumption

-----------------------------------------------------------------------------
(***************************************************************************)
(* RolePermissions                                                         *)
(***************************************************************************)
USE NoPermissionAssumption

-----------------------------------------------------------------------------
(* Shapes *)

\* The state of a free slot is the state of a request.
LEMMA RbacIdleIsRequest == RbacIdle \in RbacRequest /\ RbacIdle.stage = "idle"
  BY DEF RbacIdle, RbacRequest

\* The request r becomes q, and the others stay.
LEMMA RbacOneMoves ==
  ASSUME RbacTypeOK, NEW r \in Request, NEW q \in RbacRequest,
         rbacRq' = [rbacRq EXCEPT ![r] = q]
  PROVE  /\ rbacRq' \in [Request -> RbacRequest]
         /\ rbacRq'[r] = q
         /\ \A x \in Request : x # r => rbacRq'[x] = rbacRq[x]
  BY DEF RbacTypeOK

\* A permission is held or not, whatever the override says.
LEMMA EffectiveIsBoolean ==
  ASSUME NEW over, NEW p, NEW rows
  PROVE  Effective(p, over, rows) \in BOOLEAN
  <1>1. CASE over[p] # "none"
    BY <1>1 DEF Effective
  <1>2. CASE over[p] = "none"
    BY <1>2 DEF Effective
  <1> QED
    BY <1>1, <1>2

\* Seen changes nothing but what is known to hold, and adds to that.
LEMMA SeenFacts ==
  ASSUME NEW rqs \in [Request -> RbacRequest], NEW over, NEW rows
  PROVE  /\ Seen(rqs, over, rows) \in [Request -> RbacRequest]
         /\ \A r \in Request : LET q == Seen(rqs, over, rows)[r] IN
                /\ q.stage = rqs[r].stage /\ q.want = rqs[r].want /\ q.left = rqs[r].left
                /\ q.of = rqs[r].of /\ q.read = rqs[r].read
                /\ rqs[r].held \subseteq q.held
                /\ q.stage \in {"check", "list"} => Effective(q.of, over, rows) \in q.held
  <1> DEFINE more(r) == [rqs[r] EXCEPT !.held = @ \cup {Effective(rqs[r].of, over, rows)}]
  <1>1. ASSUME NEW r \in Request
        PROVE  /\ more(r) \in RbacRequest
               /\ more(r).stage = rqs[r].stage /\ more(r).want = rqs[r].want
               /\ more(r).left = rqs[r].left /\ more(r).of = rqs[r].of
               /\ more(r).read = rqs[r].read
               /\ more(r).held = rqs[r].held \cup {Effective(rqs[r].of, over, rows)}
    <2>1. rqs[r] \in RbacRequest /\ Effective(rqs[r].of, over, rows) \in BOOLEAN
      BY EffectiveIsBoolean
    <2> QED
      BY <2>1 DEF RbacRequest
  <1>2. Seen(rqs, over, rows) = [r \in Request |->
            IF rqs[r].stage \in {"check", "list"} THEN more(r) ELSE rqs[r]]
    BY DEF Seen
  <1> HIDE DEF more
  <1> QED
    BY <1>1, <1>2

-----------------------------------------------------------------------------
(* Requests that ask *)

\* A request that asks begins, or has its answer; the rows stay.
LEMMA AskingKeeps ==
  ASSUME RbacIInv, NEW r \in Request, NEW q \in RbacRequest,
         rbacRq' = [rbacRq EXCEPT ![r] = q],
         UNCHANGED <<role, grants, override, wanted, maimed>>,
         unheld' \in BOOLEAN, late' \in BOOLEAN, unheld' => late',
         ~Changing(r),
         \/ q.stage = "idle"
         \/ /\ q.stage \in {"check", "list"} /\ q.of \in Permission
            /\ Effective(q.of, override, grants) \in q.held
            /\ override[q.of] = "none" => q.read \in q.held
  PROVE  RbacIInv'
  <1> USE DEF RbacIInv
  <1>1. /\ rbacRq' \in [Request -> RbacRequest] /\ rbacRq'[r] = q
        /\ \A x \in Request : x # r => rbacRq'[x] = rbacRq[x]
    BY RbacOneMoves
  <1>2. RbacTypeOK' /\ RbacShape' /\ AnswerHeld'
    BY <1>1 DEF RbacTypeOK, RbacShape, AnswerHeld
  <1>3. WantedInv'
    BY <1>1 DEF WantedInv, WillWrite, Changing
  <1>4. HeldInv'
    BY <1>1 DEF HeldInv
  <1> QED
    BY <1>2, <1>3, <1>4

\* A check or a listing starts with what is in force then.
LEMMA AskKeeps ==
  ASSUME RbacIInv, NEW r \in Request, NEW p \in Permission,
         CheckOverride(r, p) \/ ListGrants(r, p)
  PROVE  RbacIInv'
  <1>1. PICK stage \in {"check", "list"} : Ask(r, stage, p)
    BY DEF CheckOverride, ListGrants
  <1> DEFINE granted == p \in grants
             holds == Effective(p, override, grants)
             q == [RbacIdle EXCEPT !.stage = stage, !.of = p, !.read = granted, !.held = {holds}]
  <1>2. granted \in BOOLEAN /\ holds \in BOOLEAN
    BY EffectiveIsBoolean
  <1>3. override[p] = "none" => granted = holds
    BY DEF Effective
  <1>4. rbacRq' = [rbacRq EXCEPT ![r] = q]
    BY <1>1 DEF Ask
  <1> HIDE DEF granted, holds
  <1>5. /\ q \in RbacRequest /\ q.stage = stage /\ q.of = p
        /\ q.read = granted /\ q.held = {holds}
    BY <1>2 DEF RbacIdle, RbacRequest
  <1>6. /\ ~Changing(r)
        /\ UNCHANGED <<role, grants, override, wanted, maimed, unheld, late>>
    BY <1>1 DEF Ask, Changing
  <1>7. Effective(q.of, override, grants) \in q.held
    BY <1>5 DEF holds
  <1> HIDE DEF q
  <1> QED
    BY <1>3, <1>4, <1>5, <1>6, <1>7, AskingKeeps DEF RbacIInv, RbacTypeOK, AnswerHeld

\* An answer combines two reads, each of which was in force during the
\* request.
LEMMA AnswerKeeps ==
  ASSUME RbacIInv, NEW r \in Request, CheckRole(r) \/ ListOverrides(r)
  PROVE  RbacIInv'
  <1> DEFINE p == rbacRq[r].of
  <1> USE DEF RbacIInv
  <1>1. p \in Permission /\ ~Changing(r) /\ override[p] \in Override
    BY DEF RbacShape, CheckRole, ListOverrides, Changing, RbacTypeOK
  <1>2. /\ rbacRq' = [rbacRq EXCEPT ![r] = RbacIdle]
        /\ UNCHANGED <<role, grants, override, wanted, maimed>>
    BY DEF CheckRole, ListOverrides, Answer
  <1>3. unheld' \in BOOLEAN /\ late' \in BOOLEAN
    BY DEF CheckRole, ListOverrides, Answer, RbacTypeOK
  <1>4. unheld' => late'
    <2>1. CASE CheckRole(r)
      <3>1. override[p] = "none" => (p \in grants) \in rbacRq[r].held
        BY <2>1 DEF CheckRole, HeldInv, Effective
      <3> QED
        BY <2>1, <3>1 DEF CheckRole, Answer, AnswerHeld, RbacTypeOK
    <2>2. CASE ListOverrides(r)
      <3>1. (override[p] = "allow" \/ (override[p] # "deny" /\ rbacRq[r].read)) \in rbacRq[r].held
        <4>1. CASE override[p] = "none"
          <5>1. rbacRq[r].read \in rbacRq[r].held /\ rbacRq[r].read \in BOOLEAN
            BY <2>2, <4>1 DEF ListOverrides, HeldInv, RbacTypeOK, RbacRequest
          <5> QED
            BY <4>1, <5>1
        <4>2. CASE override[p] # "none"
          BY <1>1, <2>2, <4>2 DEF ListOverrides, HeldInv, Effective, Override
        <4> QED
          BY <4>1, <4>2
      <3> QED
        BY <2>2, <3>1 DEF ListOverrides, Answer, AnswerHeld, RbacTypeOK
    <2> QED
      BY <2>1, <2>2
  <1> QED
    BY <1>1, <1>2, <1>3, <1>4, RbacIdleIsRequest, AskingKeeps

-----------------------------------------------------------------------------
(* Requests that change the role *)

\* A change goes on or ends; no row is written by this step.
LEMMA ChangingKeeps ==
  ASSUME RbacIInv, NEW r \in Request, NEW q \in RbacRequest,
         rbacRq' = [rbacRq EXCEPT ![r] = q],
         UNCHANGED <<grants, override, unheld, late>>,
         role' \in {"system", "custom", "gone"}, role' # "gone" => role # "gone",
         wanted' \in [Permission -> SUBSET BOOLEAN], maimed' \in BOOLEAN,
         q.stage \notin {"check", "list"},
         q.stage \in {"clear", "drop"} => q.want = {},
         \A p \in Permission :
            /\ q.stage # "idle" => (p \in q.want) \in wanted'[p]
            /\ \A x \in Request \ {r} : Changing(x) => wanted[p] \subseteq wanted'[p]
            /\ role' # "gone" /\ ~maimed' =>
                  \/ (p \in grants) \in wanted'[p]
                  \/ q.stage \in {"set", "clear"} \/ (q.stage = "apply" /\ p \in q.left)
                  \/ \E x \in Request \ {r} : WillWrite(x, p)
  PROVE  RbacIInv'
  <1> USE DEF RbacIInv
  <1>1. /\ rbacRq' \in [Request -> RbacRequest] /\ rbacRq'[r] = q
        /\ \A x \in Request : x # r => rbacRq'[x] = rbacRq[x]
    BY RbacOneMoves
  <1>2. RbacTypeOK' /\ RbacShape' /\ AnswerHeld'
    BY <1>1 DEF RbacTypeOK, RbacShape, AnswerHeld
  <1>3. WantedInv'
    <2> SUFFICES ASSUME NEW p \in Permission
                 PROVE  /\ \A x \in Request : Changing(x)' => (p \in rbacRq'[x].want) \in wanted'[p]
                        /\ role' # "gone" /\ ~maimed' =>
                              (p \in grants') \in wanted'[p] \/ \E x \in Request : WillWrite(x, p)'
      BY DEF WantedInv
    <2>1. \A x \in Request \ {r} : /\ Changing(x)' <=> Changing(x)
                                   /\ WillWrite(x, p)' <=> WillWrite(x, p)
      BY <1>1 DEF Changing, WillWrite
    <2>2. Changing(r)' => q.stage # "idle"
      BY <1>1 DEF Changing
    <2>3. \A x \in Request \ {r} : Changing(x) => (p \in rbacRq'[x].want) \in wanted'[p]
      BY <1>1 DEF WantedInv
    <2>4. q.stage \in {"set", "clear"} \/ (q.stage = "apply" /\ p \in q.left) => WillWrite(r, p)'
      BY <1>1 DEF WillWrite
    <2> QED
      BY <1>1, <2>1, <2>2, <2>3, <2>4
  <1>4. HeldInv'
    BY <1>1 DEF HeldInv
  <1> QED
    BY <1>2, <1>3, <1>4

\* A change of permissions that starts adds the set it wants.
LEMMA BeginChangeKeeps ==
  ASSUME RbacIInv, NEW r \in Request, NEW want \in SUBSET Permission,
         UpdateRolePermissions(r, want) \/ (want = {} /\ DeleteRole(r))
  PROVE  RbacIInv'
  <1> USE DEF RbacIInv
  <1>1. PICK stage \in {"set", "clear"} :
            RbacBegin(r, stage, want) /\ (stage = "clear" => want = {})
    BY DEF UpdateRolePermissions, DeleteRole
  <1> DEFINE q == [RbacIdle EXCEPT !.stage = stage, !.want = want]
             competes == \E x \in Request : Changing(x)
  <1>2. q \in RbacRequest /\ q.stage = stage /\ q.want = want
    BY DEF RbacIdle, RbacRequest
  <1>3. /\ rbacRq' = [rbacRq EXCEPT ![r] = q] /\ rbacRq[r].stage = "idle"
        /\ wanted' = [p \in Permission |-> {(p \in want)} \cup IF competes THEN wanted[p] ELSE {}]
        /\ maimed' = (maimed /\ competes)
        /\ UNCHANGED <<role, grants, override, unheld, late>>
    BY <1>1 DEF RbacBegin
  <1> HIDE DEF q
  <1>4. wanted' \in [Permission -> SUBSET BOOLEAN]
    <2>1. ASSUME NEW p \in Permission
          PROVE  {(p \in want)} \cup (IF competes THEN wanted[p] ELSE {}) \in SUBSET BOOLEAN
      <3>1. wanted[p] \in SUBSET BOOLEAN /\ (p \in want) \in BOOLEAN
        BY DEF RbacTypeOK
      <3> HIDE DEF competes
      <3> QED
        BY <3>1
    <2> HIDE DEF competes
    <2> QED
      BY <1>3, <2>1
  <1>5. maimed' \in BOOLEAN
    BY <1>3 DEF RbacTypeOK
  <1>6. ASSUME NEW p \in Permission
        PROVE  /\ (p \in q.want) \in wanted'[p]
               /\ \A x \in Request \ {r} : Changing(x) => wanted[p] \subseteq wanted'[p]
    <2> DEFINE asked == p \in want
    <2> DEFINE w(o) == {(o \in want)} \cup IF competes THEN wanted[o] ELSE {}
    <2>0. wanted' = [o \in Permission |-> w(o)]
      BY <1>3
    <2> HIDE DEF w
    <2>4. wanted'[p] = w(p)
      BY <2>0
    <2>1. wanted'[p] = {asked} \cup IF competes THEN wanted[p] ELSE {}
      BY <2>4 DEF w
    <2>2. (\E x \in Request \ {r} : Changing(x)) => competes
      OBVIOUS
    <2>3. (p \in q.want) = asked
      BY <1>2
    <2> HIDE DEF asked, competes
    <2> QED
      BY <2>1, <2>2, <2>3
  <1>7. /\ UNCHANGED <<role, grants, override, unheld, late>>
        /\ role \in {"system", "custom", "gone"}
    BY <1>3 DEF RbacTypeOK
  <1>8. rbacRq' = [rbacRq EXCEPT ![r] = q]
    BY <1>3
  <1> HIDE DEF competes
  <1> QED
    BY <1>1, <1>2, <1>4, <1>5, <1>6, <1>7, <1>8, ChangingKeeps

\* The difference is computed from the rows of that moment.
LEMMA ReadGrantsKeeps ==
  ASSUME RbacIInv, NEW r \in Request, ReadGrants(r)
  PROVE  RbacIInv'
  <1> USE DEF RbacIInv
  <1> DEFINE q == rbacRq[r]
             diff == Difference(q.want)
             going == [q EXCEPT !.stage = "apply", !.left = diff]
             next == IF diff = {} THEN RbacIdle ELSE going
  <1>1. /\ q \in RbacRequest /\ q.stage = "set" /\ Changing(r)
        /\ UNCHANGED <<role, grants, override, wanted, maimed, unheld, late>>
    BY DEF ReadGrants, RbacTypeOK, Changing
  <1>2. diff \in SUBSET Permission
    BY <1>1 DEF Difference, RbacTypeOK, RbacRequest
  <1>3. \A p \in Permission : p \notin diff => (p \in grants) = (p \in q.want)
    BY DEF Difference
  <1>4. rbacRq' = [rbacRq EXCEPT ![r] = next]
    BY DEF ReadGrants
  <1> HIDE DEF diff
  <1>5. going \in RbacRequest /\ going.stage = "apply" /\ going.left = diff /\ going.want = q.want
    BY <1>1, <1>2 DEF RbacRequest
  <1>6. /\ next \in RbacRequest
        /\ next.stage = IF diff = {} THEN "idle" ELSE "apply"
        /\ diff # {} => next.left = diff /\ next.want = q.want
    BY <1>5, RbacIdleIsRequest
  <1> HIDE DEF next, going
  <1>7. ASSUME NEW p \in Permission
        PROVE  /\ (p \in q.want) \in wanted[p]
               /\ p \notin diff => (p \in grants) \in wanted[p]
    BY <1>1, <1>3 DEF WantedInv
  <1> QED
    BY <1>1, <1>4, <1>6, <1>7, ChangingKeeps DEF RbacTypeOK

\* The role goes, or its deletion ends without it.
LEMMA DropRoleKeeps ==
  ASSUME RbacIInv, NEW r \in Request, DropRole(r)
  PROVE  RbacIInv'
  <1> USE DEF RbacIInv
  <1>1. /\ rbacRq[r].stage = "drop" /\ rbacRq' = [rbacRq EXCEPT ![r] = RbacIdle]
        /\ role' \in {"system", "custom", "gone"} /\ (role' # "gone" => role # "gone")
        /\ UNCHANGED <<grants, override, wanted, maimed, unheld, late>>
    BY DEF DropRole, RbacTypeOK
  <1>2. \A p \in Permission : ~WillWrite(r, p)
    BY <1>1 DEF WillWrite
  <1>3. ASSUME NEW p \in Permission, role' # "gone", ~maimed'
        PROVE  (p \in grants) \in wanted[p] \/ \E x \in Request \ {r} : WillWrite(x, p)
    BY <1>1, <1>2, <1>3 DEF WantedInv
  <1> QED
    BY <1>1, <1>3, RbacIdleIsRequest, ChangingKeeps DEF RbacTypeOK

\* A request that stops leaves the rows as it found or wrote them.
LEMMA RbacFailKeeps ==
  ASSUME RbacIInv, NEW r \in Request, RbacFail(r)
  PROVE  RbacIInv'
  <1> USE DEF RbacIInv
  <1>1. /\ rbacRq' = [rbacRq EXCEPT ![r] = RbacIdle]
        /\ maimed' = (maimed \/ Changing(r)) /\ maimed' \in BOOLEAN
        /\ UNCHANGED <<role, grants, override, wanted, unheld, late>>
    BY DEF RbacFail, RbacTypeOK
  <1>2. CASE Changing(r)
    BY <1>1, <1>2, RbacIdleIsRequest, ChangingKeeps DEF RbacTypeOK
  <1>3. CASE ~Changing(r)
    BY <1>1, <1>3, RbacIdleIsRequest, AskingKeeps DEF RbacTypeOK, AnswerHeld
  <1> QED
    BY <1>2, <1>3

-----------------------------------------------------------------------------
(* Statements that write the rows of the role or of the user *)

\* Those who ask see the rows as they have become; the slot r, if it moves, is that of a
\* change.
LEMMA SeenKeeps ==
  ASSUME RbacIInv, NEW rqs \in [Request -> RbacRequest],
         grants' \in SUBSET Permission, override' \in [Permission -> Override],
         rbacRq' = Seen(rqs, override', grants'),
         UNCHANGED <<role, wanted, maimed, unheld, late>>,
         \A p \in Permission : override[p] # "none" => override'[p] # "none",
         \A x \in Request :
            /\ rqs[x].stage \in {"clear", "drop"} => rqs[x].want = {}
            /\ rqs[x].stage \in {"check", "list"} => rqs[x] = rbacRq[x]
            /\ rqs[x].stage \in {"set", "apply", "clear", "drop"} =>
                    Changing(x) /\ rqs[x].want = rbacRq[x].want,
         \A p \in Permission :
            role # "gone" /\ ~maimed =>
                \/ (p \in grants') \in wanted[p]
                \/ \E x \in Request : \/ rqs[x].stage \in {"set", "clear"}
                                      \/ rqs[x].stage = "apply" /\ p \in rqs[x].left
  PROVE  RbacIInv'
  <1> USE DEF RbacIInv
  <1>1. /\ rbacRq' \in [Request -> RbacRequest]
        /\ \A x \in Request : LET q == rbacRq'[x] IN
                /\ q.stage = rqs[x].stage /\ q.want = rqs[x].want /\ q.left = rqs[x].left
                /\ q.of = rqs[x].of /\ q.read = rqs[x].read
                /\ rqs[x].held \subseteq q.held
                /\ q.stage \in {"check", "list"} => Effective(q.of, override', grants') \in q.held
    BY SeenFacts
  <1>2. RbacTypeOK' /\ RbacShape' /\ AnswerHeld'
    BY <1>1 DEF RbacTypeOK, RbacShape, AnswerHeld
  <1>3. WantedInv'
    <2> SUFFICES ASSUME NEW p \in Permission
                 PROVE  /\ \A x \in Request : Changing(x)' => (p \in rbacRq'[x].want) \in wanted[p]
                        /\ role # "gone" /\ ~maimed =>
                              (p \in grants') \in wanted[p] \/ \E x \in Request : WillWrite(x, p)'
      BY DEF WantedInv
    <2>1. \A x \in Request : Changing(x)' => Changing(x) /\ rbacRq'[x].want = rbacRq[x].want
      BY <1>1 DEF Changing
    <2>2. \A x \in Request : Changing(x)' => (p \in rbacRq'[x].want) \in wanted[p]
      BY <2>1 DEF WantedInv
    <2>3. \A x \in Request :
            rqs[x].stage \in {"set", "clear"} \/ (rqs[x].stage = "apply" /\ p \in rqs[x].left)
                => WillWrite(x, p)'
      BY <1>1 DEF WillWrite
    <2> QED
      BY <2>2, <2>3
  <1>4. HeldInv'
    <2> SUFFICES ASSUME NEW x \in Request
                 PROVE  LET q == rbacRq'[x] IN
                        /\ q.stage \in {"check", "list"} =>
                              Effective(q.of, override', grants') \in q.held
                        /\ q.stage = "list" /\ override'[q.of] = "none" => q.read \in q.held
      BY DEF HeldInv
    <2>1. ASSUME rbacRq'[x].stage = "list", override'[rbacRq'[x].of] = "none"
          PROVE  rbacRq'[x].read \in rbacRq'[x].held
      <3>1. /\ rbacRq[x].stage = "list" /\ rbacRq'[x].of = rbacRq[x].of
            /\ rbacRq'[x].read = rbacRq[x].read /\ rbacRq[x].held \subseteq rbacRq'[x].held
        BY <1>1, <2>1
      <3>2. override[rbacRq[x].of] = "none"
        BY <2>1, <3>1 DEF RbacShape
      <3> QED
        BY <3>1, <3>2 DEF HeldInv
    <2> QED
      BY <1>1, <2>1
  <1> QED
    BY <1>2, <1>3, <1>4

\* One row of a difference becomes what its request wants.
LEMMA WriteGrantKeeps ==
  ASSUME RbacIInv, NEW r \in Request, NEW p \in Permission, WriteGrant(r, p)
  PROVE  RbacIInv'
  <1> USE DEF RbacIInv
  <1> DEFINE q == rbacRq[r]
             going == [q EXCEPT !.left = @ \ {p}]
             next == IF q.left = {p} THEN RbacIdle ELSE going
             rest == [rbacRq EXCEPT ![r] = next]
  <1>1. /\ q \in RbacRequest /\ q.stage = "apply" /\ p \in q.left /\ Changing(r)
        /\ UNCHANGED <<role, override, wanted, maimed, unheld, late>>
    BY DEF WriteGrant, RbacTypeOK, Changing
  <1>2. /\ grants' = IF p \notin q.want THEN grants \ {p}
                     ELSE IF role = "gone" THEN grants ELSE grants \cup {p}
        /\ rbacRq' = Seen(rest, override, grants')
    BY DEF WriteGrant
  <1>3. /\ going \in RbacRequest /\ going.stage = "apply" /\ going.left = q.left \ {p}
        /\ going.want = q.want
    BY <1>1 DEF RbacRequest
  <1>4. /\ next \in RbacRequest
        /\ IF q.left = {p} THEN next.stage = "idle"
           ELSE next.stage = "apply" /\ next.left = q.left \ {p} /\ next.want = q.want
    BY <1>3, RbacIdleIsRequest
  <1> HIDE DEF going, next
  <1>5. /\ rest \in [Request -> RbacRequest] /\ rest[r] = next
        /\ \A x \in Request : x # r => rest[x] = rbacRq[x]
    BY <1>4 DEF RbacTypeOK
  <1> HIDE DEF rest
  <1>6. grants' \in SUBSET Permission
    BY <1>2 DEF RbacTypeOK
  <1>7. \A x \in Request :
            /\ rest[x].stage \in {"clear", "drop"} => rest[x].want = {}
            /\ rest[x].stage \in {"check", "list"} => rest[x] = rbacRq[x]
            /\ rest[x].stage \in {"set", "apply", "clear", "drop"} =>
                    Changing(x) /\ rest[x].want = rbacRq[x].want
    BY <1>1, <1>4, <1>5 DEF RbacShape, Changing
  <1>8. ASSUME NEW o \in Permission, role # "gone", ~maimed
        PROVE  \/ (o \in grants') \in wanted[o]
               \/ \E x \in Request : \/ rest[x].stage \in {"set", "clear"}
                                     \/ rest[x].stage = "apply" /\ o \in rest[x].left
    <2>1. CASE o = p
      <3>1. (o \in grants') = (o \in q.want)
        BY <1>2, <1>8, <2>1
      <3> QED
        BY <1>1, <3>1 DEF WantedInv
    <2>2. CASE o # p
      <3>1. (o \in grants') = (o \in grants)
        BY <1>2, <2>2
      <3>2. WillWrite(r, o) => rest[r].stage = "apply" /\ o \in rest[r].left
        BY <1>1, <1>4, <1>5, <2>2 DEF WillWrite
      <3>3. \A x \in Request \ {r} : WillWrite(x, o) =>
                \/ rest[x].stage \in {"set", "clear"}
                \/ rest[x].stage = "apply" /\ o \in rest[x].left
        BY <1>5 DEF WillWrite
      <3>4. (o \in grants) \in wanted[o] \/ \E x \in Request : WillWrite(x, o)
        BY <1>8 DEF WantedInv
      <3> QED
        BY <3>1, <3>2, <3>3, <3>4
    <2> QED
      BY <2>1, <2>2
  <1> QED
    BY <1>1, <1>2, <1>5, <1>6, <1>7, <1>8, SeenKeeps DEF RbacTypeOK

\* Deleting a role removes all its rows at once.
LEMMA ClearGrantsKeeps ==
  ASSUME RbacIInv, NEW r \in Request, ClearGrants(r)
  PROVE  RbacIInv'
  <1> USE DEF RbacIInv
  <1> DEFINE q == rbacRq[r]
             next == [q EXCEPT !.stage = "drop"]
             rest == [rbacRq EXCEPT ![r] = next]
  <1>1. /\ q \in RbacRequest /\ q.stage = "clear" /\ q.want = {} /\ Changing(r)
        /\ grants' = {}
        /\ UNCHANGED <<role, override, wanted, maimed, unheld, late>>
    BY DEF ClearGrants, RbacTypeOK, RbacShape, Changing
  <1>2. rbacRq' = Seen(rest, override, {})
    BY DEF ClearGrants
  <1>3. next \in RbacRequest /\ next.stage = "drop" /\ next.want = {}
    BY <1>1 DEF RbacRequest
  <1> HIDE DEF next
  <1>4. /\ rest \in [Request -> RbacRequest] /\ rest[r] = next
        /\ \A x \in Request : x # r => rest[x] = rbacRq[x]
    BY <1>3 DEF RbacTypeOK
  <1> HIDE DEF rest
  <1>5. \A x \in Request :
            /\ rest[x].stage \in {"clear", "drop"} => rest[x].want = {}
            /\ rest[x].stage \in {"check", "list"} => rest[x] = rbacRq[x]
            /\ rest[x].stage \in {"set", "apply", "clear", "drop"} =>
                    Changing(x) /\ rest[x].want = rbacRq[x].want
    BY <1>1, <1>3, <1>4 DEF RbacShape, Changing
  <1>6. ASSUME NEW p \in Permission PROVE (p \in grants') \in wanted[p]
    <2>1. (p \in grants') = (p \in q.want)
      BY <1>1
    <2> QED
      BY <1>1, <2>1 DEF WantedInv
  <1> QED
    BY <1>1, <1>2, <1>4, <1>5, <1>6, SeenKeeps DEF RbacTypeOK

\* A new override is added to what running checks may have seen.
LEMMA AssignKeeps ==
  ASSUME RbacIInv, NEW p \in Permission, NEW verdict \in {"allow", "deny"},
         AssignUserPermission(p, verdict)
  PROVE  RbacIInv'
  <1> USE DEF RbacIInv
  <1>1. /\ override' = [override EXCEPT ![p] = verdict]
        /\ rbacRq' = Seen(rbacRq, override', grants) /\ grants' = grants
        /\ UNCHANGED <<role, wanted, maimed, unheld, late>>
    BY DEF AssignUserPermission
  <1>2. /\ override' \in [Permission -> Override]
        /\ \A o \in Permission : override[o] # "none" => override'[o] # "none"
    BY <1>1 DEF RbacTypeOK, Override
  <1>3. \A o \in Permission : role # "gone" /\ ~maimed =>
            \/ (o \in grants') \in wanted[o]
            \/ \E x \in Request : \/ rbacRq[x].stage \in {"set", "clear"}
                                  \/ rbacRq[x].stage = "apply" /\ o \in rbacRq[x].left
    BY <1>1 DEF WantedInv, WillWrite
  <1>4. \A x \in Request :
            /\ rbacRq[x].stage \in {"clear", "drop"} => rbacRq[x].want = {}
            /\ rbacRq[x].stage \in {"set", "apply", "clear", "drop"} => Changing(x)
    BY DEF RbacShape, Changing
  <1> QED
    BY <1>1, <1>2, <1>3, <1>4, SeenKeeps DEF RbacTypeOK

-----------------------------------------------------------------------------

\* The invariant of the permissions holds of a role as it was made.
LEMMA RbacInitIInv == RbacInit => RbacIInv
  <1> SUFFICES ASSUME RbacInit PROVE RbacIInv
    OBVIOUS
  <1>1. /\ role \in {"system", "custom", "gone"} /\ grants \in SUBSET Permission
        /\ override = [p \in Permission |-> "none"]
        /\ rbacRq = [r \in Request |-> RbacIdle]
        /\ wanted = [p \in Permission |-> {(p \in grants)}]
        /\ maimed = FALSE /\ unheld = FALSE /\ late = FALSE
    BY DEF RbacInit
  <1>2. \A p \in Permission : wanted[p] = {(p \in grants)} /\ (p \in grants) \in BOOLEAN
    BY <1>1
  <1>3. wanted \in [Permission -> SUBSET BOOLEAN]
    BY <1>1, <1>2
  <1>4. \A r \in Request : rbacRq[r].stage = "idle"
    BY <1>1, RbacIdleIsRequest
  <1>5. RbacTypeOK
    BY <1>1, <1>3, RbacIdleIsRequest DEF RbacTypeOK, Override
  <1>6. RbacShape /\ HeldInv /\ AnswerHeld
    BY <1>1, <1>4 DEF RbacShape, HeldInv, AnswerHeld
  <1>7. WantedInv
    <2>1. \A r \in Request : ~Changing(r)
      BY <1>4 DEF Changing
    <2>2. ASSUME NEW p \in Permission PROVE (p \in grants) \in wanted[p]
      <3> DEFINE granted == p \in grants
      <3> DEFINE w(o) == {(o \in grants)}
      <3>0. wanted = [o \in Permission |-> w(o)]
        BY <1>1
      <3> HIDE DEF w
      <3>3. wanted[p] = w(p)
        BY <3>0
      <3>1. wanted[p] = {granted}
        BY <3>3 DEF w
      <3> HIDE DEF granted
      <3>2. granted \in wanted[p]
        BY <3>1
      <3> QED
        BY <3>2 DEF granted
    <2> QED
      BY <2>1, <2>2 DEF WantedInv
  <1> QED
    BY <1>5, <1>6, <1>7 DEF RbacIInv

\* Every step on the permissions keeps their invariant.
LEMMA RbacNextKeeps == RbacIInv /\ [RbacNext]_rbacVars => RbacIInv'
  <1> SUFFICES ASSUME RbacIInv, [RbacNext]_rbacVars PROVE RbacIInv'
    OBVIOUS
  <1>1. CASE UNCHANGED rbacVars
    BY <1>1 DEF rbacVars, RbacIInv, RbacTypeOK, RbacShape, WantedInv, HeldInv, AnswerHeld,
                Changing, WillWrite
  <1>2. CASE \E p \in Permission, verdict \in {"allow", "deny"} : AssignUserPermission(p, verdict)
    BY <1>2, AssignKeeps
  <1>3. ASSUME NEW r \in Request,
               \/ \E want \in SUBSET Permission : UpdateRolePermissions(r, want)
               \/ DeleteRole(r) \/ ReadGrants(r) \/ ClearGrants(r) \/ DropRole(r)
               \/ \E p \in Permission :
                     WriteGrant(r, p) \/ CheckOverride(r, p) \/ ListGrants(r, p)
               \/ CheckRole(r) \/ ListOverrides(r) \/ RbacFail(r)
        PROVE  RbacIInv'
    <2>1. ASSUME NEW want \in SUBSET Permission, UpdateRolePermissions(r, want)
          PROVE  RbacIInv'
      BY <2>1, BeginChangeKeeps
    <2>2. CASE DeleteRole(r)
      BY <2>2, {} \in SUBSET Permission, BeginChangeKeeps
    <2>3. ASSUME NEW p \in Permission, WriteGrant(r, p) \/ CheckOverride(r, p) \/ ListGrants(r, p)
          PROVE  RbacIInv'
      BY <2>3, WriteGrantKeeps, AskKeeps
    <2> QED
      BY <1>3, <2>1, <2>2, <2>3, ReadGrantsKeeps, ClearGrantsKeeps, DropRoleKeeps, AnswerKeeps,
         RbacFailKeeps
  <1> QED
    BY <1>1, <1>2, <1>3 DEF RbacNext

\* The inductive invariant of the permissions of a role holds in every reachable state.
THEOREM RbacInductive == RbacSpec => []RbacIInv
  BY RbacInitIInv, RbacNextKeeps, PTL DEF RbacSpec

\* setRolePermissions and deleteRole leave the role as one of the changes that last ran
\* together wanted it.
THEOREM RoleAsWanted == RbacSpec => []RoleIsAsWanted
  <1>1. RbacIInv => RoleIsAsWanted
    <2> SUFFICES ASSUME RbacIInv, role # "gone", ~maimed, \A r \in Request : ~Changing(r),
                        NEW p \in Permission
                 PROVE  (p \in grants) \in wanted[p]
      BY DEF RoleIsAsWanted
    <2>1. \A r \in Request : ~WillWrite(r, p)
      BY DEF WillWrite, Changing
    <2> QED
      BY <2>1 DEF RbacIInv, WantedInv
  <1> QED
    BY <1>1, RbacInductive, PTL

\* What checkUserPermission and getUserPermissions answer held during the request.
THEOREM AnswersHeld == RbacSpec => []AnswerHeld
  <1>1. RbacIInv => AnswerHeld
    BY DEF RbacIInv
  <1> QED
    BY <1>1, RbacInductive, PTL

HIDE NoPermissionAssumption

-----------------------------------------------------------------------------
(***************************************************************************)
(* MCPeople: the four side by side                                         *)
(***************************************************************************)

\* A behaviour of the four side by side, in whatever slice, is one of each of them.
THEOREM PeopleImplement == MCSpec => Spec /\ DeptSpec /\ RbacSpec /\ SessionSpec
  <1>1. MCInit => Init /\ DeptInit /\ RbacInit /\ SessionInit
    BY DEF MCInit
  <1>2. [MCNext]_<<service, vars, deptVars, rbacVars, sessionVars>>
            => /\ [Next]_vars /\ [DeptNext]_deptVars /\ [RbacNext]_rbacVars
               /\ [SessionNext]_sessionVars
    BY DEF MCNext
  <1> QED
    BY <1>1, <1>2, PTL DEF MCSpec, Spec, DeptSpec, RbacSpec, SessionSpec

\* The rows, the slots and the histories of the three keep their types.
THEOREM PeopleTypes == MCSpec => []TypesOK
  <1>1. IInv /\ DeptIInv /\ RbacIInv => TypesOK
    BY DEF TypesOK, IInv, DeptIInv, RbacIInv
  <1> QED
    BY <1>1, PeopleImplement, ProjectInductive, DeptInductive, RbacInductive, PTL
===============================================================================
