--------------------------- MODULE ProjectMembers ---------------------------
(***************************************************************************)
(* The members of one project (src/modules/projects).                      *)
(*                                                                         *)
(* A handler reads the project and the actor's row, then the target's row, *)
(* then writes; nothing it read is locked and no write repeats a check.    *)
(* getProjectMembership does not look at removedAt: a removed member keeps *)
(* a row and a role, and the checks take it for a member.                  *)
(*                                                                         *)
(* The project and the actor's row are read in one step: a deletion that   *)
(* comes between the two might as well come after them.  Whether the       *)
(* target is a member of the tenant is the business of TenantMembership:   *)
(* here the answer may be either.  updateProject writes the body of the    *)
(* request as it came; of the columns it may name, deletedAt counts here.  *)
(***************************************************************************)
EXTENDS Handlers

CONSTANTS
    User,
    Creator        \* who creates the project

ASSUME CreatorAssumption == Creator \in User

Role == {"OWNER", "MAINTAINER", "MEMBER"}

VARIABLES
    project,    \* the Project row: not yet there, live, or deletedAt is set
    row,        \* ProjectMember rows
    rq,         \* the requests under way
    stale,      \* history: a request wrote what its own checks, repeated then, refuse
    ghost       \* history: a request wrote for an actor who was no longer a member

vars == <<project, row, rq, stale, ghost>>

\* state: no row, removedAt is null, removedAt is set.
Row == [role : Role, state : {"none", "active", "removed"}]
NoRow == [role |-> "MEMBER", state |-> "none"]

Operation == {"add", "remove", "role", "update", "delete"}
OnMember == {"add", "remove", "role"}
\* rank: the role of the actor, as read.
RequestState == [stage : {"idle", "creating", "authorized", "ready"}, op : Operation,
                 actor : User, target : User, rank : Role]
Idle == [stage |-> "idle", op |-> "delete", actor |-> Creator, target |-> Creator,
         rank |-> "MEMBER"]

TypeOK ==
    /\ project \in {"none", "live", "deleted"}
    /\ row \in [User -> Row]
    /\ rq \in [Request -> RequestState]
    /\ stale \in BOOLEAN
    /\ ghost \in BOOLEAN

Init ==
    /\ project = "none"
    /\ row = [u \in User |-> NoRow]
    /\ rq = [r \in Request |-> Idle]
    /\ stale = FALSE
    /\ ghost = FALSE

-----------------------------------------------------------------------------
(* What the service asks of the rows.                                        *)

Member(u) == row[u].state # "none"      \* getProjectMembership answers
Active(u) == row[u].state = "active"
Owns(u) == Member(u) /\ row[u].role = "OWNER"
Leads(u) == Member(u) /\ row[u].role \in {"OWNER", "MAINTAINER"}

\* Whether an actor of a role may take target u out.
MayRemove(actor, rank, u) ==
    /\ Member(u)
    /\ IF actor = u THEN row[u].role # "OWNER"
       ELSE rank = "MAINTAINER" => row[u].role = "MEMBER"

\* The first part of the checks of an operation: the rows of the actor.
ActorPasses(op, actor, target) ==
    CASE op = "add"    -> Leads(actor)
      [] op = "remove" -> actor = target \/ Leads(actor)
      [] op = "role"   -> Owns(actor)
      [] op = "update" -> Leads(actor)
      [] op = "delete" -> Owns(actor)

\* Mutant: an owner may leave.
TargetPasses_OwnerLeaves(op, actor, rank, target) ==
    CASE op = "add"    -> ~Member(target)
      [] op = "remove" -> Member(target) /\ (actor # target /\ rank = "MAINTAINER"
                                                => row[target].role = "MEMBER")
      [] op = "role"   -> Member(target) /\ actor # target
      [] OTHER         -> TRUE

\* Mutant: updateMemberRole lets an owner change the own role.
TargetPasses_OwnRole(op, actor, rank, target) ==
    CASE op = "add"    -> ~Member(target)
      [] op = "remove" -> MayRemove(actor, rank, target)
      [] op = "role"   -> Member(target)
      [] OTHER         -> TRUE

\* The second part: the row of the target.
TargetPasses(op, actor, rank, target) ==
    CASE op = "add"    -> ~Member(target)
      [] op = "remove" -> MayRemove(actor, rank, target)
      [] op = "role"   -> Member(target) /\ actor # target
      [] OTHER         -> TRUE

-----------------------------------------------------------------------------
(* createProject: the departments are valid and the actor may create a       *)
(* project in them; then one transaction.                                   *)

CreateProjectCheck(r) ==
    /\ project = "none"
    /\ rq[r].stage = "idle"
    /\ rq' = [rq EXCEPT ![r] = [Idle EXCEPT !.stage = "creating"]]
    /\ UNCHANGED <<project, row, stale, ghost>>

\* The transaction: the project, its owner, its departments.
CreateProjectCommit(r) ==
    /\ rq[r].stage = "creating"
    /\ project = "none"
    /\ project' = "live"
    /\ row' = [row EXCEPT ![Creator] = [role |-> "OWNER", state |-> "active"]]
    /\ rq' = [rq EXCEPT ![r] = Idle]
    /\ UNCHANGED <<stale, ghost>>

-----------------------------------------------------------------------------
(* addMember, removeMember, updateMemberRole, updateProject, deleteProject.   *)
(* The last two have no target.                                             *)

Authorize(r, op, actor, target) ==
    /\ project = "live"
    /\ rq[r].stage = "idle"
    /\ ActorPasses(op, actor, target)
    /\ op \notin OnMember => target = actor
    /\ rq' = [rq EXCEPT ![r] = [stage |-> IF op \in OnMember THEN "authorized" ELSE "ready",
                                op |-> op, actor |-> actor, target |-> target,
                                rank |-> row[actor].role]]
    /\ UNCHANGED <<project, row, stale, ghost>>

ReadTarget(r) ==
    /\ rq[r].stage = "authorized"
    /\ TargetPasses(rq[r].op, rq[r].actor, rq[r].rank, rq[r].target)
    /\ rq' = [rq EXCEPT ![r] = [@ EXCEPT !.stage = "ready"]]
    /\ UNCHANGED <<project, row, stale, ghost>>

\* addMember refuses whoever has a row, removed or not.
RefuseTarget(r) ==
    /\ rq[r].stage = "authorized"
    /\ ~TargetPasses(rq[r].op, rq[r].actor, rq[r].rank, rq[r].target)
    /\ rq' = [rq EXCEPT ![r] = Idle]
    /\ UNCHANGED <<project, row, stale, ghost>>

\* The write of request r is done: what would its checks say now?
Finish(r) ==
    LET q == rq[r] IN
    /\ stale' = (stale \/ ~ActorPasses(q.op, q.actor, q.target)
                       \/ ~TargetPasses(q.op, q.actor, row[q.actor].role, q.target))
    /\ ghost' = (ghost \/ ~Active(q.actor))
    /\ rq' = [rq EXCEPT ![r] = Idle]

Ready(r, op) == rq[r].stage = "ready" /\ rq[r].op = op

\* addProjectMember upserts the row.
AddMemberWrite(r) ==
    /\ Ready(r, "add")
    /\ \E role \in Role :
            row' = [row EXCEPT ![rq[r].target] = [role |-> role, state |-> "active"]]
    /\ Finish(r)
    /\ UNCHANGED project

RemoveMemberWrite(r) ==
    /\ Ready(r, "remove")
    /\ row' = [row EXCEPT ![rq[r].target] = [@ EXCEPT !.state = "removed"]]
    /\ Finish(r)
    /\ UNCHANGED project

\* The role of a removed member can be changed.
UpdateMemberRoleWrite(r) ==
    /\ Ready(r, "role")
    /\ \E role \in Role : row' = [row EXCEPT ![rq[r].target] = [@ EXCEPT !.role = role]]
    /\ Finish(r)
    /\ UNCHANGED project

\* The body may name deletedAt, as a date or as null.
UpdateProjectWrite(r) ==
    /\ Ready(r, "update")
    /\ project' \in {"live", "deleted"}
    /\ Finish(r)
    /\ UNCHANGED row

DeleteProjectWrite(r) ==
    /\ Ready(r, "delete")
    /\ project' = "deleted"
    /\ Finish(r)
    /\ UNCHANGED row

\* A request ends between two statements: another refusal, a database error,
\* a crash.
Fail(r) ==
    /\ MayFail
    /\ rq[r].stage # "idle"
    /\ rq' = [rq EXCEPT ![r] = Idle]
    /\ UNCHANGED <<project, row, stale, ghost>>

Step(r) ==
    \/ CreateProjectCheck(r) \/ CreateProjectCommit(r)
    \/ \E op \in Operation, actor \in User, target \in User : Authorize(r, op, actor, target)
    \/ ReadTarget(r) \/ RefuseTarget(r)
    \/ AddMemberWrite(r) \/ RemoveMemberWrite(r) \/ UpdateMemberRoleWrite(r)
    \/ UpdateProjectWrite(r) \/ DeleteProjectWrite(r)
    \/ Fail(r)

Next == \E r \in Request : Step(r)

Spec == Init /\ [][Next]_vars
-----------------------------------------------------------------------------
(* Properties *)

\* A project never loses the last row that passes the owner's checks, unless two
\* requests crossed: two owners who demote each other leave nobody who can
\* change a role or delete the project.
OwnerRowRemains == project # "none" /\ ~stale => \E u \in User : Owns(u)

\* A project keeps an owner who is still a member, unless two requests crossed
\* or a removed member, whom the checks let pass, went on to act: a removed
\* owner can remove the owner who is left.
ActiveOwnerRemains ==
    project # "none" /\ ~stale /\ ~ghost => \E u \in User : Owns(u) /\ Active(u)

\* What the comment of addProjectMember says: "re-adding a removed member reactivates".
\* A member who may add members, and of whom no check but that of the target is left, comes
\* to the upsert.
ReaddingReactivates ==
    [][\A r \in Request :
        /\ rq[r].stage = "authorized" /\ rq[r].op = "add" /\ rq'[r] # rq[r]
        /\ Active(rq[r].actor) /\ row[rq[r].target].state = "removed"
        => rq'[r].stage = "ready"]_vars
-----------------------------------------------------------------------------
(* The inductive invariant behind the two ownership properties.              *)

\* Requests keep their shape: only a live project is worked on, rows exist from
\* its creation, and a target that was found is still found.
ShapeInv ==
    /\ project = "none" => \A u \in User : ~Member(u)
    /\ \A r \in Request :
        /\ rq[r].stage \in {"authorized", "ready"} => project # "none"
        /\ rq[r].stage = "ready" /\ rq[r].op \in {"remove", "role"} => Member(rq[r].target)
        /\ rq[r].stage = "ready" /\ rq[r].op = "role" => rq[r].actor # rq[r].target

IInv == TypeOK /\ ShapeInv /\ OwnerRowRemains /\ ActiveOwnerRemains
=============================================================================
