----------------------------- MODULE Departments -----------------------------
(***************************************************************************)
(* The departments of one tenant: managers, member rows and the home       *)
(* department of each user (src/modules/department).                       *)
(*                                                                         *)
(* A handler reads the department, then writes the member row, the home     *)
(* of the user and the department in statements of their own.  Who may     *)
(* call is left out, for an org admin may call everything, and so are      *)
(* roles of rows, names and task types; a name that is taken refuses or    *)
(* fails a request at the place where the code looks at it.                *)
(***************************************************************************)
EXTENDS Handlers

CONSTANTS
    Employee,     \* active members of the tenant
    Department,
    Nowhere       \* no home department; no manager yet

ASSUME NowhereAssumption == Nowhere \notin Department \cup Employee

VARIABLES
    dept,       \* the Department rows
    seat,       \* the DepartmentMember rows
    home,       \* TenantUser.homeDepartmentId
    deptRq,     \* the requests under way
    busyDept,   \* history: departments that two requests were at together
    busyUser,   \* history: users that two requests were about together
    halfway     \* history: users whose row was written and whose home was not

deptVars == <<dept, seat, home, deptRq, busyDept, busyUser, halfway>>

Dept == [state : {"none"}, manager : {Nowhere}]
            \cup [state : {"live", "deleted"}, manager : Employee]
Seat == {"none", "live", "removed"}
DeptStage == {"idle", "created", "add", "added", "remove", "removed",
              "promote", "promoted", "checkName", "update", "delete"}

\* user: Nowhere where the request is about no user.
DeptRequest ==
    [stage : {"idle", "checkName", "update", "delete"}, dept : Department \cup {Nowhere},
     user : Employee \cup {Nowhere}]
        \cup [stage : DeptStage, dept : Department, user : Employee]

DeptTypeOK ==
    /\ dept \in [Department -> Dept]
    /\ seat \in [Department -> [Employee -> Seat]]
    /\ home \in [Employee -> Department \cup {Nowhere}]
    /\ deptRq \in [Request -> DeptRequest]
    /\ busyDept \subseteq Department
    /\ busyUser \subseteq Employee
    /\ halfway \subseteq Employee

DeptIdle == [stage |-> "idle", dept |-> Nowhere, user |-> Nowhere]

DeptInit ==
    /\ dept = [d \in Department |-> [state |-> "none", manager |-> Nowhere]]
    /\ seat = [d \in Department |-> [u \in Employee |-> "none"]]
    /\ home = [u \in Employee |-> Nowhere]
    /\ deptRq = [r \in Request |-> DeptIdle]
    /\ busyDept = {}
    /\ busyUser = {}
    /\ halfway = {}

-----------------------------------------------------------------------------
DeptGo(r, stage) == deptRq' = [deptRq EXCEPT ![r].stage = stage]
DeptDone(r) == deptRq' = [deptRq EXCEPT ![r] = DeptIdle]

\* A request begins: the department, and the user it is about.
DeptBegin(r, d, u, stage) ==
    /\ deptRq[r].stage = "idle"
    /\ deptRq' = [deptRq EXCEPT ![r] = [stage |-> stage, dept |-> d, user |-> u]]
    /\ LET others == {q \in Request \ {r} : deptRq[q].stage # "idle"} IN
       /\ busyDept' = IF \E q \in others : deptRq[q].dept = d THEN busyDept \cup {d} ELSE busyDept
       /\ busyUser' = IF \E q \in others : deptRq[q].user = u THEN busyUser \cup ({u} \ {Nowhere}) ELSE busyUser
    /\ UNCHANGED halfway

\* findDepartmentById looks past departments that were deleted.
Found(d) == dept[d].state = "live"

\* The department and the row of its manager are one statement.
InsertDepartment(d, u) ==
    /\ dept' = [dept EXCEPT ![d] = [state |-> "live", manager |-> u]]
    /\ seat' = [seat EXCEPT ![d][u] = "live"]

CreateDepartment(r, d, u) ==
    /\ dept[d].state = "none"
    /\ InsertDepartment(d, u)
    /\ DeptBegin(r, d, u, "created")
    /\ UNCHANGED home

AddMemberRead(r, d, u) ==
    /\ Found(d)
    /\ DeptBegin(r, d, u, "add")
    /\ UNCHANGED <<dept, seat, home>>

\* Mutant: no look at the manager.
RemoveMemberRead_Manager(r, d, u) ==
    /\ Found(d)
    /\ seat[d][u] # "none"
    /\ DeptBegin(r, d, u, "remove")
    /\ UNCHANGED <<dept, seat, home>>

\* A row that was removed is found again.
RemoveMemberRead(r, d, u) ==
    /\ Found(d)
    /\ dept[d].manager # u
    /\ seat[d][u] # "none"
    /\ DeptBegin(r, d, u, "remove")
    /\ UNCHANGED <<dept, seat, home>>

\* A manager that is not sent (Nowhere), or is the one it read, gets no rows.
UpdateDepartmentRead(r, d, u) ==
    /\ Found(d)
    /\ DeptBegin(r, d, u, IF u \in {Nowhere, dept[d].manager} THEN "checkName" ELSE "promote")
    /\ UNCHANGED <<dept, seat, home>>

DeleteDepartmentRead(r, d) ==
    /\ Found(d)
    /\ DeptBegin(r, d, Nowhere, "delete")
    /\ UNCHANGED <<dept, seat, home>>

-----------------------------------------------------------------------------
\* addDepartmentMember: the row is made or revived.
AddDepartmentMember(r) ==
    LET q == deptRq[r] IN
    /\ q.stage \in {"add", "promote"}
    /\ seat' = [seat EXCEPT ![q.dept][q.user] = "live"]
    /\ halfway' = halfway \cup {q.user}
    /\ DeptGo(r, IF q.stage = "add" THEN "added" ELSE "promoted")
    /\ UNCHANGED <<dept, home, busyDept, busyUser>>

\* removeDepartmentMember
RemoveDepartmentMember(r) ==
    LET q == deptRq[r] IN
    /\ q.stage = "remove"
    /\ seat' = [seat EXCEPT ![q.dept][q.user] = "removed"]
    /\ halfway' = halfway \cup {q.user}
    /\ DeptGo(r, "removed")
    /\ UNCHANGED <<dept, home, busyDept, busyUser>>

\* The statement on the home of the user that follows the one on the row.
WriteHome(r, stage, place) ==
    /\ deptRq[r].stage = stage
    /\ home' = [home EXCEPT ![deptRq[r].user] = place]
    /\ halfway' = halfway \ {deptRq[r].user}
    /\ UNCHANGED <<dept, seat, busyDept, busyUser>>

\* createDepartment, addMember, updateDepartment: the home follows the row.
HomeOfFirstManager(r) == WriteHome(r, "created", deptRq[r].dept) /\ DeptDone(r)
HomeOfMember(r) == WriteHome(r, "added", deptRq[r].dept) /\ DeptDone(r)
HomeOfManager(r) == WriteHome(r, "promoted", deptRq[r].dept) /\ DeptGo(r, "checkName")

\* Mutant: the home of a member who leaves is kept.
NoHome_Keep(r) == WriteHome(r, "removed", home[deptRq[r].user]) /\ DeptDone(r)

\* removeMember clears the home, even when it is another department.
NoHome(r) == WriteHome(r, "removed", Nowhere) /\ DeptDone(r)

\* updateDepartment looks at the name after it wrote the rows: one that is taken
\* refuses the update.
CheckName(r) ==
    /\ deptRq[r].stage = "checkName"
    /\ DeptGo(r, "update") \/ DeptDone(r)
    /\ UNCHANGED <<dept, seat, home, busyDept, busyUser, halfway>>

\* Mutant: a manager that was not sent is written.
UpdateDepartmentWrite_Unsent(r) ==
    LET q == deptRq[r] IN
    /\ q.stage = "update"
    /\ dept' = [dept EXCEPT ![q.dept].manager = q.user]
    /\ DeptDone(r)
    /\ UNCHANGED <<seat, home, busyDept, busyUser, halfway>>

\* managerId is written when it was sent.
UpdateDepartmentWrite(r) ==
    LET q == deptRq[r] IN
    /\ q.stage = "update"
    /\ dept' = IF q.user = Nowhere THEN dept ELSE [dept EXCEPT ![q.dept].manager = q.user]
    /\ DeptDone(r)
    /\ UNCHANGED <<seat, home, busyDept, busyUser, halfway>>

\* softDeleteDepartment: the member rows and the homes stay.
SoftDelete(d) == dept' = [dept EXCEPT ![d].state = "deleted"]

DeleteDepartmentWrite(r) ==
    /\ deptRq[r].stage = "delete"
    /\ SoftDelete(deptRq[r].dept)
    /\ DeptDone(r)
    /\ UNCHANGED <<seat, home, busyDept, busyUser, halfway>>

DeptFail(r) ==
    /\ MayFail
    /\ deptRq[r].stage # "idle"
    /\ DeptDone(r)
    /\ UNCHANGED <<dept, seat, home, busyDept, busyUser, halfway>>

DeptNext == \E r \in Request :
    \/ \E d \in Department :
        \/ \E u \in Employee :
            CreateDepartment(r, d, u) \/ AddMemberRead(r, d, u) \/ RemoveMemberRead(r, d, u)
        \/ \E u \in Employee \cup {Nowhere} : UpdateDepartmentRead(r, d, u)
        \/ DeleteDepartmentRead(r, d)
    \/ AddDepartmentMember(r) \/ RemoveDepartmentMember(r)
    \/ HomeOfFirstManager(r) \/ HomeOfMember(r) \/ HomeOfManager(r) \/ NoHome(r)
    \/ CheckName(r) \/ UpdateDepartmentWrite(r) \/ DeleteDepartmentWrite(r)
    \/ DeptFail(r)

DeptSpec == DeptInit /\ [][DeptNext]_deptVars
-----------------------------------------------------------------------------
(* Properties *)

\* A department's manager has a member row there, however updates are refused or cut
\* short between the row and the managerId, unless two requests were at the
\* department together: a removal that read the former manager takes the row of the
\* new one.
ManagerStaysMember ==
    \A d \in Department :
        dept[d].state # "none" /\ d \notin busyDept => seat[d][dept[d].manager] = "live"

\* A home department is one whose member the user is, unless a request wrote the row
\* and not (or not yet) the home, or two requests were about the user together.
HomeHasRow ==
    \A u \in Employee \ (busyUser \cup halfway) :
        home[u] # Nowhere => seat[home[u]][u] = "live"
-----------------------------------------------------------------------------
(* The inductive invariant behind them.                                      *)

\* Two requests under way at one department, or about one user, are recorded.
OverlapsRecorded == \A r, q \in Request :
    r # q /\ deptRq[r].stage # "idle" /\ deptRq[q].stage # "idle" =>
        /\ deptRq[r].dept = deptRq[q].dept => deptRq[r].dept \in busyDept
        /\ deptRq[r].user = deptRq[q].user => deptRq[r].user \in busyUser \cup {Nowhere}

\* What a request that is alone at its department, or about its user, relies on.
ReliesOn(q) ==
    /\ q.stage # "idle" => q.dept \in Department /\ dept[q.dept].state # "none"
    /\ q.stage = "remove" /\ q.dept \notin busyDept => dept[q.dept].manager # q.user
    /\ q.stage \in {"promoted", "checkName", "update"} /\ q.user # Nowhere /\ q.dept \notin busyDept
            => seat[q.dept][q.user] = "live"
    /\ q.stage \in {"created", "added", "promoted"} /\ q.user \notin busyUser
            => seat[q.dept][q.user] = "live"

DeptIInv ==
    /\ DeptTypeOK
    /\ ManagerStaysMember
    /\ HomeHasRow
    /\ OverlapsRecorded
    /\ \A r \in Request : ReliesOn(deptRq[r])
=============================================================================
