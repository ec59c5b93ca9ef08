------------------------------ MODULE MCPeople ------------------------------
(***************************************************************************)
(* ProjectMembers, Departments, RolePermissions and AuthSessions in one    *)
(* run.  They share no variable and no statement, so a behaviour takes the *)
(* steps of one of them.  RolePermissions comes in two slices: requests    *)
(* that change the role side by side, and requests that ask while one      *)
(* changes it.                                                             *)
(***************************************************************************)
EXTENDS ProjectMembers, Departments, RolePermissions, AuthSessions, TLC

\* A department that is joined and left, by one request at a time, and keeps its
\* manager.  (Requests at two departments touch nothing in common, except when they
\* are about one user, which HomeHasRow excuses.)
CONSTANT Other

VARIABLE service

MCInit ==
    /\ service \in {"projects", "departments", "changes", "questions", "sessions"}
    /\ Init /\ DeptInit /\ RbacInit /\ SessionInit
    /\ service \notin {"changes", "questions"} => role = "system" /\ grants = {}
    /\ service # "sessions" => password = 0

\* Projects and sessions stop where the properties say nothing any more: after
\* a stale write of a project, and after a lost change of the password and a
\* token found twice.  The user of the sessions is inactive before the first of
\* them only: what is under way reads isActive no more, and what may start
\* then is a part of what may start otherwise.
MCNext ==
    /\ UNCHANGED service
    /\ \/ service = "projects" /\ Next /\ ~stale /\ UNCHANGED <<deptVars, rbacVars, sessionVars>>
       \/ /\ service = "departments" /\ DeptNext /\ UNCHANGED <<vars, rbacVars, sessionVars>>
          /\ \A r \in Request : deptRq'[r].dept = Other =>
                /\ deptRq'[r].stage \in {"created", "add", "added", "remove", "removed"}
                /\ \A q \in Request \ {r} : deptRq'[q].stage = "idle"
       \/ /\ RbacNext /\ UNCHANGED <<vars, deptVars, sessionVars>>
          /\ \/ /\ service = "changes"
                /\ \A r \in Request : rbacRq'[r].stage \notin {"check", "list"}
             \/ /\ service = "questions"
                /\ \E q \in Request : \A r \in Request \ {q} :
                        rbacRq'[r].stage \in {"idle", "check", "list"}
       \/ /\ service = "sessions" /\ SessionNext /\ UNCHANGED <<vars, deptVars, rbacVars>>
          /\ ~(lost /\ twice)
          /\ ~active' => \A t \in Second : session'[t] = NoSession

MCSpec == MCInit /\ [][MCNext]_<<service, vars, deptVars, rbacVars, sessionVars>>

TypesOK == TypeOK /\ DeptTypeOK /\ RbacTypeOK

\* The employees are two of the users.
Exchangeable == Permutations(Request) \cup Permutations(User \ {Creator})
=============================================================================
