--------------------------- MODULE RolePermissions ---------------------------
(***************************************************************************)
(* The permissions of one role and of one user who has it                  *)
(* (src/modules/rbac).                                                     *)
(*                                                                         *)
(* updateRolePermissions reads the rows the role has and then adds and     *)
(* removes single rows side by side; deleteRole removes the rows and then  *)
(* the role, which fails while rows are left.  A check reads the override  *)
(* of the user and then the role, a listing reads the role and then the    *)
(* overrides.                                                              *)
(*                                                                         *)
(* The user's role is not ADMIN, whose checks are all passed unread.  Only *)
(* roles that users cannot have can be deleted, so the users of a role     *)
(* that is not a system role only matter as long as it is there.           *)
(***************************************************************************)
EXTENDS Handlers

CONSTANTS
    Permission,
    NoPermission

ASSUME NoPermissionAssumption == NoPermission \notin Permission

VARIABLES
    role,       \* the RoleDefinition row: isSystem, or one that can be deleted, or gone
    grants,     \* the RolePermission rows of the role
    override,   \* the TenantUserPermission rows of the user
    rbacRq,     \* the requests under way
    wanted,     \* history: what the requests that last changed the role wanted
    maimed,     \* history: one of them ended half way
    unheld,     \* history: an answer was given that held at no time of its request
    late        \* history: a check read the role after an override had come

rbacVars == <<role, grants, override, rbacRq, wanted, maimed, unheld, late>>

\* want: the permissions of a change; left: the rows it has yet to write.  of: what a
\* check or a listing is about; read: what a listing read; held: what held meanwhile.
RbacRequest == [stage : {"idle", "set", "apply", "clear", "drop", "check", "list"},
                want : SUBSET Permission, left : SUBSET Permission,
                of : Permission \cup {NoPermission}, read : BOOLEAN, held : SUBSET BOOLEAN]
Override == {"none", "allow", "deny"}
RbacIdle == [stage |-> "idle", want |-> {}, left |-> {}, of |-> NoPermission,
             read |-> FALSE, held |-> {}]

RbacTypeOK ==
    /\ role \in {"system", "custom", "gone"}
    /\ grants \subseteq Permission
    /\ override \in [Permission -> Override]
    /\ rbacRq \in [Request -> RbacRequest]
    /\ wanted \in [Permission -> SUBSET BOOLEAN]
    /\ maimed \in BOOLEAN
    /\ unheld \in BOOLEAN
    /\ late \in BOOLEAN

\* A system role as it was seeded, or a role that was just created.
RbacInit ==
    /\ \/ role = "system" /\ grants \in SUBSET Permission
       \/ role = "custom" /\ grants = {}
    /\ override = [p \in Permission |-> "none"]
    /\ rbacRq = [r \in Request |-> RbacIdle]
    /\ wanted = [p \in Permission |-> {(p \in grants)}]
    /\ maimed = FALSE
    /\ unheld = FALSE
    /\ late = FALSE

-----------------------------------------------------------------------------
\* What the override says, or else the role.
Effective(p, over, rows) == IF over[p] # "none" THEN over[p] = "allow" ELSE p \in rows

\* Requests that ask see what holds after a change of the rows.
Seen(rq, over, rows) == [r \in Request |->
    IF rq[r].stage \in {"check", "list"}
    THEN [rq[r] EXCEPT !.held = @ \cup {Effective(rq[r].of, over, rows)}] ELSE rq[r]]

Changing(r) == rbacRq[r].stage \in {"set", "apply", "clear", "drop"}

\* A change of the role begins; one that begins while another is under way competes.
RbacBegin(r, stage, want) ==
    /\ rbacRq[r].stage = "idle"
    /\ rbacRq' = [rbacRq EXCEPT ![r] = [RbacIdle EXCEPT !.stage = stage, !.want = want]]
    /\ wanted' = [p \in Permission |-> {(p \in want)}
                        \cup IF \E q \in Request : Changing(q) THEN wanted[p] ELSE {}]
    /\ maimed' = (maimed /\ \E q \in Request : Changing(q))
    /\ UNCHANGED <<role, grants, override, unheld, late>>

\* updateRolePermissions, for system roles too, and deleteRole, not for these.
UpdateRolePermissions(r, want) == role # "gone" /\ RbacBegin(r, "set", want)
DeleteRole(r) == role = "custom" /\ RbacBegin(r, "clear", {})

\* Mutant: rows that are no longer wanted are not removed.
Difference_OnlyAdds(want) == want \ grants

\* The rows to add and the rows to remove.
Difference(want) == (want \ grants) \cup (grants \ want)

ReadGrants(r) ==
    LET q == rbacRq[r] IN
    /\ q.stage = "set"
    /\ rbacRq' = [rbacRq EXCEPT ![r] = IF Difference(q.want) = {} THEN RbacIdle
                        ELSE [q EXCEPT !.stage = "apply", !.left = Difference(q.want)]]
    /\ UNCHANGED <<role, grants, override, wanted, maimed, unheld, late>>

\* One of the statements that run side by side; one that finds its row written, or
\* the role gone, fails the request and leaves the others to run.
WriteGrant(r, p) ==
    LET q == rbacRq[r]
        rest == [rbacRq EXCEPT ![r] = IF q.left = {p} THEN RbacIdle
                                      ELSE [q EXCEPT !.left = @ \ {p}]]
    IN
    /\ q.stage = "apply" /\ p \in q.left
    /\ grants' = IF p \notin q.want THEN grants \ {p}
                 ELSE IF role = "gone" THEN grants ELSE grants \cup {p}
    /\ rbacRq' = Seen(rest, override, grants')
    /\ UNCHANGED <<role, override, wanted, maimed, unheld, late>>

ClearGrants(r) ==
    /\ rbacRq[r].stage = "clear"
    /\ grants' = {}
    /\ rbacRq' = Seen([rbacRq EXCEPT ![r].stage = "drop"], override, {})
    /\ UNCHANGED <<role, override, wanted, maimed, unheld, late>>

\* The role goes unless rows have come back.
DropRole(r) ==
    /\ rbacRq[r].stage = "drop"
    /\ role' = IF grants = {} THEN "gone" ELSE role
    /\ rbacRq' = [rbacRq EXCEPT ![r] = RbacIdle]
    /\ UNCHANGED <<grants, override, wanted, maimed, unheld, late>>

\* assignUserPermission: an override is only ever set.
AssignUserPermission(p, verdict) ==
    /\ override' = [override EXCEPT ![p] = verdict]
    /\ rbacRq' = Seen(rbacRq, override', grants)
    /\ UNCHANGED <<role, grants, wanted, maimed, unheld, late>>

-----------------------------------------------------------------------------
(* checkUserPermission and getUserPermissions, of one permission *)

Ask(r, stage, p) ==
    /\ rbacRq[r].stage = "idle"
    /\ rbacRq' = [rbacRq EXCEPT ![r] = [RbacIdle EXCEPT !.stage = stage, !.of = p,
                        !.read = p \in grants, !.held = {Effective(p, override, grants)}]]
    /\ UNCHANGED <<role, grants, override, wanted, maimed, unheld, late>>

\* No override decides; the role has to be asked.
CheckOverride(r, p) == override[p] = "none" /\ Ask(r, "check", p)

ListGrants(r, p) == Ask(r, "list", p)

Answer(r, answer) ==
    /\ unheld' = (unheld \/ answer \notin rbacRq[r].held)
    /\ rbacRq' = [rbacRq EXCEPT ![r] = RbacIdle]
    /\ UNCHANGED <<role, grants, override, wanted, maimed>>

CheckRole(r) ==
    LET p == rbacRq[r].of IN
    /\ rbacRq[r].stage = "check"
    /\ Answer(r, p \in grants)
    /\ late' = (late \/ override[p] # "none")

\* Mutant: an override that denies is not looked at.
ListOverrides_Allows(r) ==
    LET p == rbacRq[r].of IN
    /\ rbacRq[r].stage = "list"
    /\ Answer(r, override[p] = "allow" \/ rbacRq[r].read)
    /\ UNCHANGED late

\* Overrides that allow add to what was read of the role, and those that deny remove.
ListOverrides(r) ==
    LET p == rbacRq[r].of IN
    /\ rbacRq[r].stage = "list"
    /\ Answer(r, override[p] = "allow" \/ (override[p] # "deny" /\ rbacRq[r].read))
    /\ UNCHANGED late

RbacFail(r) ==
    /\ MayFail
    /\ rbacRq[r].stage # "idle"
    /\ maimed' = (maimed \/ Changing(r))
    /\ rbacRq' = [rbacRq EXCEPT ![r] = RbacIdle]
    /\ UNCHANGED <<role, grants, override, wanted, unheld, late>>

RbacNext ==
    \/ \E p \in Permission, verdict \in {"allow", "deny"} : AssignUserPermission(p, verdict)
    \/ \E r \in Request :
        \/ \E want \in SUBSET Permission : UpdateRolePermissions(r, want)
        \/ DeleteRole(r) \/ ReadGrants(r) \/ ClearGrants(r) \/ DropRole(r)
        \/ \E p \in Permission : WriteGrant(r, p) \/ CheckOverride(r, p) \/ ListGrants(r, p)
        \/ CheckRole(r) \/ ListOverrides(r) \/ RbacFail(r)

RbacSpec == RbacInit /\ [][RbacNext]_rbacVars
-----------------------------------------------------------------------------
(* Properties *)

\* When no change of the role is under way and none was cut short, each permission
\* is as one of the changes that last ran together wanted it, whichever of their
\* statements failed on what another had written.
RoleIsAsWanted ==
    role # "gone" /\ ~maimed /\ (\A r \in Request : ~Changing(r)) =>
        \A p \in Permission : (p \in grants) \in wanted[p]

\* What a check or a listing answers of a permission held at some moment of the
\* request, unless a check found no override and one had come when it read the role.
AnswerHeld == unheld => late
-----------------------------------------------------------------------------
(* The inductive invariant behind them.                                      *)

\* A request that is about a permission is about one that there is.
RbacShape == \A r \in Request :
    /\ rbacRq[r].stage \in {"check", "list"} => rbacRq[r].of \in Permission
    /\ rbacRq[r].stage \in {"clear", "drop"} => rbacRq[r].want = {}

\* r has yet to write what it wants of p.
WillWrite(r, p) ==
    \/ rbacRq[r].stage \in {"set", "clear"}
    \/ rbacRq[r].stage = "apply" /\ p \in rbacRq[r].left

\* What a change under way wants is wanted, and a row that nobody wants is about to
\* be written by one of them.
WantedInv ==
    \A p \in Permission :
        /\ \A r \in Request : Changing(r) => (p \in rbacRq[r].want) \in wanted[p]
        /\ role # "gone" /\ ~maimed =>
                (p \in grants) \in wanted[p] \/ \E r \in Request : WillWrite(r, p)

\* What is in force is known to hold to those who ask; and so is what a listing read,
\* as long as no override has come.
HeldInv ==
    \A r \in Request :
        LET q == rbacRq[r] IN
        /\ q.stage \in {"check", "list"} => Effective(q.of, override, grants) \in q.held
        /\ q.stage = "list" /\ override[q.of] = "none" => q.read \in q.held

RbacIInv == RbacTypeOK /\ RbacShape /\ WantedInv /\ HeldInv /\ AnswerHeld
=============================================================================
