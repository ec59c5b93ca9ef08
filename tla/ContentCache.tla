---------------------------- MODULE ContentCache ----------------------------
(***************************************************************************)
(* The Redis copies of projects, tasks, their lists and user profiles      *)
(* (src/modules/projects/redis, src/modules/tasks/redis,                   *)
(* src/modules/users/redis and the services that use them).                *)
(*                                                                         *)
(* A read that finds no copy loads the rows and stores a copy that lives   *)
(* for its TTL.  A write updates the rows and then deletes the copies it   *)
(* knows of: the one of the entity and, found with KEYS, the lists.  A     *)
(* copy also holds rows of other entities, whose writes do not know of it. *)
(* Redis may fail at every call, which is taken for a miss or ignored.     *)
(*                                                                         *)
(* There is one entity of each kind and one list; of its content, only     *)
(* which parts are out of date is kept.                                    *)
(***************************************************************************)
EXTENDS Handlers

Copy == {"project", "projects", "task", "tasks", "profile"}

\* What is written: projects with their members, tasks with their assignees,
\* profiles of users, departments with their managers, the time of the last login.
Fact == {"project", "task", "profile", "department", "login"}

\* The facts that a copy is made of: what the query that loads it includes, and
\* for the list of projects who may see which.
ProjectShows == {"project", "profile"}
ProjectsShow == {"project", "task", "department"}
TaskShows == {"task", "project", "profile", "department"}
TasksShow == {"task", "profile"}
ProfileShows == {"profile", "login"}
Shows == [project |-> ProjectShows, projects |-> ProjectsShow, task |-> TaskShows,
          tasks |-> TasksShow, profile |-> ProfileShows]

\* The copies that a write of a fact deletes, first the entity, then the list.
InvalidateProject == {"project", "projects"}
InvalidateTask == {"task", "tasks"}
InvalidateUser == {"profile"}
Deletes == [project |-> InvalidateProject, task |-> InvalidateTask,
            profile |-> InvalidateUser, department |-> {}, login |-> {}]
List == {"projects", "tasks"}

VARIABLES
    cached,     \* the copies that are in Redis
    old,        \* which parts of a copy are out of date
    cacheRq,    \* the requests under way
    missed,     \* history: copies an invalidation should have deleted and did not
    raced       \* history: copies that were out of date when they were stored

cacheVars == <<cached, old, cacheRq, missed, raced>>

\* loaded: a reader holds what it will store, old in the parts of .old.  written,
\* found: a writer has yet to delete .left; found: KEYS has named the list.
CacheRequest ==
    [stage : {"idle"}, copy : {"profile"}, left : {{}}, old : {{}}]
        \cup [stage : {"loaded"}, copy : Copy, left : {{}}, old : SUBSET Fact]
        \cup [stage : {"written", "found"}, copy : {"profile"}, left : SUBSET Copy, old : {{}}]
CacheIdle == [stage |-> "idle", copy |-> "profile", left |-> {}, old |-> {}]

CacheTypeOK ==
    /\ cached \subseteq Copy
    /\ old \in [Copy -> SUBSET Fact]
    /\ cacheRq \in [Request -> CacheRequest]
    /\ missed \subseteq Copy
    /\ raced \subseteq Copy

CacheInit ==
    /\ cached = {}
    /\ old = [c \in Copy |-> {}]
    /\ cacheRq = [r \in Request |-> CacheIdle]
    /\ missed = {}
    /\ raced = {}

-----------------------------------------------------------------------------
(* Readers *)

\* No copy, or no answer from Redis: the rows are loaded.
Load(r, c) ==
    /\ cacheRq[r].stage = "idle"
    /\ c \notin cached \/ MayFail
    /\ cacheRq' = [cacheRq EXCEPT ![r] = [CacheIdle EXCEPT !.stage = "loaded", !.copy = c]]
    /\ UNCHANGED <<cached, old, missed, raced>>

GetProject(r) == Load(r, "project")
ListProjects(r) == Load(r, "projects")
GetTask(r) == Load(r, "task")
ListTasks(r) == Load(r, "tasks")
\* Here no answer from Redis ends the request.
GetUserProfile(r) == "profile" \notin cached /\ Load(r, "profile")

\* SET replaces what is there.
SetCached(r) ==
    LET q == cacheRq[r] IN
    /\ q.stage = "loaded"
    /\ cached' = cached \cup {q.copy}
    /\ old' = [old EXCEPT ![q.copy] = q.old]
    /\ missed' = missed \ {q.copy}
    /\ raced' = IF q.old = {} THEN raced \ {q.copy} ELSE raced \cup {q.copy}
    /\ cacheRq' = [cacheRq EXCEPT ![r] = CacheIdle]

-----------------------------------------------------------------------------
(* Writers *)

\* The row is written: every copy of it is out of date, and so is what readers hold.
WriteFact(r, f) ==
    /\ cacheRq[r].stage = "idle"
    /\ old' = [c \in Copy |-> IF c \in cached /\ f \in Shows[c] THEN old[c] \cup {f} ELSE old[c]]
    /\ cacheRq' = [q \in Request |->
            IF q = r /\ Deletes[f] # {}
            THEN [CacheIdle EXCEPT !.stage = "written", !.left = Deletes[f]]
            ELSE IF cacheRq[q].stage = "loaded" /\ f \in Shows[cacheRq[q].copy]
            THEN [cacheRq[q] EXCEPT !.old = @ \cup {f}] ELSE cacheRq[q]]
    /\ UNCHANGED <<cached, missed, raced>>

UpdateProject(r) == WriteFact(r, "project")
UpdateTask(r) == WriteFact(r, "task")
UpdateProfile(r) == WriteFact(r, "profile")
UpdateDepartment(r) == WriteFact(r, "department")
UpdateLastLogin(r) == WriteFact(r, "login")

Gone(gone) ==
    /\ cached' = cached \ gone
    /\ old' = [c \in Copy |-> IF c \in gone THEN {} ELSE old[c]]
    /\ missed' = missed \ gone
    /\ raced' = raced \ gone

\* DEL of the copy of the entity.
DeleteCopy(r, c) ==
    LET q == cacheRq[r] IN
    /\ q.stage = "written" /\ c \in q.left \ List
    /\ Gone({c})
    /\ cacheRq' = [cacheRq EXCEPT ![r] = IF q.left = {c} THEN CacheIdle
                                         ELSE [@ EXCEPT !.left = q.left \ {c}]]

\* KEYS: no list, nothing more to delete.
FindLists(r) ==
    LET q == cacheRq[r] IN
    /\ q.stage = "written" /\ q.left # {} /\ q.left \subseteq List
    /\ cacheRq' = [cacheRq EXCEPT ![r] = IF q.left \subseteq cached
                                         THEN [@ EXCEPT !.stage = "found"] ELSE CacheIdle]
    /\ UNCHANGED <<cached, old, missed, raced>>

\* Mutant: the pattern is taken for a key.
DeleteLists_Pattern(r) ==
    /\ cacheRq[r].stage = "found"
    /\ cacheRq' = [cacheRq EXCEPT ![r] = CacheIdle]
    /\ UNCHANGED <<cached, old, missed, raced>>

\* DEL of the lists that KEYS has named.
DeleteLists(r) ==
    /\ cacheRq[r].stage = "found"
    /\ Gone(cacheRq[r].left)
    /\ cacheRq' = [cacheRq EXCEPT ![r] = CacheIdle]

\* Redis does not answer, or the process dies: what a reader holds is not stored,
\* and what a writer has yet to delete stays.
CacheFail(r) ==
    /\ MayFail
    /\ cacheRq[r].stage # "idle"
    /\ missed' = missed \cup (cacheRq[r].left \cap cached)
    /\ cacheRq' = [cacheRq EXCEPT ![r] = CacheIdle]
    /\ UNCHANGED <<cached, old, raced>>

\* Mutant: lists are stored without a lifetime.
Expire_NotLists(c) ==
    /\ c \in cached \ List
    /\ Gone({c})
    /\ UNCHANGED cacheRq

\* The TTL runs out.
Expire(c) ==
    /\ c \in cached
    /\ Gone({c})
    /\ UNCHANGED cacheRq

CacheNext ==
    \/ \E r \in Request :
        \/ GetProject(r) \/ ListProjects(r) \/ GetTask(r) \/ ListTasks(r) \/ GetUserProfile(r)
        \/ SetCached(r)
        \/ UpdateProject(r) \/ UpdateTask(r) \/ UpdateProfile(r) \/ UpdateDepartment(r)
        \/ UpdateLastLogin(r)
        \/ \E c \in Copy : DeleteCopy(r, c)
        \/ FindLists(r) \/ DeleteLists(r) \/ CacheFail(r)
    \/ \E c \in Copy : Expire(c)

\* Redis lets every copy expire.
CacheFairness == \A c \in Copy : WF_cacheVars(Expire(c))

CacheSpec == CacheInit /\ [][CacheNext]_cacheVars /\ CacheFairness
-----------------------------------------------------------------------------
(* Properties *)

\* A copy that is out of date in what its own writers changed is about to be deleted
\* by one of them, or one of them failed to, or a reader stored what it had loaded
\* before the write.  (In what others changed it may be out of date for its TTL.)
StaleCopyHasCause ==
    \A c \in cached : \A f \in old[c] :
        c \in Deletes[f] =>
            \/ c \in missed \cup raced
            \/ \E r \in Request : c \in cacheRq[r].left

\* Whatever failed or raced, and whoever wrote, no copy stays out of date.
EventuallyFresh == \A c \in Copy : []<>(c \notin cached \/ old[c] = {})
-----------------------------------------------------------------------------
(* The inductive invariant behind StaleCopyHasCause.                         *)

\* A writer has yet to delete copies of what it wrote, so of one list at most.
LeftInv == \A r \in Request : \E f \in Fact : cacheRq[r].left \subseteq Deletes[f]

CacheIInv == CacheTypeOK /\ LeftInv /\ StaleCopyHasCause
=============================================================================
