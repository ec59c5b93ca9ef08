------------------------------- MODULE MCWork -------------------------------
(***************************************************************************)
(* TaskLifecycle, TaskTeam and TimeEntries in one run.  They share no      *)
(* variable and no statement, so a behaviour takes the steps of one of     *)
(* them.  TaskLifecycle comes in four slices: the fields of a status and   *)
(* of a due date are written side by side and do not look at each other,   *)
(* so overlapping requests change one of the two, and requests that change *)
(* both come one at a time, as do those whose bodies name other columns.   *)
(* TaskTeam comes in two: comments take of the assignees only who may see  *)
(* the task, which the standing of a user decides as well.                 *)
(***************************************************************************)
EXTENDS TaskLifecycle, TaskTeam, TimeEntries, TLC

VARIABLE service

\* One user is an admin, who sees the task anyway.
Admin == [offices |-> {"admin"}, project |-> "active", member |-> TRUE, home |-> TRUE]

\* The users that visibility and eligibility tell apart: a stranger, a colleague, a
\* former colleague, a guest of a department, a manager, and the creator who has left.
Example == {[offices |-> {}, project |-> "none", member |-> FALSE, home |-> FALSE],
            [offices |-> {}, project |-> "active", member |-> TRUE, home |-> TRUE],
            [offices |-> {}, project |-> "removed", member |-> FALSE, home |-> FALSE],
            [offices |-> {}, project |-> "none", member |-> TRUE, home |-> FALSE],
            [offices |-> {"manager"}, project |-> "none", member |-> TRUE, home |-> TRUE],
            [offices |-> {"creator"}, project |-> "none", member |-> FALSE, home |-> FALSE]}

\* A body that names two columns writes what two updates do that name one each.
OneColumn ==
    {NoColumn}
        \cup {[NoColumn EXCEPT ![d] = sent] :
                    d \in Date \cup {"deletedAt"}, sent \in {"date", "null"}}
        \cup {[NoColumn EXCEPT !.initialDueDate = due] : due \in Due}

MCInit ==
    /\ service \in {"statuses", "deadlines", "tasks", "bodies", "assignees", "comments", "time"}
    /\ TaskInit /\ TeamInit /\ EntryInit
    /\ standing[Someone] = Admin
    /\ \A u \in User \ {Someone} :
            standing[u] \in IF service \in {"assignees", "comments"} THEN Example ELSE {Admin}

Statuses == task'.dueDate = Null /\ \A r \in Request : taskRq'[r].dueDate = Keep
Deadlines == task'.status = "TODO" /\ \A r \in Request : taskRq'[r].status \in {Keep, "TODO"}
OneByOne == \E q \in Request : \A r \in Request \ {q} : taskRq'[r].stage = "idle"

Slice ==
    CASE service = "statuses"  -> Statuses
      [] service = "deadlines" -> Deadlines
      [] service = "tasks"     -> OneByOne
      [] service = "bodies"    -> OneByOne /\ ~cut'
      [] service = "assignees" -> \A r \in Request : teamRq'[r].stage # "insert"
      [] service = "comments"  -> \A r \in Request : teamRq'[r].stage # "adding"

MCNext ==
    /\ UNCHANGED service
    /\ \/ /\ service \in {"statuses", "deadlines", "tasks", "bodies"}
          /\ IF service = "bodies" THEN TaskNext ELSE TaskNextWith({NoColumn})
          /\ Slice /\ UNCHANGED <<teamVars, entryVars>>
       \/ /\ service \in {"assignees", "comments"}
          /\ TeamNext /\ Slice /\ UNCHANGED <<taskVars, entryVars>>
       \/ service = "time" /\ EntryNext /\ UNCHANGED <<taskVars, teamVars>>

MCSpec == MCInit /\ [][MCNext]_<<service, taskVars, teamVars, entryVars>>

TypesOK == TaskTypeOK /\ TeamTypeOK /\ EntryTypeOK

Exchangeable == Permutations(Request) \cup Permutations(DueDate)
=============================================================================
