---------------------------- MODULE TaskLifecycle ----------------------------
(***************************************************************************)
(* One task: status, lifecycle dates, due date, department links and       *)
(* timeline (src/modules/tasks).                                           *)
(*                                                                         *)
(* updateTask reads the task, decides on the transition, on the dates it   *)
(* sets or clears and on the first due date, announces the new status,     *)
(* writes the deadline history, then the row, then the timeline; the row   *)
(* it writes may not be the one it read, and need not be there any more.   *)
(* createTask writes the row, its departments and its timeline in three    *)
(* statements.                                                             *)
(*                                                                         *)
(* The row is written with the body of the request as it came, not as its  *)
(* schema describes it: a body may name any column of the task.            *)
(*                                                                         *)
(* A lifecycle date is told apart from no date, a due date from another.   *)
(* A due date that is sent again may be written in another form, and then  *)
(* counts as a change.  Its notification, reasons and other columns are    *)
(* left out; so are the checks of who may act, which read other tables.    *)
(***************************************************************************)
EXTENDS Handlers

CONSTANTS
    Status,        \* the statuses the schemas of the requests admit
    DueDate,
    Null, Keep,    \* no date; a field the client did not send
    Body           \* what the bodies of updates name beside status and due date

\* TASK_STATUS_TRANSITIONS
Transition == [
    TODO        |-> {"IN_PROGRESS", "BLOCKED", "DONE", "CANCELLED"},
    IN_PROGRESS |-> {"IN_REVIEW", "BLOCKED", "TODO", "DONE", "CANCELLED"},
    IN_REVIEW   |-> {"IN_PROGRESS", "DONE", "BLOCKED", "TODO", "CANCELLED"},
    BLOCKED     |-> {"TODO", "IN_PROGRESS", "CANCELLED"},
    DONE        |-> {"IN_PROGRESS", "IN_REVIEW", "TODO"},
    CANCELLED   |-> {"TODO"}]

ASSUME StatusAssumption == "TODO" \in Status /\ Status \subseteq DOMAIN Transition
ASSUME DueAssumption == {Null, Keep} \cap (DueDate \cup Status) = {} /\ Null # Keep

Due == DueDate \cup {Null}

\* The columns that no schema declares: the lifecycle dates, the first due date, and
\* the one that marks a task as deleted.
Date == {"startedAt", "completedAt", "reopenedAt"}
Sent == {"unsent", "date", "null"}
Undeclared == [startedAt : Sent, completedAt : Sent, reopenedAt : Sent, deletedAt : Sent,
               initialDueDate : Due \cup {Keep}]

NoColumn == [startedAt |-> "unsent", completedAt |-> "unsent", reopenedAt |-> "unsent",
             deletedAt |-> "unsent", initialDueDate |-> Keep]

ASSUME BodyAssumption == NoColumn \in Body /\ Body \subseteq Undeclared

VARIABLES
    task,       \* the Task row
    linked,     \* its TaskDepartment rows are there, or it needs none
    record,     \* the last status of the timeline and of the notifications, the last
                \* date of the deadline history
    taskRq,     \* the requests under way
    life,       \* history: the status has changed since creation; the first due date
    crossed,    \* history: a request read the task while another was under way on it
    loose,      \* history: the dates that a client named, or that an update left as they
                \* were when it wrote a status or due date over one it had not read
    cut         \* history: a request ended, or lost a message or entry, before it was done

taskVars == <<task, linked, record, taskRq, life, crossed, loose, cut>>

Task == [state : {"none", "live", "deleted"}, status : Status, startedAt : BOOLEAN,
         completedAt : BOOLEAN, reopenedAt : BOOLEAN, dueDate : Due, initialDueDate : Due]

Record == [status : Status \cup {Null}, told : Status \cup {Null}, dueDate : Due \cup {Keep}]

\* What an update read, and what it was sent.  changes: the due date counts as changed.
TaskRequest == [stage : {"idle", "creating", "linked", "deciding", "told", "recorded", "written"},
                status : Status \cup {Keep}, dueDate : Due \cup {Keep}, changes : BOOLEAN,
                read : [status : Status, startedAt : BOOLEAN, dueDate : Due,
                        initialDueDate : Due]]
TaskIdle == [stage |-> "idle", status |-> Keep, dueDate |-> Keep, changes |-> FALSE,
             read |-> [status |-> "TODO", startedAt |-> FALSE, dueDate |-> Null,
                       initialDueDate |-> Null]]

TaskTypeOK ==
    /\ task \in Task
    /\ linked \in BOOLEAN
    /\ record \in Record
    /\ taskRq \in [Request -> TaskRequest]
    /\ life \in [changed : BOOLEAN, firstDue : Due]
    /\ crossed \in BOOLEAN
    /\ loose \subseteq Date \cup {"initialDueDate"}
    /\ cut \in BOOLEAN

TaskInit ==
    /\ task = [state |-> "none", status |-> "TODO", startedAt |-> FALSE, completedAt |-> FALSE,
               reopenedAt |-> FALSE, dueDate |-> Null, initialDueDate |-> Null]
    /\ linked = FALSE
    /\ record = [status |-> Null, told |-> Null, dueDate |-> Keep]
    /\ taskRq = [r \in Request |-> TaskIdle]
    /\ life = [changed |-> FALSE, firstDue |-> Null]
    /\ crossed = FALSE
    /\ loose = {}
    /\ cut = FALSE

-----------------------------------------------------------------------------
TaskGo(r, stage) == taskRq' = [taskRq EXCEPT ![r] = [@ EXCEPT !.stage = stage]]
TaskDone(r) == taskRq' = [taskRq EXCEPT ![r] = TaskIdle]
Alone(r) == \A q \in Request \ {r} : taskRq[q].stage = "idle"

(* createTask *)

\* The row; the checks of the project and the departments precede it.
CreateTask(r, status, due) ==
    /\ task.state = "none"
    /\ taskRq[r].stage = "idle"
    /\ task' = [task EXCEPT !.state = "live", !.status = status, !.dueDate = due,
                            !.initialDueDate = due]
    /\ life' = [life EXCEPT !.firstDue = due]
    /\ \E needed \in BOOLEAN :       \* a project without departments gives the task none
            /\ linked' = ~needed
            /\ taskRq' = [taskRq EXCEPT ![r] = [TaskIdle EXCEPT !.status = status,
                                !.stage = IF needed THEN "creating" ELSE "linked"]]
    /\ UNCHANGED <<record, crossed, loose, cut>>

\* Mutant: the links are made for tasks outside projects only.
LinkDepartments_NotInProjects(r) ==
    /\ taskRq[r].stage = "creating"
    /\ linked' = FALSE
    /\ TaskGo(r, "linked")
    /\ UNCHANGED <<task, record, life, crossed, loose, cut>>

LinkDepartments(r) ==
    /\ taskRq[r].stage = "creating"
    /\ linked' = TRUE
    /\ TaskGo(r, "linked")
    /\ UNCHANGED <<task, record, life, crossed, loose, cut>>

RecordCreation(r) ==
    /\ taskRq[r].stage = "linked"
    /\ record' = [record EXCEPT !.status = taskRq[r].status]
    /\ TaskDone(r)
    /\ UNCHANGED <<task, linked, life, crossed, loose, cut>>

-----------------------------------------------------------------------------
(* updateTask *)

UpdateTaskRead(r, status, due, changes) ==
    /\ task.state = "live"
    /\ taskRq[r].stage = "idle"
    /\ status \notin {Keep, task.status} => status \in Transition[task.status]
    /\ IF due \in {Keep, Null} \/ due # task.dueDate
       THEN changes = (due \notin {Keep, task.dueDate})
       ELSE TRUE
    /\ taskRq' = [taskRq EXCEPT ![r] =
            [stage |-> "deciding", status |-> status, dueDate |-> due, changes |-> changes,
             read |-> [status |-> task.status, startedAt |-> task.startedAt,
                       dueDate |-> task.dueDate, initialDueDate |-> task.initialDueDate]]]
    /\ crossed' = (crossed \/ ~Alone(r))
    /\ UNCHANGED <<task, linked, record, life, loose, cut>>

Moves(q) == q.status \notin {Keep, q.read.status}

\* notifyRecipients; what it fails to send is only logged.
NotifyStatus(r) ==
    /\ taskRq[r].stage = "deciding"
    /\ Moves(taskRq[r])
    /\ \/ record' = [record EXCEPT !.told = taskRq[r].status] /\ UNCHANGED cut
       \/ MayFail /\ cut' = TRUE /\ UNCHANGED record
    /\ TaskGo(r, "told")
    /\ UNCHANGED <<task, linked, life, crossed, loose>>

Decided(q) == q.stage = "told" \/ (q.stage = "deciding" /\ ~Moves(q))

\* writeDeadlineHistory
WriteDeadlineHistory(r) ==
    /\ Decided(taskRq[r])
    /\ taskRq[r].changes
    /\ record' = [record EXCEPT !.dueDate = taskRq[r].dueDate]
    /\ TaskGo(r, "recorded")
    /\ UNCHANGED <<task, linked, life, crossed, loose, cut>>

\* updateData starts as a copy of the body.
Given(sent, old) == IF sent = "unsent" THEN old ELSE sent = "date"
Spread(body) ==
    [task EXCEPT
        !.state       = IF body.deletedAt = "unsent" THEN @
                        ELSE IF body.deletedAt = "date" THEN "deleted" ELSE "live",
        !.startedAt   = Given(body.startedAt, @),
        !.completedAt = Given(body.completedAt, @),
        !.reopenedAt  = Given(body.reopenedAt, @),
        !.initialDueDate = IF body.initialDueDate = Keep THEN @ ELSE body.initialDueDate]

\* Mutant: a task that is reopened keeps its completion date.
StatusFields_KeepCompleted(q, row) ==
    IF q.status = Keep THEN row
    ELSE [row EXCEPT
        !.status      = q.status,
        !.startedAt   = @ \/ (Moves(q) /\ q.status = "IN_PROGRESS" /\ ~q.read.startedAt),
        !.completedAt = @ \/ (Moves(q) /\ q.status = "DONE"),
        !.reopenedAt  = IF Moves(q) /\ q.status = "DONE" THEN FALSE
                        ELSE @ \/ (Moves(q) /\ q.read.status = "DONE")]

\* Mutant: a status that was not sent is written.
StatusFields_Unsent(q, row) == [row EXCEPT !.status = q.status]

\* The row with what the request says of the status: a move overrides the dates that
\* the body names, and leaves the others.  A status that was sent is written even when
\* it is the one that was read.
StatusFields(q, row) ==
    IF q.status = Keep THEN row
    ELSE [row EXCEPT
        !.status      = q.status,
        !.startedAt   = @ \/ (Moves(q) /\ q.status = "IN_PROGRESS" /\ ~q.read.startedAt),
        !.completedAt = IF Moves(q) /\ q.status = "DONE" THEN TRUE
                        ELSE @ /\ ~(Moves(q) /\ q.read.status = "DONE"),
        !.reopenedAt  = IF Moves(q) /\ q.status = "DONE" THEN FALSE
                        ELSE @ \/ (Moves(q) /\ q.read.status = "DONE")]

\* The first due date, set at the change that follows it.
InitialDue(q, initial) ==
    IF q.changes /\ q.read.initialDueDate = Null THEN q.read.dueDate ELSE initial

\* The dates that the body names; that the update sets by itself; and that it decided
\* on with a status or a due date that is gone.
Named(body) == {d \in Date : body[d] # "unsent"}
                    \cup {d \in {"initialDueDate"} : body[d] # Keep}
Derived(q) ==
    {d \in Date : /\ Moves(q)
                  /\ IF d = "startedAt" THEN q.status = "IN_PROGRESS" /\ ~q.read.startedAt
                                        ELSE "DONE" \in {q.status, q.read.status}}
Outdated(q) ==
    {d \in Date : q.status # Keep /\ q.read.status # task.status}
        \cup {d \in {"initialDueDate"} : q.dueDate # Keep /\
                (q.read.dueDate # task.dueDate \/ q.read.initialDueDate # task.initialDueDate)}

\* The UPDATE; its where names the id alone.
UpdateTaskWrite(r, body) ==
    LET q == taskRq[r]
        due == IF q.dueDate = Keep THEN task.dueDate ELSE q.dueDate
    IN
    /\ q.stage = "recorded" \/ (Decided(q) /\ ~q.changes)
    /\ task' = [StatusFields(q, Spread(body)) EXCEPT
                    !.dueDate = due, !.initialDueDate = InitialDue(q, @)]
    /\ life' = [changed  |-> life.changed \/ task'.status # task.status,
                firstDue |-> IF life.firstDue = Null THEN due ELSE life.firstDue]
    /\ loose' = (loose \cup Named(body) \cup Outdated(q)) \ Derived(q)
    /\ IF Moves(q) THEN TaskGo(r, "written") ELSE TaskDone(r)
    /\ UNCHANGED <<linked, record, crossed, cut>>

\* writeTaskActivity; its failure is swallowed.
WriteTaskActivity(r) ==
    /\ taskRq[r].stage = "written"
    /\ \/ record' = [record EXCEPT !.status = taskRq[r].status] /\ UNCHANGED cut
       \/ MayFail /\ cut' = TRUE /\ UNCHANGED record
    /\ TaskDone(r)
    /\ UNCHANGED <<task, linked, life, crossed, loose>>

\* deleteTask; what it reads decides only whether there is a task.
DeleteTask ==
    /\ task.state = "live"
    /\ task' = [task EXCEPT !.state = "deleted"]
    /\ UNCHANGED <<linked, record, taskRq, life, crossed, loose, cut>>

TaskFail(r) ==
    /\ MayFail
    /\ taskRq[r].stage # "idle"
    /\ cut' = (cut \/ taskRq[r].stage # "deciding")
    /\ TaskDone(r)
    /\ UNCHANGED <<task, linked, record, life, crossed, loose>>

TaskStep(r) ==
    \/ \E status \in Status, due \in Due : CreateTask(r, status, due)
    \/ LinkDepartments(r) \/ RecordCreation(r)
    \/ \E status \in Status \cup {Keep}, due \in Due \cup {Keep}, changes \in BOOLEAN :
            UpdateTaskRead(r, status, due, changes)
    \/ NotifyStatus(r) \/ WriteDeadlineHistory(r) \/ WriteTaskActivity(r)
    \/ TaskFail(r)

\* What updates with one of the bodies may do, beside everything else.
TaskNextWith(bodies) ==
    DeleteTask \/ \E r \in Request :
        TaskStep(r) \/ \E body \in bodies : UpdateTaskWrite(r, body)

TaskNext == TaskNextWith(Body)

TaskSpec == TaskInit /\ [][TaskNext]_taskVars
-----------------------------------------------------------------------------
(* Properties *)

\* Each lifecycle date is the one of the status, along every chain of moves and for
\* tasks that were created in any status, unless a client named that date, or an
\* update left it as it was when it wrote over a status it had not read; and then
\* the next move that sets the date makes it right again.  initialDueDate is the first
\* due date the task had, however often that is moved, cleared and set again, unless a
\* client named it or two changes of the due date overlapped.
DatesFollowStatus ==
    /\ "completedAt" \notin loose => (task.completedAt <=> task.status = "DONE" /\ life.changed)
    /\ "reopenedAt" \notin loose => (task.reopenedAt => task.status # "DONE")
    /\ "startedAt" \notin loose =>
            (task.status = "IN_PROGRESS" => task.startedAt \/ ~life.changed)
    /\ "initialDueDate" \notin loose => task.initialDueDate \in {Null, life.firstDue}

\* When nothing is under way and nothing was cut short, the task has its
\* departments; and unless requests crossed, the timeline ends with its status,
\* the deadline history with its due date, and the status that was announced,
\* before the row was written, is the one it has.
RecordsAgree ==
    task.state # "none" /\ ~cut /\ (\A r \in Request : taskRq[r].stage = "idle") =>
        /\ linked
        /\ ~crossed => /\ record.status = task.status
                       /\ record.told \in {Null, task.status}
                       /\ record.dueDate \in {Keep, task.dueDate}
-----------------------------------------------------------------------------
(* The inductive invariant behind them.                                      *)

\* Nothing has happened to a task that is not there yet.
BeforeCreation ==
    task.state = "none" =>
        /\ \A r \in Request : taskRq[r].stage = "idle"
        /\ ~life.changed /\ ~task.completedAt /\ ~task.reopenedAt /\ loose = {}
        /\ record.told = Null /\ record.dueDate = Keep

\* What an update read of startedAt still holds, for clients alone clear that; a task that
\* has not the status it read has changed; a due date that is not the one it read counts as
\* changed; and only a status that was sent, and is not the one that was read, is announced
\* and recorded.
ReadInv ==
    \A r \in Request : LET q == taskRq[r] IN
        /\ q.read.startedAt => task.startedAt \/ "startedAt" \in loose
        /\ q.stage \in {"deciding", "told", "recorded"} =>
                q.read.status = task.status \/ life.changed
        /\ q.changes => q.dueDate # Keep
        /\ q.dueDate \notin {Keep, q.read.dueDate} => q.changes
        /\ q.stage \in {"creating", "linked"} => q.status # Keep
        /\ q.stage \in {"told", "written"} => Moves(q)

\* A task with a due date has had a first one; and that is still the due date where it
\* was not kept as the first.
FirstDueInv ==
    /\ life.firstDue = Null => task.dueDate = Null
    /\ "initialDueDate" \notin loose =>
            \/ task.initialDueDate = life.firstDue
            \/ task.initialDueDate = Null /\ task.dueDate = life.firstDue

LinkInv ==
    task.state # "none" /\ ~cut => linked \/ \E r \in Request : taskRq[r].stage = "creating"

\* What was recorded agrees with the task, or the one request under way has yet to
\* write the task, or to record what it wrote.
Agree ==
    /\ record.status = task.status
    /\ record.told \in {Null, task.status}
    /\ record.dueDate \in {Keep, task.dueDate}

InStep(q) ==
    /\ q.stage \in {"creating", "linked"} =>
            q.status = task.status /\ record.told = Null /\ record.dueDate = Keep
    /\ q.stage \in {"deciding", "told", "recorded"} =>
            /\ record.status = task.status
            /\ q.read.status = task.status /\ q.read.dueDate = task.dueDate
            /\ record.told \in {Null, task.status, q.status}
    /\ q.stage = "deciding" => record.told \in {Null, task.status}
    /\ q.stage \in {"deciding", "told"} => record.dueDate \in {Keep, task.dueDate}
    /\ q.stage \in {"told", "recorded"} /\ Moves(q) => record.told = q.status
    /\ q.stage = "recorded" => q.changes /\ record.dueDate = q.dueDate
    /\ q.stage = "written" =>
            /\ q.status = task.status /\ record.told \in {Null, task.status}
            /\ record.dueDate \in {Keep, task.dueDate}

RecordInv ==
    ~cut /\ ~crossed =>
        /\ \A r \in Request : taskRq[r].stage = "idle" \/ (Alone(r) /\ InStep(taskRq[r]))
        /\ task.state # "none" /\ (\A r \in Request : taskRq[r].stage = "idle") => Agree

TaskIInv ==
    /\ TaskTypeOK
    /\ BeforeCreation
    /\ ReadInv
    /\ DatesFollowStatus
    /\ FirstDueInv
    /\ LinkInv
    /\ RecordInv
=============================================================================
