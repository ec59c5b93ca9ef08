------------------------------ MODULE WorkProofs ------------------------------
(***************************************************************************)
(* Proofs about TaskLifecycle, TaskTeam and TimeEntries, for any users,    *)
(* statuses, dates and number of overlapping requests, and about the three of*)
(* them side by side (MCWork).                                             *)
(***************************************************************************)
EXTENDS MCWork, TLAPS

USE FailAssumption

-----------------------------------------------------------------------------
(***************************************************************************)
(* TaskLifecycle                                                           *)
(***************************************************************************)
USE StatusAssumption, DueAssumption

-----------------------------------------------------------------------------
(* Shapes *)

\* The state of a free slot is the state of a request.
LEMMA TaskIdleIsRequest ==
  /\ TaskIdle \in TaskRequest /\ TaskIdle.stage = "idle" /\ TaskIdle.status = Keep
  /\ TaskIdle.dueDate = Keep /\ TaskIdle.changes = FALSE /\ TaskIdle.read.startedAt = FALSE
  BY DEF TaskIdle, TaskRequest, Due

\* The request r becomes q, and the others stay.
LEMMA TaskOneMoves ==
  ASSUME TaskTypeOK, NEW r \in Request, NEW q \in TaskRequest,
         taskRq' = [taskRq EXCEPT ![r] = q]
  PROVE  /\ taskRq' \in [Request -> TaskRequest]
         /\ taskRq'[r] = q
         /\ \A x \in Request : x # r => taskRq'[x] = taskRq[x]
  BY DEF TaskTypeOK

\* A request that goes on keeps what it was sent and what it read.
LEMMA TaskGoes ==
  ASSUME TaskTypeOK, NEW r \in Request, NEW stage \in {"linked", "told", "recorded", "written"},
         TaskGo(r, stage)
  PROVE  \E q \in TaskRequest :
            /\ taskRq' = [taskRq EXCEPT ![r] = q]
            /\ q.stage = stage /\ q.status = taskRq[r].status /\ q.dueDate = taskRq[r].dueDate
            /\ q.changes = taskRq[r].changes /\ q.read = taskRq[r].read
  <1> DEFINE q == [taskRq[r] EXCEPT !.stage = stage]
  <1>1. taskRq[r] \in TaskRequest
    BY DEF TaskTypeOK
  <1>2. /\ q \in TaskRequest
        /\ q.stage = stage /\ q.status = taskRq[r].status /\ q.dueDate = taskRq[r].dueDate
        /\ q.changes = taskRq[r].changes /\ q.read = taskRq[r].read
    BY <1>1 DEF TaskRequest
  <1>3. taskRq' = [taskRq EXCEPT ![r] = q]
    BY DEF TaskGo
  <1> HIDE DEF q
  <1> QED
    BY <1>2, <1>3

-----------------------------------------------------------------------------
(* Steps of a request on a task that is there *)

\* The request r becomes q; what it wrote to the row keeps the dates, and what it wrote
\* to the records keeps them in step.
LEMMA TaskStepKeeps ==
  ASSUME TaskIInv, NEW r \in Request, NEW q \in TaskRequest,
         taskRq' = [taskRq EXCEPT ![r] = q],
         task.state # "none", task'.state # "none", task' \in Task,
         task.startedAt => task'.startedAt \/ "startedAt" \in loose',
         "startedAt" \in loose => task'.startedAt \/ "startedAt" \in loose',
         life.changed => life'.changed, task'.status # task.status => life'.changed,
         linked' \in BOOLEAN, record' \in Record, life' \in [changed : BOOLEAN, firstDue : Due],
         crossed' \in BOOLEAN, loose' \subseteq Date \cup {"initialDueDate"},
         cut' \in BOOLEAN,
         cut => cut', crossed => crossed', linked => linked',
         DatesFollowStatus', FirstDueInv',
         q.read.startedAt => task'.startedAt \/ "startedAt" \in loose',
         q.stage \in {"deciding", "told", "recorded"} =>
            q.read.status = task'.status \/ life'.changed,
         q.changes => q.dueDate # Keep,
         q.dueDate \notin {Keep, q.read.dueDate} => q.changes,
         q.stage \in {"creating", "linked"} => q.status # Keep,
         q.stage \in {"told", "written"} => Moves(q),
         taskRq[r].stage = "creating" => linked' \/ cut',
         ~cut' /\ ~crossed' =>
            Alone(r) /\ IF q.stage = "idle" THEN Agree' ELSE InStep(q)'
  PROVE  TaskIInv'
  <1> USE DEF TaskIInv
  <1>1. /\ taskRq' \in [Request -> TaskRequest] /\ taskRq'[r] = q
        /\ \A x \in Request : x # r => taskRq'[x] = taskRq[x]
    BY TaskOneMoves
  <1>2. TaskTypeOK'
    BY <1>1 DEF TaskTypeOK
  <1>3. BeforeCreation' /\ ReadInv'
    <2>1. BeforeCreation'
      BY DEF BeforeCreation
    <2>2. ReadInv'
      BY <1>1 DEF ReadInv, Moves
    <2> QED
      BY <2>1, <2>2
  <1>4. LinkInv'
    BY <1>1 DEF LinkInv
  <1>5. RecordInv'
    <2>1. ASSUME ~cut', ~crossed', NEW x \in Request, taskRq'[x].stage # "idle"
          PROVE  Alone(x)' /\ InStep(taskRq[x])'
      <3>1. x = r
        BY <1>1, <2>1 DEF Alone
      <3>2. Alone(x)'
        BY <1>1, <2>1, <3>1 DEF Alone
      <3>3. InStep(q)'
        BY <1>1, <2>1, <3>1
      <3>4. InStep(taskRq[x])'
        BY <1>1, <3>1, <3>3 DEF InStep, Moves
      <3> QED
        BY <3>2, <3>4
    <2>2. ASSUME ~cut', ~crossed', \A x \in Request : taskRq'[x].stage = "idle"
          PROVE  Agree'
      BY <1>1, <2>2
    <2> QED
      BY <2>1, <2>2 DEF RecordInv
  <1> QED
    BY <1>2, <1>3, <1>4, <1>5

\* A request under way is on a task that is there, and when no requests crossed it is
\* alone and in step.
LEMMA TaskUnderWay ==
  ASSUME TaskIInv, NEW r \in Request, taskRq[r].stage # "idle"
  PROVE  /\ task.state # "none" /\ task \in Task /\ taskRq[r] \in TaskRequest
         /\ ~cut /\ ~crossed => Alone(r) /\ InStep(taskRq[r])
         /\ taskRq[r].read.startedAt => task.startedAt \/ "startedAt" \in loose
         /\ taskRq[r].stage \in {"deciding", "told", "recorded"} =>
                taskRq[r].read.status = task.status \/ life.changed
         /\ taskRq[r].changes => taskRq[r].dueDate # Keep
         /\ taskRq[r].dueDate \notin {Keep, taskRq[r].read.dueDate} => taskRq[r].changes
         /\ taskRq[r].stage \in {"creating", "linked"} => taskRq[r].status # Keep
         /\ taskRq[r].stage \in {"told", "written"} => Moves(taskRq[r])
  BY DEF TaskIInv, BeforeCreation, RecordInv, ReadInv, TaskTypeOK

\* The row stays as it is.
LEMMA TaskSameRow ==
  ASSUME TaskIInv, UNCHANGED <<task, life, loose>>
  PROVE  /\ task' \in Task /\ (task.startedAt => task'.startedAt)
         /\ life' \in [changed : BOOLEAN, firstDue : Due]
         /\ loose' \subseteq Date \cup {"initialDueDate"}
         /\ (life.changed => life'.changed) /\ task'.status = task.status
         /\ ("startedAt" \in loose => "startedAt" \in loose')
         /\ DatesFollowStatus' /\ FirstDueInv'
  BY DEF TaskIInv, TaskTypeOK, DatesFollowStatus, FirstDueInv

\* The links of a new task are those of its creation.
LEMMA LinkDepartmentsKeeps ==
  ASSUME TaskIInv, NEW r \in Request, LinkDepartments(r)
  PROVE  TaskIInv'
  <1> USE DEF TaskIInv
  <1>1. /\ taskRq[r].stage = "creating" /\ TaskGo(r, "linked") /\ linked' = TRUE
        /\ UNCHANGED <<task, record, life, crossed, loose, cut>>
    BY DEF LinkDepartments
  <1>2. PICK q \in TaskRequest :
            /\ taskRq' = [taskRq EXCEPT ![r] = q]
            /\ q.stage = "linked" /\ q.status = taskRq[r].status /\ q.dueDate = taskRq[r].dueDate
            /\ q.changes = taskRq[r].changes /\ q.read = taskRq[r].read
    BY <1>1, TaskGoes
  <1>3. ~cut' /\ ~crossed' => Alone(r) /\ InStep(q)'
    BY <1>1, <1>2, TaskUnderWay DEF InStep
  <1> QED
    BY <1>1, <1>2, <1>3, TaskUnderWay, TaskSameRow, TaskStepKeeps DEF TaskTypeOK

\* The first entry of the timeline is the creation.
LEMMA RecordCreationKeeps ==
  ASSUME TaskIInv, NEW r \in Request, RecordCreation(r)
  PROVE  TaskIInv'
  <1> USE DEF TaskIInv
  <1>1. /\ taskRq[r].stage = "linked" /\ taskRq' = [taskRq EXCEPT ![r] = TaskIdle]
        /\ record' = [record EXCEPT !.status = taskRq[r].status]
        /\ UNCHANGED <<task, linked, life, crossed, loose, cut>>
    BY DEF RecordCreation, TaskDone
  <1>2. ~cut' /\ ~crossed' => Alone(r) /\ Agree'
    BY <1>1, TaskUnderWay DEF InStep, Agree, TaskTypeOK, Record
  <1>3. record' \in Record
    <2>1. taskRq[r].status \in Status
      BY <1>1, TaskUnderWay DEF TaskRequest
    <2> QED
      BY <1>1, <2>1 DEF TaskTypeOK, Record
  <1> QED
    BY <1>1, <1>2, <1>3, TaskIdleIsRequest, TaskUnderWay, TaskSameRow, TaskStepKeeps DEF TaskTypeOK

\* The notifications of a status are sent before the row has it.
LEMMA NotifyStatusKeeps ==
  ASSUME TaskIInv, NEW r \in Request, NotifyStatus(r)
  PROVE  TaskIInv'
  <1> USE DEF TaskIInv
  <1>1. /\ taskRq[r].stage = "deciding" /\ Moves(taskRq[r]) /\ TaskGo(r, "told")
        /\ UNCHANGED <<task, linked, life, crossed, loose>>
        /\ \/ record' = [record EXCEPT !.told = taskRq[r].status] /\ UNCHANGED cut
           \/ cut' = TRUE /\ UNCHANGED record
    BY DEF NotifyStatus
  <1>2. PICK q \in TaskRequest :
            /\ taskRq' = [taskRq EXCEPT ![r] = q]
            /\ q.stage = "told" /\ q.status = taskRq[r].status /\ q.dueDate = taskRq[r].dueDate
            /\ q.changes = taskRq[r].changes /\ q.read = taskRq[r].read
    BY <1>1, TaskGoes
  <1>3. record \in Record /\ q.status \in Status /\ Moves(q)
    BY <1>1, <1>2 DEF Moves, TaskRequest, TaskTypeOK
  <1>4. record' \in Record /\ cut' \in BOOLEAN /\ (cut => cut')
    <2>1. record' \in Record
      BY <1>1, <1>2, <1>3 DEF Record
    <2>2. cut' \in BOOLEAN /\ (cut => cut')
      <3>1. cut' = TRUE \/ UNCHANGED cut
        BY <1>1
      <3> QED
        BY <3>1 DEF TaskTypeOK
    <2> QED
      BY <2>1, <2>2
  <1>5. ~cut' /\ ~crossed' => Alone(r) /\ InStep(q)'
    BY <1>1, <1>2, <1>3, TaskUnderWay DEF InStep, Record
  <1> QED
    BY <1>1, <1>2, <1>3, <1>4, <1>5, TaskUnderWay, TaskSameRow, TaskStepKeeps DEF TaskTypeOK

\* The deadline history is written before the row has the date.
LEMMA WriteDeadlineHistoryKeeps ==
  ASSUME TaskIInv, NEW r \in Request, WriteDeadlineHistory(r)
  PROVE  TaskIInv'
  <1> USE DEF TaskIInv
  <1>1. /\ Decided(taskRq[r]) /\ taskRq[r].changes /\ TaskGo(r, "recorded")
        /\ record' = [record EXCEPT !.dueDate = taskRq[r].dueDate]
        /\ UNCHANGED <<task, linked, life, crossed, loose, cut>>
    BY DEF WriteDeadlineHistory
  <1>2. PICK q \in TaskRequest :
            /\ taskRq' = [taskRq EXCEPT ![r] = q]
            /\ q.stage = "recorded" /\ q.status = taskRq[r].status
            /\ q.dueDate = taskRq[r].dueDate
            /\ q.changes = taskRq[r].changes /\ q.read = taskRq[r].read
    BY <1>1, TaskGoes
  <1>3. taskRq[r].stage \in {"told", "deciding"}
    BY <1>1 DEF Decided
  <1>4. record \in Record /\ record' \in Record
    BY <1>1, <1>2 DEF TaskTypeOK, Record, TaskRequest
  <1>5. ~cut' /\ ~crossed' => Alone(r) /\ InStep(q)'
    BY <1>1, <1>2, <1>3, <1>4, TaskUnderWay DEF InStep, Record, Decided, Moves
  <1> QED
    BY <1>1, <1>2, <1>3, <1>4, <1>5, TaskUnderWay, TaskSameRow, TaskStepKeeps DEF TaskTypeOK

\* The timeline is written after the row.
LEMMA WriteTaskActivityKeeps ==
  ASSUME TaskIInv, NEW r \in Request, WriteTaskActivity(r)
  PROVE  TaskIInv'
  <1> USE DEF TaskIInv
  <1>1. /\ taskRq[r].stage = "written" /\ taskRq' = [taskRq EXCEPT ![r] = TaskIdle]
        /\ UNCHANGED <<task, linked, life, crossed, loose>>
        /\ \/ record' = [record EXCEPT !.status = taskRq[r].status] /\ UNCHANGED cut
           \/ cut' = TRUE /\ UNCHANGED record
    BY DEF WriteTaskActivity, TaskDone
  <1>2. record \in Record /\ taskRq[r].status \in Status
    BY <1>1, TaskUnderWay DEF Moves, TaskRequest, TaskTypeOK
  <1>3. record' \in Record /\ cut' \in BOOLEAN /\ (cut => cut')
    BY <1>1, <1>2 DEF TaskTypeOK, Record
  <1>4. ~cut' /\ ~crossed' => Alone(r) /\ Agree'
    BY <1>1, <1>2, TaskUnderWay DEF InStep, Record, Agree
  <1> QED
    BY <1>1, <1>2, <1>3, <1>4, TaskIdleIsRequest, TaskUnderWay, TaskSameRow, TaskStepKeeps
    DEF TaskTypeOK

\* updateTask computes the dates from the row of that moment.
LEMMA UpdateTaskReadKeeps ==
  ASSUME TaskIInv, NEW r \in Request, NEW status \in Status \cup {Keep},
         NEW due \in Due \cup {Keep}, NEW changes \in BOOLEAN,
         UpdateTaskRead(r, status, due, changes)
  PROVE  TaskIInv'
  <1> USE DEF TaskIInv
  <1> DEFINE w == [stage |-> "deciding", status |-> status, dueDate |-> due,
                   changes |-> changes,
                   read |-> [status |-> task.status, startedAt |-> task.startedAt,
                             dueDate |-> task.dueDate,
                             initialDueDate |-> task.initialDueDate]]
  <1>1. /\ task.state = "live" /\ taskRq[r].stage = "idle"
        /\ taskRq' = [taskRq EXCEPT ![r] = w]
        /\ crossed' = (crossed \/ ~Alone(r))
        /\ UNCHANGED <<task, linked, record, life, loose, cut>>
    BY DEF UpdateTaskRead
  <1>2. changes => due # Keep
    BY DEF UpdateTaskRead
  <1>3. due \notin {Keep, task.dueDate} => changes
    BY DEF UpdateTaskRead
  <1>4. /\ w \in TaskRequest /\ w.stage = "deciding" /\ w.dueDate = due
        /\ w.changes = changes /\ w.read.status = task.status
        /\ w.read.startedAt = task.startedAt /\ w.read.dueDate = task.dueDate
    BY DEF TaskRequest, TaskTypeOK, Task
  <1> HIDE DEF w
  <1>5. PICK q \in TaskRequest :
            /\ taskRq' = [taskRq EXCEPT ![r] = q] /\ q.stage = "deciding" /\ q.dueDate = due
            /\ q.changes = changes /\ q.read.status = task.status
            /\ q.read.startedAt = task.startedAt /\ q.read.dueDate = task.dueDate
    BY <1>1, <1>4
  <1>6. ~cut' /\ ~crossed' => Alone(r) /\ Agree
    BY <1>1 DEF RecordInv, Alone
  <1>7. ~cut' /\ ~crossed' => Alone(r) /\ InStep(q)'
    <2>1. UNCHANGED <<task, record>> /\ q.stage = "deciding"
      BY <1>1, <1>5
    <2>2. Agree => InStep(q)'
      BY <1>5, <2>1 DEF InStep, Agree
    <2> QED
      BY <1>6, <2>2
  <1>8. crossed' \in BOOLEAN /\ (crossed => crossed')
    BY <1>1
  <1> QED
    <2>1. /\ task.state # "none" /\ task'.state # "none" /\ taskRq[r].stage # "creating"
          /\ linked' \in BOOLEAN /\ record' \in Record /\ cut' \in BOOLEAN
          /\ (cut => cut') /\ (linked => linked')
      BY <1>1 DEF TaskTypeOK
    <2>2. /\ q.read.startedAt => task'.startedAt
          /\ q.changes => q.dueDate # Keep
          /\ q.dueDate \notin {Keep, q.read.dueDate} => q.changes
          /\ q.stage \notin {"creating", "linked", "told", "written", "idle"}
      BY <1>1, <1>2, <1>3, <1>5
    <2>3. UNCHANGED <<task, life, loose>> /\ taskRq' = [taskRq EXCEPT ![r] = q]
      BY <1>1, <1>5
    <2> QED
      BY <1>5, <1>7, <1>8, <2>1, <2>2, <2>3, TaskSameRow, TaskStepKeeps

\* An update that stops between its statements is one the records know as
\* cut short.
LEMMA TaskFailKeeps ==
  ASSUME TaskIInv, NEW r \in Request, TaskFail(r)
  PROVE  TaskIInv'
  <1> USE DEF TaskIInv
  <1>1. /\ taskRq[r].stage # "idle" /\ taskRq' = [taskRq EXCEPT ![r] = TaskIdle]
        /\ cut' = (cut \/ taskRq[r].stage # "deciding")
        /\ UNCHANGED <<task, linked, record, life, crossed, loose>>
    BY DEF TaskFail, TaskDone
  <1>2. ~cut' /\ ~crossed' => Alone(r) /\ Agree'
    BY <1>1, TaskUnderWay DEF InStep, Agree
  <1>3. cut' \in BOOLEAN /\ (cut => cut') /\ (taskRq[r].stage = "creating" => cut')
    BY <1>1
  <1> QED
    BY <1>1, <1>2, <1>3, TaskIdleIsRequest, TaskUnderWay, TaskSameRow, TaskStepKeeps
    DEF TaskTypeOK

\* deleteTask leaves dates and records as they were.
LEMMA DeleteTaskKeeps ==
  ASSUME TaskIInv, DeleteTask
  PROVE  TaskIInv'
  <1> USE DEF TaskIInv
  <1>1. /\ task.state = "live" /\ task' = [task EXCEPT !.state = "deleted"]
        /\ UNCHANGED <<linked, record, taskRq, life, crossed, loose, cut>>
    BY DEF DeleteTask
  <1>2. /\ task' \in Task /\ task'.state = "deleted" /\ task'.status = task.status
        /\ task'.startedAt = task.startedAt /\ task'.completedAt = task.completedAt
        /\ task'.reopenedAt = task.reopenedAt /\ task'.dueDate = task.dueDate
        /\ task'.initialDueDate = task.initialDueDate
    BY <1>1 DEF TaskTypeOK, Task
  <1>3. TaskTypeOK'
    BY <1>1, <1>2 DEF TaskTypeOK
  <1>4. BeforeCreation' /\ ReadInv' /\ LinkInv'
    BY <1>1, <1>2 DEF BeforeCreation, ReadInv, LinkInv, Moves
  <1>5. DatesFollowStatus' /\ FirstDueInv'
    BY <1>1, <1>2 DEF DatesFollowStatus, FirstDueInv
  <1>6. RecordInv'
    <2>1. ASSUME NEW x \in Request, Alone(x), InStep(taskRq[x])
          PROVE  Alone(x)' /\ InStep(taskRq[x])'
      BY <1>1, <1>2, <2>1 DEF Alone, InStep, Moves
    <2>2. Agree => Agree'
      BY <1>1, <1>2 DEF Agree
    <2> QED
      BY <1>1, <2>1, <2>2 DEF RecordInv
  <1> QED
    BY <1>3, <1>4, <1>5, <1>6

\* A new task has the dates of its first status.
LEMMA CreateTaskKeeps ==
  ASSUME TaskIInv, NEW r \in Request, NEW status \in Status, NEW due \in Due,
         CreateTask(r, status, due)
  PROVE  TaskIInv'
  <1> USE DEF TaskIInv
  <1>1. PICK needed \in BOOLEAN :
            /\ linked' = ~needed
            /\ taskRq' = [taskRq EXCEPT ![r] = [TaskIdle EXCEPT !.status = status,
                                !.stage = IF needed THEN "creating" ELSE "linked"]]
    BY DEF CreateTask
  <1>2. /\ task.state = "none" /\ taskRq[r].stage = "idle"
        /\ task' = [task EXCEPT !.state = "live", !.status = status, !.dueDate = due,
                                !.initialDueDate = due]
        /\ life' = [life EXCEPT !.firstDue = due]
        /\ UNCHANGED <<record, crossed, loose, cut>>
    BY DEF CreateTask
  <1> DEFINE q == [TaskIdle EXCEPT !.status = status,
                                   !.stage = IF needed THEN "creating" ELSE "linked"]
  <1>3. /\ q \in TaskRequest /\ q.status = status /\ q.status # Keep /\ q.dueDate = Keep
        /\ q.changes = FALSE /\ q.read.startedAt = FALSE
        /\ q.stage = IF needed THEN "creating" ELSE "linked"
    BY TaskIdleIsRequest DEF TaskRequest
  <1>4. taskRq' = [taskRq EXCEPT ![r] = q]
    BY <1>1
  <1> HIDE DEF q
  <1>5. /\ taskRq' \in [Request -> TaskRequest] /\ taskRq'[r] = q
        /\ \A x \in Request : x # r => taskRq'[x] = taskRq[x]
    BY <1>3, <1>4, TaskOneMoves
  <1>6. /\ task' \in Task /\ task'.state = "live" /\ task'.status = status
        /\ task'.dueDate = due /\ task'.initialDueDate = due
        /\ task'.startedAt = task.startedAt /\ task'.completedAt = task.completedAt
        /\ task'.reopenedAt = task.reopenedAt
    BY <1>2 DEF TaskTypeOK, Task
  <1>7. /\ life' \in [changed : BOOLEAN, firstDue : Due] /\ life'.firstDue = due
        /\ ~life'.changed
    BY <1>2 DEF TaskTypeOK, BeforeCreation
  <1>8. TaskTypeOK'
    BY <1>1, <1>2, <1>5, <1>6, <1>7 DEF TaskTypeOK
  <1>9. BeforeCreation' /\ ReadInv' /\ LinkInv'
    <2>1. BeforeCreation'
      BY <1>6 DEF BeforeCreation
    <2>2. ReadInv'
      BY <1>2, <1>3, <1>5, <1>6 DEF BeforeCreation, ReadInv, Moves
    <2>3. LinkInv'
      BY <1>1, <1>3, <1>5, <1>6 DEF LinkInv
    <2> QED
      BY <2>1, <2>2, <2>3
  <1>10. DatesFollowStatus' /\ FirstDueInv'
    BY <1>2, <1>6, <1>7 DEF DatesFollowStatus, FirstDueInv, BeforeCreation
  <1>11. RecordInv'
    <2>1. Alone(r)' /\ \A x \in Request : x # r => taskRq'[x].stage = "idle"
      BY <1>2, <1>5 DEF BeforeCreation, Alone
    <2>2. InStep(q)'
      BY <1>2, <1>3, <1>6 DEF InStep, BeforeCreation
    <2>3. InStep(taskRq[r])'
      BY <1>5, <2>2 DEF InStep, Moves
    <2>4. taskRq'[r].stage # "idle"
      BY <1>3, <1>5
    <2> QED
      BY <2>1, <2>3, <2>4 DEF RecordInv
  <1> QED
    BY <1>8, <1>9, <1>10, <1>11

-----------------------------------------------------------------------------
(* The UPDATE of updateTask *)

\* A copy of the body is a task with its status and due date, and with the dates that the
\* body does not name.
LEMMA SpreadIsTask ==
  ASSUME NEW body \in Undeclared, task \in Task
  PROVE  LET s == Spread(body) IN
         /\ s \in Task /\ s.status = task.status /\ s.dueDate = task.dueDate
         /\ task.state # "none" => s.state # "none"
         /\ "startedAt" \notin Named(body) => (s.startedAt <=> task.startedAt)
         /\ "completedAt" \notin Named(body) => (s.completedAt <=> task.completedAt)
         /\ "reopenedAt" \notin Named(body) => (s.reopenedAt <=> task.reopenedAt)
         /\ "initialDueDate" \notin Named(body) => s.initialDueDate = task.initialDueDate
  <1> DEFINE state == IF body.deletedAt = "unsent" THEN task.state
                      ELSE IF body.deletedAt = "date" THEN "deleted" ELSE "live"
             started == Given(body.startedAt, task.startedAt)
             completed == Given(body.completedAt, task.completedAt)
             reopened == Given(body.reopenedAt, task.reopenedAt)
             initial == IF body.initialDueDate = Keep THEN task.initialDueDate
                        ELSE body.initialDueDate
  <1>1. Spread(body) = [task EXCEPT !.state = state, !.startedAt = started,
                            !.completedAt = completed, !.reopenedAt = reopened,
                            !.initialDueDate = initial]
    BY DEF Spread
  <1>2. /\ started \in BOOLEAN /\ completed \in BOOLEAN /\ reopened \in BOOLEAN
        /\ state \in {"none", "live", "deleted"} /\ initial \in Due
        /\ task.state # "none" => state # "none"
    BY DEF Given, Undeclared, Sent, Task
  <1>3. /\ "startedAt" \notin Named(body) => started = task.startedAt
        /\ "completedAt" \notin Named(body) => completed = task.completedAt
        /\ "reopenedAt" \notin Named(body) => reopened = task.reopenedAt
        /\ "initialDueDate" \notin Named(body) => initial = task.initialDueDate
    BY DEF Given, Named, Date
  <1> HIDE DEF state, started, completed, reopened, initial
  <1>4. LET s == Spread(body) IN
        /\ s \in Task /\ s.status = task.status /\ s.dueDate = task.dueDate
        /\ s.state = state /\ s.startedAt = started /\ s.completedAt = completed
        /\ s.reopenedAt = reopened /\ s.initialDueDate = initial
    BY <1>1, <1>2 DEF Task
  <1> QED
    BY <1>2, <1>3, <1>4

\* What an update writes of the status and its dates.
LEMMA StatusFieldsOfRow ==
  ASSUME NEW q \in TaskRequest, NEW given \in Task
  PROVE  LET row == StatusFields(q, given) IN
         /\ row \in Task /\ row.state = given.state /\ row.dueDate = given.dueDate
         /\ row.initialDueDate = given.initialDueDate
         /\ row.status = IF q.status = Keep THEN given.status ELSE q.status
         /\ given.startedAt => row.startedAt
         /\ ~Moves(q) => /\ (row.startedAt <=> given.startedAt)
                         /\ (row.completedAt <=> given.completedAt)
                         /\ (row.reopenedAt <=> given.reopenedAt)
         /\ Moves(q) =>
                /\ q.status = "IN_PROGRESS" /\ ~q.read.startedAt => row.startedAt
                /\ row.completedAt <=> \/ q.status = "DONE"
                                       \/ given.completedAt /\ q.read.status # "DONE"
                /\ row.reopenedAt => q.status # "DONE"
                /\ q.status # "DONE" /\ q.read.status # "DONE" =>
                        (row.reopenedAt <=> given.reopenedAt)
  <1> DEFINE moves == Moves(q)
             started == given.startedAt
                        \/ (moves /\ q.status = "IN_PROGRESS" /\ ~q.read.startedAt)
             completed == IF moves /\ q.status = "DONE" THEN TRUE
                          ELSE given.completedAt /\ ~(moves /\ q.read.status = "DONE")
             reopened == IF moves /\ q.status = "DONE" THEN FALSE
                         ELSE given.reopenedAt \/ (moves /\ q.read.status = "DONE")
             row == StatusFields(q, given)
  <1>1. row = IF q.status = Keep THEN given
              ELSE [given EXCEPT !.status = q.status, !.startedAt = started,
                                 !.completedAt = completed, !.reopenedAt = reopened]
    BY DEF StatusFields
  <1>2. /\ given.startedAt \in BOOLEAN /\ given.completedAt \in BOOLEAN
        /\ given.reopenedAt \in BOOLEAN /\ q.read.startedAt \in BOOLEAN
        /\ moves \in BOOLEAN /\ (moves => q.status # Keep)
    BY DEF Task, TaskRequest, Moves
  <1>3. started \in BOOLEAN /\ completed \in BOOLEAN /\ reopened \in BOOLEAN
    BY <1>2
  <1>4. /\ given.startedAt => started
        /\ ~moves => /\ (started <=> given.startedAt) /\ (completed <=> given.completedAt)
                     /\ (reopened <=> given.reopenedAt)
        /\ moves => /\ q.status = "IN_PROGRESS" /\ ~q.read.startedAt => started
                    /\ completed <=> \/ q.status = "DONE"
                                     \/ given.completedAt /\ q.read.status # "DONE"
                    /\ reopened => q.status # "DONE"
                    /\ q.status # "DONE" /\ q.read.status # "DONE" =>
                            (reopened <=> given.reopenedAt)
    BY <1>2
  <1> SUFFICES /\ row \in Task /\ row.state = given.state /\ row.dueDate = given.dueDate
               /\ row.initialDueDate = given.initialDueDate
               /\ row.status = IF q.status = Keep THEN given.status ELSE q.status
               /\ given.startedAt => row.startedAt
               /\ ~moves => /\ (row.startedAt <=> given.startedAt)
                            /\ (row.completedAt <=> given.completedAt)
                            /\ (row.reopenedAt <=> given.reopenedAt)
               /\ moves =>
                    /\ q.status = "IN_PROGRESS" /\ ~q.read.startedAt => row.startedAt
                    /\ row.completedAt <=> \/ q.status = "DONE"
                                           \/ given.completedAt /\ q.read.status # "DONE"
                    /\ row.reopenedAt => q.status # "DONE"
                    /\ q.status # "DONE" /\ q.read.status # "DONE" =>
                            (row.reopenedAt <=> given.reopenedAt)
    OBVIOUS
  <1> HIDE DEF row, started, completed, reopened, moves
  <1>5. CASE q.status = Keep
    BY <1>1, <1>2, <1>5
  <1>6. CASE q.status # Keep
    <2>1. /\ row \in Task /\ row.state = given.state /\ row.dueDate = given.dueDate
          /\ row.initialDueDate = given.initialDueDate /\ row.status = q.status
          /\ row.startedAt = started /\ row.completedAt = completed
          /\ row.reopenedAt = reopened
      BY <1>1, <1>3, <1>6 DEF Task, TaskRequest
    <2> QED
      BY <1>4, <1>6, <2>1
  <1> QED
    BY <1>5, <1>6

\* The write gives the row the dates of the status it sets, unless the body names them or
\* the row was moved since the read.
LEMMA UpdateTaskWriteKeeps ==
  ASSUME TaskIInv, NEW r \in Request, NEW body \in Undeclared, UpdateTaskWrite(r, body)
  PROVE  TaskIInv'
  <1> USE DEF TaskIInv
  <1> DEFINE q == taskRq[r]
             due == IF q.dueDate = Keep THEN task.dueDate ELSE q.dueDate
             given == Spread(body)
             row == StatusFields(q, given)
             moves == Moves(q)
  <1>1. /\ q.stage = "recorded" \/ (Decided(q) /\ ~q.changes)
        /\ task' = [row EXCEPT !.dueDate = due, !.initialDueDate = InitialDue(q, @)]
        /\ life' = [changed  |-> life.changed \/ task'.status # task.status,
                    firstDue |-> IF life.firstDue = Null THEN due ELSE life.firstDue]
        /\ loose' = (loose \cup Named(body) \cup Outdated(q)) \ Derived(q)
        /\ IF Moves(q) THEN TaskGo(r, "written") ELSE TaskDone(r)
        /\ UNCHANGED <<linked, record, crossed, cut>>
    BY DEF UpdateTaskWrite
  <1>2. /\ q.stage \in {"recorded", "told", "deciding"} /\ q \in TaskRequest
        /\ task \in Task /\ task.state # "none" /\ due \in Due
        /\ life \in [changed : BOOLEAN, firstDue : Due]
    BY <1>1, TaskUnderWay DEF Decided, TaskTypeOK, Task, TaskRequest
  <1>3. moves \in BOOLEAN /\ (moves <=> q.status \notin {Keep, q.read.status})
    BY DEF Moves
  <1>4. /\ given \in Task /\ given.status = task.status /\ given.dueDate = task.dueDate
        /\ given.state # "none"
        /\ "startedAt" \notin Named(body) => (given.startedAt <=> task.startedAt)
        /\ "completedAt" \notin Named(body) => (given.completedAt <=> task.completedAt)
        /\ "reopenedAt" \notin Named(body) => (given.reopenedAt <=> task.reopenedAt)
        /\ "initialDueDate" \notin Named(body) => given.initialDueDate = task.initialDueDate
    BY <1>2, SpreadIsTask
  <1> HIDE DEF given
  <1>5. /\ row \in Task /\ row.state # "none" /\ row.initialDueDate = given.initialDueDate
        /\ row.status = IF q.status = Keep THEN task.status ELSE q.status
        /\ given.startedAt => row.startedAt
        /\ ~moves => /\ (row.startedAt <=> given.startedAt)
                     /\ (row.completedAt <=> given.completedAt)
                     /\ (row.reopenedAt <=> given.reopenedAt)
        /\ moves => /\ q.status = "IN_PROGRESS" /\ ~q.read.startedAt => row.startedAt
                    /\ row.completedAt <=> \/ q.status = "DONE"
                                           \/ given.completedAt /\ q.read.status # "DONE"
                    /\ row.reopenedAt => q.status # "DONE"
                    /\ q.status # "DONE" /\ q.read.status # "DONE" =>
                            (row.reopenedAt <=> given.reopenedAt)
    BY <1>2, <1>4, StatusFieldsOfRow
  <1> DEFINE initial == InitialDue(q, given.initialDueDate)
  <1> HIDE DEF row, moves
  <1>6. initial \in Due /\ initial = IF q.changes /\ q.read.initialDueDate = Null
                                     THEN q.read.dueDate ELSE given.initialDueDate
    BY <1>2, <1>4 DEF InitialDue, Task, TaskRequest
  <1>7. /\ task' \in Task /\ task'.state # "none"
        /\ task'.status = row.status /\ (task'.startedAt <=> row.startedAt)
        /\ (task'.completedAt <=> row.completedAt) /\ (task'.reopenedAt <=> row.reopenedAt)
        /\ task'.dueDate = due /\ task'.initialDueDate = initial
    BY <1>1, <1>2, <1>5, <1>6 DEF Task
  <1> HIDE DEF initial, due
  <1>8. /\ q.changes => q.dueDate # Keep
        /\ q.dueDate \notin {Keep, q.read.dueDate} => q.changes
        /\ q.read.startedAt => task.startedAt \/ "startedAt" \in loose
        /\ q.read.status = task.status \/ life.changed
        /\ ~cut /\ ~crossed => Alone(r) /\ InStep(q)
    BY <1>2, TaskUnderWay
  <1>9. due = IF q.dueDate = Keep THEN task.dueDate ELSE q.dueDate
    BY DEF due
  <1> DEFINE wasChanged == life.changed
             nowChanged == wasChanged \/ task'.status # task.status
             firstDue == IF life.firstDue = Null THEN due ELSE life.firstDue
  <1>10. life' = [changed |-> nowChanged, firstDue |-> firstDue]
    BY <1>1
  <1>11. nowChanged \in BOOLEAN /\ firstDue \in Due
    BY <1>2
  <1>12. life' \in [changed : BOOLEAN, firstDue : Due] /\ life'.firstDue = firstDue
         /\ life'.changed = nowChanged
    <2> HIDE DEF nowChanged, firstDue
    <2> QED
      BY <1>10, <1>11
  <1>13. /\ loose' \subseteq Date \cup {"initialDueDate"}
         /\ "startedAt" \in loose' <=> /\ \/ "startedAt" \in loose \cup Named(body)
                                          \/ q.status # Keep /\ q.read.status # task.status
                                       /\ ~(moves /\ q.status = "IN_PROGRESS" /\ ~q.read.startedAt)
         /\ \A d \in {"completedAt", "reopenedAt"} : d \in loose' <=>
                /\ \/ d \in loose \cup Named(body)
                   \/ q.status # Keep /\ q.read.status # task.status
                /\ ~(moves /\ "DONE" \in {q.status, q.read.status})
         /\ "initialDueDate" \in loose' <=>
                 \/ "initialDueDate" \in loose \cup Named(body)
                 \/ q.dueDate # Keep /\ (\/ q.read.dueDate # task.dueDate
                                         \/ q.read.initialDueDate # task.initialDueDate)
    <2>1. loose \subseteq Date \cup {"initialDueDate"}
      BY DEF TaskTypeOK
    <2> HIDE DEF q
    <2> QED
      BY <1>1, <2>1 DEF Outdated, Derived, Named, Date, moves
  <1>14. /\ task.startedAt => task'.startedAt \/ "startedAt" \in loose'
         /\ "startedAt" \in loose => task'.startedAt \/ "startedAt" \in loose'
         /\ q.read.startedAt => task'.startedAt \/ "startedAt" \in loose'
    <2>1. "startedAt" \in Named(body) \cup loose => task'.startedAt \/ "startedAt" \in loose'
      BY <1>5, <1>7, <1>13
    <2>2. task.startedAt => task'.startedAt \/ "startedAt" \in loose'
      BY <1>5, <1>7, <1>4, <2>1
    <2> QED
      BY <1>8, <2>1, <2>2
  <1>15. FirstDueInv'
    <2>1. life'.firstDue = Null => task'.dueDate = Null
      BY <1>7, <1>9, <1>12
    <2>2. ASSUME "initialDueDate" \notin loose'
          PROVE  \/ task'.initialDueDate = life'.firstDue
                 \/ task'.initialDueDate = Null /\ task'.dueDate = life'.firstDue
      <3>1. /\ "initialDueDate" \notin loose /\ given.initialDueDate = task.initialDueDate
            /\ q.dueDate # Keep => /\ q.read.dueDate = task.dueDate
                                   /\ q.read.initialDueDate = task.initialDueDate
        BY <1>4, <1>13, <2>2
      <3>2. /\ life.firstDue = Null => task.dueDate = Null /\ task.initialDueDate = Null
            /\ \/ task.initialDueDate = life.firstDue
               \/ task.initialDueDate = Null /\ task.dueDate = life.firstDue
        BY <3>1 DEF FirstDueInv
      <3>3. CASE q.changes
        BY <1>6, <1>7, <1>8, <1>9, <1>12, <3>1, <3>2, <3>3
      <3>4. CASE ~q.changes
        BY <1>6, <1>7, <1>8, <1>9, <1>12, <3>1, <3>2, <3>4
      <3> QED
        BY <3>3, <3>4
    <2> QED
      BY <2>1, <2>2 DEF FirstDueInv
  <1>16. DatesFollowStatus'
    <2>1. "initialDueDate" \notin loose' => task'.initialDueDate \in {Null, life'.firstDue}
      BY <1>15 DEF FirstDueInv
    <2>2. /\ moves => /\ q.status # Keep /\ q.read.status # q.status
                      /\ task'.status = q.status
          /\ ~moves => q.status \in {Keep, q.read.status}
          /\ q.status = Keep => task'.status = task.status
          /\ q.status # Keep => task'.status = q.status
      BY <1>3, <1>5, <1>7
    <2>3. life'.changed <=> life.changed \/ task'.status # task.status
      BY <1>12
    <2>4. ASSUME "completedAt" \notin loose'
          PROVE  task'.completedAt <=> task'.status = "DONE" /\ life'.changed
      <3>1. CASE moves /\ "DONE" \in {q.status, q.read.status}
        <4>1. task'.completedAt <=> q.status = "DONE"
          BY <1>5, <1>7, <2>2, <3>1
        <4>2. q.status = "DONE" => life'.changed
          BY <1>8, <2>2, <2>3, <3>1
        <4> QED
          BY <2>2, <3>1, <4>1, <4>2
      <3>2. CASE ~(moves /\ "DONE" \in {q.status, q.read.status})
        <4>1. /\ "completedAt" \notin loose /\ (given.completedAt <=> task.completedAt)
              /\ q.status # Keep => q.read.status = task.status
          BY <1>4, <1>13, <2>4, <3>2
        <4>2. task'.completedAt <=> task.completedAt
          BY <1>5, <1>7, <3>2, <4>1
        <4>3. task.completedAt <=> task.status = "DONE" /\ life.changed
          BY <4>1 DEF DatesFollowStatus
        <4>4. task'.status = task.status
              \/ (task'.status # "DONE" /\ task.status # "DONE")
          BY <2>2, <3>2, <4>1
        <4> QED
          BY <2>3, <4>2, <4>3, <4>4
      <3> QED
        BY <3>1, <3>2
    <2>5. ASSUME "reopenedAt" \notin loose', task'.reopenedAt
          PROVE  task'.status # "DONE"
      <3>1. CASE moves /\ "DONE" \in {q.status, q.read.status}
        BY <1>5, <1>7, <2>2, <2>5, <3>1
      <3>2. CASE ~(moves /\ "DONE" \in {q.status, q.read.status})
        <4>1. /\ "reopenedAt" \notin loose /\ (given.reopenedAt <=> task.reopenedAt)
              /\ q.status # Keep => q.read.status = task.status
          BY <1>4, <1>13, <2>5, <3>2
        <4>2. task.reopenedAt
          BY <1>5, <1>7, <2>5, <3>2, <4>1
        <4>3. task.status # "DONE"
          BY <4>1, <4>2 DEF DatesFollowStatus
        <4> QED
          BY <2>2, <3>2, <4>1, <4>3
      <3> QED
        BY <3>1, <3>2
    <2>6. ASSUME "startedAt" \notin loose', task'.status = "IN_PROGRESS", life'.changed
          PROVE  task'.startedAt
      <3>1. CASE moves /\ q.status = "IN_PROGRESS" /\ ~q.read.startedAt
        BY <1>5, <1>7, <3>1
      <3>2. CASE moves /\ q.status = "IN_PROGRESS" /\ q.read.startedAt
        BY <1>14, <2>6, <3>2
      <3>3. CASE ~(moves /\ q.status = "IN_PROGRESS")
        <4>1. /\ "startedAt" \notin loose
              /\ q.status # Keep => q.read.status = task.status
          BY <1>13, <2>6, <3>3
        <4>2. task'.status = task.status
          BY <2>2, <2>6, <3>3, <4>1
        <4>3. task.startedAt
          BY <2>3, <2>6, <4>1, <4>2 DEF DatesFollowStatus
        <4> QED
          BY <1>14, <2>6, <4>3
      <3> QED
        BY <3>1, <3>2, <3>3
    <2> QED
      BY <2>1, <2>4, <2>5, <2>6 DEF DatesFollowStatus
  <1>17. life.changed => life'.changed
    BY <1>12
  <1>18. task'.status # task.status => life'.changed
    BY <1>12
  <1>19. CASE moves
    <2>1. PICK w \in TaskRequest :
            /\ taskRq' = [taskRq EXCEPT ![r] = w]
            /\ w.stage = "written" /\ w.status = q.status /\ w.dueDate = q.dueDate
            /\ w.changes = q.changes /\ w.read = q.read
      BY <1>1, <1>19, TaskGoes DEF moves
    <2>2. Moves(w) /\ w.status # Keep
      BY <1>19, <2>1 DEF moves, Moves
    <2>3. ~cut' /\ ~crossed' => Alone(r) /\ InStep(w)'
      <3>1. ASSUME InStep(q)
            PROVE  record.told = q.status /\ record.dueDate \in {Keep, task'.dueDate}
        BY <1>1, <1>2, <1>7, <1>8, <1>9, <1>19, <3>1 DEF InStep, Decided, moves
      <3>2. task'.status = q.status
        BY <1>5, <1>7, <2>1, <2>2
      <3>3. ASSUME InStep(q)
            PROVE  InStep(w)'
        BY <1>1, <2>1, <3>1, <3>2, <3>3 DEF InStep
      <3> QED
        BY <1>1, <1>8, <3>3
    <2>4. /\ w.read.startedAt => task'.startedAt \/ "startedAt" \in loose'
          /\ w.changes => w.dueDate # Keep
          /\ w.dueDate \notin {Keep, w.read.dueDate} => w.changes
      BY <1>8, <1>14, <2>1
    <2> QED
      BY <1>1, <1>2, <1>7, <1>12, <1>14, <1>15, <1>16, <1>13, <1>17, <1>18, <2>1, <2>2, <2>3,
         <2>4, TaskStepKeeps DEF TaskTypeOK
  <1>20. CASE ~moves
    <2>1. taskRq' = [taskRq EXCEPT ![r] = TaskIdle]
      BY <1>1, <1>20 DEF moves, TaskDone
    <2>2. ~cut' /\ ~crossed' => Alone(r) /\ Agree'
      <3>1. ASSUME InStep(q)
            PROVE  Agree'
        <4>1. task'.status = task.status
          BY <1>2, <1>3, <1>5, <1>7, <1>20, <3>1 DEF InStep
        <4>2. record \in Record /\ record' = record
          BY <1>1 DEF TaskTypeOK
        <4>3. record.told \in {Null, task.status}
          BY <1>2, <1>3, <1>20, <3>1, <4>2 DEF InStep, Record
        <4>4. record.dueDate \in {Keep, task'.dueDate}
          BY <1>1, <1>2, <1>7, <1>8, <1>9, <3>1 DEF InStep, Decided
        <4>5. record.status = task.status
          BY <1>2, <3>1 DEF InStep
        <4> QED
          BY <4>1, <4>2, <4>3, <4>4, <4>5 DEF Agree
      <3> QED
        BY <1>1, <1>8, <3>1
    <2> QED
      BY <1>1, <1>2, <1>7, <1>12, <1>14, <1>15, <1>16, <1>13, <1>17, <1>18, <2>1, <2>2,
         TaskStepKeeps, TaskIdleIsRequest DEF TaskTypeOK
  <1> QED
    BY <1>19, <1>20

-----------------------------------------------------------------------------
(* The theorems *)

\* The invariant of a task holds before it is created.
LEMMA TaskInitIInv == TaskInit => TaskIInv
  <1> SUFFICES ASSUME TaskInit PROVE TaskIInv
    OBVIOUS
  <1>1. TaskTypeOK
    BY TaskIdleIsRequest DEF TaskInit, TaskTypeOK, Task, Record, Due
  <1>2. \A r \in Request : taskRq[r] = TaskIdle
    BY DEF TaskInit
  <1>3. BeforeCreation /\ ReadInv
    BY <1>2, TaskIdleIsRequest DEF TaskInit, BeforeCreation, ReadInv
  <1>4. DatesFollowStatus /\ FirstDueInv /\ LinkInv
    BY DEF TaskInit, DatesFollowStatus, FirstDueInv, LinkInv
  <1>5. RecordInv
    BY <1>2, TaskIdleIsRequest DEF TaskInit, RecordInv
  <1> QED
    BY <1>1, <1>3, <1>4, <1>5 DEF TaskIInv

\* Every step on a task keeps its invariant.
LEMMA TaskNextKeeps == TaskIInv /\ [TaskNext]_taskVars => TaskIInv'
  <1> SUFFICES ASSUME TaskIInv, [TaskNext]_taskVars PROVE TaskIInv'
    OBVIOUS
  <1>1. CASE DeleteTask
    BY <1>1, DeleteTaskKeeps
  <1>2. ASSUME NEW r \in Request, TaskStep(r)
        PROVE  TaskIInv'
    BY <1>2, CreateTaskKeeps, LinkDepartmentsKeeps, RecordCreationKeeps, UpdateTaskReadKeeps,
       NotifyStatusKeeps, WriteDeadlineHistoryKeeps, WriteTaskActivityKeeps, TaskFailKeeps
    DEF TaskStep
  <1>3. ASSUME NEW r \in Request, NEW body \in Body, UpdateTaskWrite(r, body)
        PROVE  TaskIInv'
    BY <1>3, BodyAssumption, UpdateTaskWriteKeeps
  <1>4. CASE UNCHANGED taskVars
    BY <1>4 DEF taskVars, TaskIInv, TaskTypeOK, BeforeCreation, ReadInv, DatesFollowStatus,
                FirstDueInv, LinkInv, RecordInv, Alone, InStep, Agree, Moves
  <1> QED
    BY <1>1, <1>2, <1>3, <1>4 DEF TaskNext, TaskNextWith

\* The invariant of the task, its dates and its records holds of every run of updateTask
\* and the other operations, for any number of requests, statuses and due dates.
THEOREM TaskInductive == TaskSpec => []TaskIInv
  BY TaskInitIInv, TaskNextKeeps, PTL DEF TaskSpec

\* Whatever columns the bodies of updates name, and however updates overlap, each lifecycle
\* date is the one of the status and the first due date is kept, but for those that a client
\* named or an outdated update left, until the next move sets them.
THEOREM DatesFollow == TaskSpec => []DatesFollowStatus
  <1>1. TaskIInv => DatesFollowStatus
    BY DEF TaskIInv
  <1> QED
    BY <1>1, TaskInductive, PTL

\* When nothing is under way and nothing was cut short, the departments, the timeline, the
\* deadline history and the announced status agree with the task.
THEOREM RecordsKept == TaskSpec => []RecordsAgree
  <1>1. TaskIInv => RecordsAgree
    BY DEF TaskIInv, RecordsAgree, LinkInv, RecordInv, Agree
  <1> QED
    BY <1>1, TaskInductive, PTL

HIDE StatusAssumption
HIDE DueAssumption

-----------------------------------------------------------------------------
(***************************************************************************)
(* TaskTeam                                                                *)
(***************************************************************************)
USE UserAssumption

-----------------------------------------------------------------------------
(* Shapes *)

\* The state of a free slot is the state of a request.
LEMMA TeamIdleIsRequest ==
  /\ Someone \in User /\ TeamIdle \in TeamRequest /\ TeamIdle.stage = "idle"
  BY DEF Someone, TeamIdle, TeamRequest, TeamStage

\* The request r becomes q, and the others stay.
LEMMA TeamOneMoves ==
  ASSUME TeamTypeOK, NEW r \in Request, NEW q \in TeamRequest,
         teamRq' = [teamRq EXCEPT ![r] = q]
  PROVE  /\ teamRq' \in [Request -> TeamRequest]
         /\ teamRq'[r] = q
         /\ \A x \in Request : x # r => teamRq'[x] = teamRq[x]
  BY DEF TeamTypeOK

\* A request that goes on keeps its actor, its target and its mentions.
LEMMA TeamGoes ==
  ASSUME TeamTypeOK, NEW r \in Request, NEW stage \in TeamStage, TeamGo(r, stage)
  PROVE  \E q \in TeamRequest :
            /\ teamRq' = [teamRq EXCEPT ![r] = q]
            /\ q.stage = stage /\ q.actor = teamRq[r].actor
            /\ q.target = teamRq[r].target /\ q.ids = teamRq[r].ids
  <1> DEFINE q == [teamRq[r] EXCEPT !.stage = stage]
  <1>1. teamRq[r] \in TeamRequest
    BY DEF TeamTypeOK
  <1>2. /\ q \in TeamRequest
        /\ q.stage = stage /\ q.actor = teamRq[r].actor
        /\ q.target = teamRq[r].target /\ q.ids = teamRq[r].ids
    BY <1>1 DEF TeamRequest
  <1>3. teamRq' = [teamRq EXCEPT ![r] = q]
    BY DEF TeamGo
  <1> HIDE DEF q
  <1> QED
    BY <1>2, <1>3

-----------------------------------------------------------------------------
(* What one request leaves alone *)

\* A step that has nothing to do with the comment.
LEMMA CommentAside ==
  ASSUME TeamIInv, NEW r \in Request, NEW q \in TeamRequest,
         teamRq' = [teamRq EXCEPT ![r] = q], UNCHANGED <<comment, heard>>,
         dropped => dropped', ~Following(r),
         q.stage \notin {"mention", "record", "notify"},
         q.stage = "deleting" => comment.state # "none"
  PROVE  CommentInv'
  <1>1. /\ teamRq'[r] = q
        /\ \A x \in Request : x # r => teamRq'[x] = teamRq[x]
    BY TeamOneMoves DEF TeamIInv
  <1>2. \A x \in Request : Following(x)' <=> Following(x)
    BY <1>1 DEF Following
  <1>3. \A x \in Request : Following(x) => teamRq'[x] = teamRq[x]
    BY <1>1
  <1>4. CommentInv
    BY DEF TeamIInv
  <1> QED
    BY <1>1, <1>2, <1>3, <1>4 DEF CommentInv

\* A step that has nothing to do with the assignees.
LEMMA AssigneesAside ==
  ASSUME TeamIInv, NEW r \in Request, NEW q \in TeamRequest,
         teamRq' = [teamRq EXCEPT ![r] = q], UNCHANGED <<assignee, team>>,
         dropped => dropped', mixed => mixed',
         Busy(r) \/ mixed' \/ \A x \in Request \ {r} : ~Busy(x),
         teamRq[r].stage \notin {"added", "tell", "removed"},
         q.stage \notin {"added", "tell", "removed"}
  PROVE  TimelineInv' /\ ToldInv'
  <1>1. /\ teamRq'[r] = q
        /\ \A x \in Request : x # r => teamRq'[x] = teamRq[x]
    BY TeamOneMoves DEF TeamIInv
  <1>2. TimelineInv /\ ToldInv
    BY DEF TeamIInv
  <1>3. ToldInv'
    BY <1>1, <1>2 DEF ToldInv
  <1>4. TimelineInv'
    <2>1. \A u \in User : Follows(u) => Follows(u)'
      BY DEF Follows
    <2> QED
      BY <1>1, <1>2, <2>1 DEF TimelineInv, Busy
  <1> QED
    BY <1>3, <1>4

-----------------------------------------------------------------------------
(* The reads *)

\* A handler that has read writes nothing yet, and is recorded as under way.
LEMMA TeamReadKeeps ==
  ASSUME TeamIInv, NEW r \in Request, NEW actor \in User, NEW u \in User,
         NEW ids \in SUBSET User,
         NEW stage \in {"adding", "removing", "insert", "editing", "deleting"},
         stage = "deleting" => comment.state # "none",
         TeamRead(r, actor, u, ids, stage)
  PROVE  TeamIInv'
  <1> DEFINE q == [stage |-> stage, actor |-> actor, target |-> u, ids |-> ids]
  <1>1. /\ teamRq[r].stage = "idle" /\ teamRq' = [teamRq EXCEPT ![r] = q]
        /\ mixed' = (mixed \/ \E x \in Request \ {r} : teamRq[x].stage # "idle")
        /\ UNCHANGED <<standing, assignee, comment, team, heard, dropped>>
    BY DEF TeamRead
  <1>2. q \in TeamRequest /\ q.stage = stage
    BY DEF TeamRequest, TeamStage
  <1> HIDE DEF q
  <1>3. mixed' \in BOOLEAN /\ (mixed => mixed') /\ ~Following(r)
    BY <1>1 DEF Following
  <1>4. Busy(r) \/ mixed' \/ \A x \in Request \ {r} : ~Busy(x)
    BY <1>1 DEF Busy
  <1>5. TeamTypeOK'
    BY <1>1, <1>2, <1>3, TeamOneMoves DEF TeamTypeOK, TeamIInv
  <1>6. CommentInv'
    BY <1>1, <1>2, <1>3, CommentAside
  <1>7. TimelineInv' /\ ToldInv'
    BY <1>1, <1>2, <1>3, <1>4, AssigneesAside
  <1> QED
    BY <1>5, <1>6, <1>7 DEF TeamIInv

-----------------------------------------------------------------------------
(* The assignees *)

\* The write, the event and the notification of an assignment: one user, and one request
\* that stays at it.
LEMMA OneAssignee ==
  ASSUME TeamIInv, NEW r \in Request, NEW q \in TeamRequest, NEW u \in User,
         teamRq' = [teamRq EXCEPT ![r] = q], u = teamRq[r].target,
         q.target = u \/ q.stage = "idle",
         Busy(r), ~Following(r), q.stage \notin {"mention", "record", "notify", "deleting"},
         assignee' \in [User -> Assignee],
         team' \in [User -> [event : {"none", "added", "removed"}, told : BOOLEAN]],
         \A x \in User \ {u} : assignee'[x] = assignee[x] /\ team'[x] = team[x],
         UNCHANGED <<standing, comment, heard, mixed>>, dropped' \in BOOLEAN,
         dropped => dropped',
         q.stage = "added" => assignee'[u] = "active",
         q.stage = "removed" => assignee'[u] = "removed",
         ~dropped' /\ ~mixed => Follows(u)' \/ q.stage \in {"added", "removed"},
         ~dropped' /\ assignee'[u] = "active" =>
            \/ team'[u].told \/ q.stage \in {"added", "tell"}
            \/ /\ assignee[u] = "active" /\ team'[u].told = team[u].told
               /\ teamRq[r].stage \notin {"added", "tell"}
  PROVE  TeamIInv'
  <1>1. /\ teamRq' \in [Request -> TeamRequest] /\ teamRq'[r] = q
        /\ \A x \in Request : x # r => teamRq'[x] = teamRq[x]
    BY TeamOneMoves DEF TeamIInv
  <1>2. TeamTypeOK'
    BY <1>1 DEF TeamIInv, TeamTypeOK
  <1>3. CommentInv'
    BY CommentAside
  <1>4. ToldInv'
    BY <1>1 DEF ToldInv, TeamIInv
  <1>5. TimelineInv'
    <2> SUFFICES ASSUME ~dropped', ~mixed
                 PROVE  TimelineInv'
      BY DEF TimelineInv
    <2>1. \A x \in Request \ {r} : teamRq'[x].stage = "idle"
      BY <1>1 DEF TimelineInv, TeamIInv, Busy
    <2>2. \A x, y \in Request : Busy(x)' /\ Busy(y)' => x = y
      BY <2>1 DEF Busy
    <2>3. \A x \in Request :
            /\ teamRq'[x].stage = "added" => assignee'[teamRq'[x].target] = "active"
            /\ teamRq'[x].stage = "removed" => assignee'[teamRq'[x].target] = "removed"
      BY <1>1, <2>1
    <2>4. ASSUME NEW x \in User
          PROVE  Follows(x)' \/ \E y \in Request :
                    teamRq'[y].target = x /\ teamRq'[y].stage \in {"added", "removed"}
      <3>1. CASE x = u
        BY <1>1, <3>1
      <3>2. CASE x # u
        <4>1. Follows(x)
          BY <2>1, <3>2 DEF TimelineInv, TeamIInv, Busy
        <4> QED
          BY <3>2, <4>1 DEF Follows
      <3> QED
        BY <3>1, <3>2
    <2> QED
      BY <2>2, <2>3, <2>4 DEF TimelineInv
  <1> QED
    BY <1>2, <1>3, <1>4, <1>5 DEF TeamIInv

\* The row of an assignee is added before its event.
LEMMA AddAssigneeWriteKeeps ==
  ASSUME TeamIInv, NEW r \in Request, AddAssigneeWrite(r)
  PROVE  TeamIInv'
  <1>1. PICK u \in User : u = teamRq[r].target
    BY DEF TeamIInv, TeamTypeOK, TeamRequest
  <1>2. /\ teamRq[r].stage = "adding" /\ TeamGo(r, "added")
        /\ assignee' = [assignee EXCEPT ![u] = "active"]
        /\ team' = [team EXCEPT ![u].told = FALSE]
        /\ UNCHANGED <<standing, comment, heard, mixed, dropped>>
    BY <1>1 DEF AddAssigneeWrite
  <1>3. PICK q \in TeamRequest :
            teamRq' = [teamRq EXCEPT ![r] = q] /\ q.stage = "added" /\ q.target = u
    BY <1>1, <1>2, TeamGoes DEF TeamStage, TeamIInv
  <1>4. /\ assignee' \in [User -> Assignee] /\ assignee'[u] = "active"
        /\ \A x \in User \ {u} : assignee'[x] = assignee[x] /\ team'[x] = team[x]
        /\ team' \in [User -> [event : {"none", "added", "removed"}, told : BOOLEAN]]
    BY <1>2 DEF TeamIInv, TeamTypeOK, Assignee
  <1>5. Busy(r) /\ ~Following(r)
    BY <1>2 DEF Busy, Following
  <1> QED
    BY <1>1, <1>2, <1>3, <1>4, <1>5, OneAssignee DEF TeamIInv, TeamTypeOK

\* The timeline follows the row that was added, unless another request wrote
\* it since.
LEMMA RecordAddedKeeps ==
  ASSUME TeamIInv, NEW r \in Request, RecordAdded(r)
  PROVE  TeamIInv'
  <1>1. PICK u \in User : u = teamRq[r].target
    BY DEF TeamIInv, TeamTypeOK, TeamRequest
  <1>2. /\ teamRq[r].stage = "added" /\ TeamGo(r, "tell")
        /\ team' = [team EXCEPT ![u].event = "added"]
        /\ UNCHANGED <<standing, assignee, comment, heard, mixed, dropped>>
    BY <1>1 DEF RecordAdded
  <1>3. PICK q \in TeamRequest :
            teamRq' = [teamRq EXCEPT ![r] = q] /\ q.stage = "tell" /\ q.target = u
    BY <1>1, <1>2, TeamGoes DEF TeamStage, TeamIInv
  <1>4. /\ assignee \in [User -> Assignee] /\ team'[u].event = "added"
        /\ \A x \in User \ {u} : team'[x] = team[x]
        /\ team' \in [User -> [event : {"none", "added", "removed"}, told : BOOLEAN]]
    BY <1>2 DEF TeamIInv, TeamTypeOK
  <1>5. Busy(r) /\ ~Following(r)
    BY <1>2 DEF Busy, Following
  <1>6. ~dropped /\ ~mixed => Follows(u)'
    BY <1>1, <1>2, <1>4 DEF TeamIInv, TimelineInv, Follows
  <1> QED
    BY <1>1, <1>2, <1>3, <1>4, <1>5, <1>6, OneAssignee DEF TeamIInv, TeamTypeOK

\* The notification of an assignment writes neither row nor timeline.
LEMMA TellAssigneeKeeps ==
  ASSUME TeamIInv, NEW r \in Request, TellAssignee(r)
  PROVE  TeamIInv'
  <1>1. PICK u \in User : u = teamRq[r].target
    BY DEF TeamIInv, TeamTypeOK, TeamRequest
  <1>2. /\ teamRq[r].stage = "tell" /\ teamRq' = [teamRq EXCEPT ![r] = TeamIdle]
        /\ \/ team' = [team EXCEPT ![u].told = TRUE] /\ UNCHANGED dropped
           \/ dropped' = TRUE /\ UNCHANGED team
        /\ UNCHANGED <<standing, assignee, comment, heard, mixed>>
    BY <1>1 DEF TellAssignee, TeamDone
  <1>3. dropped' = TRUE \/ UNCHANGED dropped
    BY <1>2
  <1>4. dropped' \in BOOLEAN /\ (dropped => dropped')
    BY <1>3 DEF TeamIInv, TeamTypeOK
  <1>5. /\ assignee \in [User -> Assignee]
        /\ team' \in [User -> [event : {"none", "added", "removed"}, told : BOOLEAN]]
        /\ \A x \in User \ {u} : team'[x] = team[x]
        /\ team'[u].event = team[u].event
    <2>1. /\ assignee \in [User -> Assignee]
          /\ team \in [User -> [event : {"none", "added", "removed"}, told : BOOLEAN]]
      BY DEF TeamIInv, TeamTypeOK
    <2>2. CASE team' = [team EXCEPT ![u].told = TRUE]
      BY <2>1, <2>2
    <2>3. CASE UNCHANGED team
      BY <2>1, <2>3
    <2> QED
      BY <1>2, <2>1, <2>2, <2>3
  <1>6. dropped' \/ team'[u].told
    BY <1>2 DEF TeamIInv, TeamTypeOK
  <1>7. Busy(r) /\ ~Following(r)
    BY <1>2 DEF Busy, Following
  <1>8. ~dropped /\ ~mixed => Follows(u)
    BY <1>1, <1>2 DEF TeamIInv, TimelineInv, Busy
  <1>9. ~dropped' /\ ~mixed => Follows(u)'
    BY <1>2, <1>4, <1>5, <1>8 DEF Follows
  <1> QED
    BY <1>1, <1>2, <1>4, <1>5, <1>6, <1>7, <1>9, TeamIdleIsRequest, OneAssignee

\* The row of an assignee is removed before its event.
LEMMA RemoveAssigneeWriteKeeps ==
  ASSUME TeamIInv, NEW r \in Request, RemoveAssigneeWrite(r)
  PROVE  TeamIInv'
  <1>1. PICK u \in User : u = teamRq[r].target
    BY DEF TeamIInv, TeamTypeOK, TeamRequest
  <1>2. /\ teamRq[r].stage = "removing" /\ TeamGo(r, "removed")
        /\ assignee' = [assignee EXCEPT ![u] = "removed"]
        /\ UNCHANGED <<standing, comment, team, heard, mixed, dropped>>
    BY <1>1 DEF RemoveAssigneeWrite
  <1>3. PICK q \in TeamRequest :
            teamRq' = [teamRq EXCEPT ![r] = q] /\ q.stage = "removed" /\ q.target = u
    BY <1>1, <1>2, TeamGoes DEF TeamStage, TeamIInv
  <1>4. /\ assignee' \in [User -> Assignee] /\ assignee'[u] = "removed"
        /\ \A x \in User \ {u} : assignee'[x] = assignee[x]
    BY <1>2 DEF TeamIInv, TeamTypeOK, Assignee
  <1>5. Busy(r) /\ ~Following(r)
    BY <1>2 DEF Busy, Following
  <1> QED
    BY <1>1, <1>2, <1>3, <1>4, <1>5, OneAssignee DEF TeamIInv, TeamTypeOK

\* The timeline follows the row that was removed, unless another request
\* wrote it since.
LEMMA RecordRemovedKeeps ==
  ASSUME TeamIInv, NEW r \in Request, RecordRemoved(r)
  PROVE  TeamIInv'
  <1>1. PICK u \in User : u = teamRq[r].target
    BY DEF TeamIInv, TeamTypeOK, TeamRequest
  <1>2. /\ teamRq[r].stage = "removed" /\ teamRq' = [teamRq EXCEPT ![r] = TeamIdle]
        /\ team' = [team EXCEPT ![u].event = "removed"]
        /\ UNCHANGED <<standing, assignee, comment, heard, mixed, dropped>>
    BY <1>1 DEF RecordRemoved, TeamDone
  <1>3. /\ assignee \in [User -> Assignee] /\ team'[u].event = "removed"
        /\ team'[u].told = team[u].told
        /\ \A x \in User \ {u} : team'[x] = team[x]
        /\ team' \in [User -> [event : {"none", "added", "removed"}, told : BOOLEAN]]
    BY <1>2 DEF TeamIInv, TeamTypeOK
  <1>4. Busy(r) /\ ~Following(r)
    BY <1>2 DEF Busy, Following
  <1>5. ~dropped /\ ~mixed => Follows(u)'
    BY <1>1, <1>2, <1>3 DEF TeamIInv, TimelineInv, Follows
  <1>6. ~dropped /\ assignee[u] = "active" =>
            team'[u].told = team[u].told /\ teamRq[r].stage \notin {"added", "tell"}
    BY <1>2, <1>3
  <1>7. dropped' \in BOOLEAN /\ (dropped => dropped')
    BY <1>2 DEF TeamIInv, TeamTypeOK
  <1> QED
    BY <1>1, <1>2, <1>3, <1>4, <1>5, <1>6, <1>7, TeamIdleIsRequest, OneAssignee

-----------------------------------------------------------------------------
(* The comment *)

\* A step of a request that has nothing to do with the assignees, given what it does to
\* the comment.
LEMMA OneComment ==
  ASSUME TeamIInv, NEW r \in Request, NEW q \in TeamRequest,
         teamRq' = [teamRq EXCEPT ![r] = q],
         Busy(r), teamRq[r].stage \notin {"added", "tell", "removed"},
         q.stage \notin {"added", "tell", "removed"},
         UNCHANGED <<standing, assignee, team, mixed>>, dropped' \in BOOLEAN,
         dropped => dropped', comment' \in Comment,
         heard' \in [event : BOOLEAN, told : SUBSET User],
         CommentInv'
  PROVE  TeamIInv'
  <1>1. TeamTypeOK'
    BY TeamOneMoves DEF TeamIInv, TeamTypeOK
  <1>2. TimelineInv' /\ ToldInv'
    BY AssigneesAside
  <1> QED
    BY <1>1, <1>2 DEF TeamIInv

\* A new comment has nobody told of it yet.
LEMMA CreateCommentKeeps ==
  ASSUME TeamIInv, NEW r \in Request, CreateComment(r)
  PROVE  TeamIInv'
  <1> DEFINE next == IF teamRq[r].ids = {} THEN "record" ELSE "mention"
  <1>1. /\ teamRq[r].stage = "insert" /\ comment.state = "none" /\ TeamGo(r, next)
        /\ comment' = [state |-> "live", author |-> teamRq[r].actor, mentions |-> {}]
        /\ UNCHANGED <<standing, assignee, team, heard, mixed, dropped>>
    BY DEF CreateComment
  <1>2. PICK q \in TeamRequest :
            /\ teamRq' = [teamRq EXCEPT ![r] = q] /\ q.stage = next
            /\ q.actor = teamRq[r].actor /\ q.ids = teamRq[r].ids
    BY <1>1, TeamGoes DEF TeamStage, TeamIInv
  <1>3. /\ teamRq'[r] = q
        /\ \A x \in Request : x # r => teamRq'[x] = teamRq[x]
    BY <1>2, TeamOneMoves DEF TeamIInv
  <1>4. /\ comment' \in Comment /\ comment'.state = "live"
        /\ comment'.author = q.actor /\ comment'.mentions = {}
    BY <1>1, <1>2 DEF Comment, TeamRequest
  <1>5. next \in {"record", "mention"} /\ (next = "record" => q.ids = {})
    BY <1>2
  <1> HIDE DEF next
  <1>6. CommentInv'
    <2>1. ~dropped => \A x \in Request : ~Following(x)
      BY <1>1 DEF TeamIInv, CommentInv
    <2>2. ~dropped => heard.told = {}
      BY <1>1 DEF TeamIInv, CommentInv
    <2> QED
      BY <1>1, <1>2, <1>3, <1>4, <1>5, <2>1, <2>2 DEF CommentInv, Following
  <1>7. q.stage \notin {"added", "tell", "removed"} /\ Busy(r)
    BY <1>1, <1>2, <1>5 DEF Busy
  <1> QED
    BY <1>1, <1>2, <1>4, <1>6, <1>7, OneComment DEF TeamIInv, TeamTypeOK

\* The mentions are written before anyone is told.
LEMMA CreateCommentMentionsKeeps ==
  ASSUME TeamIInv, NEW r \in Request, CreateCommentMentions(r)
  PROVE  TeamIInv'
  <1>1. /\ teamRq[r].stage = "mention" /\ TeamGo(r, "record")
        /\ comment' = [comment EXCEPT !.mentions = teamRq[r].ids]
        /\ UNCHANGED <<standing, assignee, team, heard, mixed, dropped>>
    BY DEF CreateCommentMentions
  <1>2. PICK q \in TeamRequest :
            /\ teamRq' = [teamRq EXCEPT ![r] = q] /\ q.stage = "record"
            /\ q.actor = teamRq[r].actor /\ q.ids = teamRq[r].ids
    BY <1>1, TeamGoes DEF TeamStage, TeamIInv
  <1>3. /\ teamRq'[r] = q
        /\ \A x \in Request : x # r => teamRq'[x] = teamRq[x]
    BY <1>2, TeamOneMoves DEF TeamIInv
  <1>4. /\ comment' \in Comment /\ comment'.state = comment.state
        /\ comment'.author = comment.author /\ comment'.mentions = q.ids
    BY <1>1, <1>2 DEF TeamIInv, TeamTypeOK, Comment, TeamRequest
  <1>5. CommentInv'
    BY <1>1, <1>2, <1>3, <1>4 DEF TeamIInv, CommentInv, Following
  <1>6. Busy(r)
    BY <1>1 DEF Busy
  <1> QED
    BY <1>1, <1>2, <1>4, <1>5, <1>6, OneComment DEF TeamIInv, TeamTypeOK

\* The event of a comment concerns nobody in the team.
LEMMA RecordCommentKeeps ==
  ASSUME TeamIInv, NEW r \in Request, RecordComment(r)
  PROVE  TeamIInv'
  <1>1. /\ teamRq[r].stage = "record" /\ heard' = [heard EXCEPT !.event = TRUE]
        /\ IF teamRq[r].ids = {} THEN TeamDone(r) ELSE TeamGo(r, "notify")
        /\ UNCHANGED <<standing, assignee, comment, team, mixed, dropped>>
    BY DEF RecordComment
  <1>2. PICK q \in TeamRequest :
            /\ teamRq' = [teamRq EXCEPT ![r] = q]
            /\ IF teamRq[r].ids = {} THEN q.stage = "idle"
               ELSE q.stage = "notify" /\ q.actor = teamRq[r].actor /\ q.ids = teamRq[r].ids
    BY <1>1, TeamGoes, TeamIdleIsRequest DEF TeamStage, TeamIInv, TeamDone
  <1>3. /\ teamRq'[r] = q
        /\ \A x \in Request : x # r => teamRq'[x] = teamRq[x]
    BY <1>2, TeamOneMoves DEF TeamIInv
  <1>4. /\ heard' \in [event : BOOLEAN, told : SUBSET User] /\ heard'.event
        /\ heard'.told = heard.told
    BY <1>1 DEF TeamIInv, TeamTypeOK
  <1>5. CommentInv'
    <2>1. ~dropped => /\ comment.mentions = teamRq[r].ids /\ heard.told = {}
                      /\ comment.author = teamRq[r].actor /\ comment.state # "none"
                      /\ \A x \in Request : Following(x) => x = r
      BY <1>1 DEF TeamIInv, CommentInv, Following
    <2>2. ~dropped => \A x \in Request : Following(x)' => x = r
      BY <1>3, <2>1 DEF Following
    <2>3. CASE teamRq[r].ids = {}
      BY <1>1, <1>2, <1>3, <1>4, <2>1, <2>2, <2>3 DEF TeamIInv, CommentInv, Following
    <2>4. CASE teamRq[r].ids # {}
      BY <1>1, <1>2, <1>3, <1>4, <2>1, <2>2, <2>4 DEF TeamIInv, CommentInv, Following
    <2> QED
      BY <2>3, <2>4
  <1>6. q.stage \notin {"added", "tell", "removed"} /\ Busy(r)
    BY <1>1, <1>2 DEF Busy
  <1> QED
    BY <1>1, <1>2, <1>4, <1>5, <1>6, OneComment DEF TeamIInv, TeamTypeOK

\* All the mentioned but the author are told.
LEMMA TellMentionedKeeps ==
  ASSUME TeamIInv, NEW r \in Request, TellMentioned(r)
  PROVE  TeamIInv'
  <1>1. PICK sent \in SUBSET (teamRq[r].ids \ {teamRq[r].actor}) :
            /\ heard' = [heard EXCEPT !.told = sent]
            /\ dropped' = (dropped \/ sent # teamRq[r].ids \ {teamRq[r].actor})
    BY DEF TellMentioned
  <1>2. /\ teamRq[r].stage = "notify" /\ teamRq' = [teamRq EXCEPT ![r] = TeamIdle]
        /\ UNCHANGED <<standing, assignee, comment, team, mixed>>
    BY DEF TellMentioned, TeamDone
  <1>3. /\ teamRq'[r] = TeamIdle
        /\ \A x \in Request : x # r => teamRq'[x] = teamRq[x]
    BY <1>2, TeamOneMoves, TeamIdleIsRequest DEF TeamIInv
  <1>4. /\ heard' \in [event : BOOLEAN, told : SUBSET User] /\ heard'.told = sent
        /\ heard'.event = heard.event
    <2>1. teamRq[r].ids \in SUBSET User
      BY DEF TeamIInv, TeamTypeOK, TeamRequest
    <2> QED
      BY <1>1, <2>1 DEF TeamIInv, TeamTypeOK
  <1>5. dropped' \in BOOLEAN /\ (dropped => dropped')
    BY <1>1
  <1>6. CommentInv'
    <2>1. \A x \in Request : teamRq'[x].stage = "deleting" => comment'.state # "none"
      BY <1>2, <1>3, TeamIdleIsRequest DEF TeamIInv, CommentInv
    <2>2. ASSUME ~dropped'
          PROVE  /\ comment'.state # "none" /\ heard'.event
                 /\ heard'.told = comment'.mentions \ {comment'.author}
                 /\ \A x \in Request : ~Following(x)'
      <3>1. ~dropped /\ sent = teamRq[r].ids \ {teamRq[r].actor}
        BY <1>1, <2>2
      <3>2. /\ comment.mentions = teamRq[r].ids /\ heard.event
            /\ comment.author = teamRq[r].actor /\ comment.state # "none"
            /\ \A x \in Request : Following(x) => x = r
        BY <1>2, <3>1 DEF TeamIInv, CommentInv, Following
      <3>3. \A x \in Request : ~Following(x)'
        BY <1>3, <3>2, TeamIdleIsRequest DEF Following
      <3> QED
        BY <1>2, <1>4, <3>1, <3>2, <3>3
    <2> QED
      BY <2>1, <2>2 DEF CommentInv
  <1>7. Busy(r)
    BY <1>2 DEF Busy
  <1> QED
    BY <1>2, <1>4, <1>5, <1>6, <1>7, TeamIdleIsRequest, OneComment DEF TeamIInv, TeamTypeOK

\* A comment that is gone mentions nobody.
LEMMA DeleteCommentWriteKeeps ==
  ASSUME TeamIInv, NEW r \in Request, DeleteCommentWrite(r)
  PROVE  TeamIInv'
  <1>1. /\ teamRq[r].stage = "deleting" /\ teamRq' = [teamRq EXCEPT ![r] = TeamIdle]
        /\ comment' = [comment EXCEPT !.state = "deleted"]
        /\ UNCHANGED <<standing, assignee, team, heard, mixed, dropped>>
    BY DEF DeleteCommentWrite, TeamDone
  <1>2. /\ teamRq'[r] = TeamIdle
        /\ \A x \in Request : x # r => teamRq'[x] = teamRq[x]
    BY <1>1, TeamOneMoves, TeamIdleIsRequest DEF TeamIInv
  <1>3. /\ comment' \in Comment /\ comment'.state = "deleted"
        /\ comment'.author = comment.author /\ comment'.mentions = comment.mentions
        /\ comment.state # "none"
    BY <1>1 DEF TeamIInv, TeamTypeOK, Comment, CommentInv
  <1>4. CommentInv'
    <2>1. \A x \in Request : Following(x)' <=> Following(x)
      BY <1>1, <1>2, TeamIdleIsRequest DEF Following
    <2>2. \A x \in Request : Following(x) => teamRq'[x] = teamRq[x]
      BY <1>1, <1>2 DEF Following
    <2> QED
      BY <1>1, <1>3, <2>1, <2>2 DEF TeamIInv, CommentInv
  <1>5. Busy(r)
    BY <1>1 DEF Busy
  <1> QED
    BY <1>1, <1>3, <1>4, <1>5, TeamIdleIsRequest, OneComment DEF TeamIInv, TeamTypeOK

\* A new text leaves the mentions as they were written.
LEMMA UpdateCommentWriteKeeps ==
  ASSUME TeamIInv, NEW r \in Request, UpdateCommentWrite(r)
  PROVE  TeamIInv'
  <1>1. /\ teamRq[r].stage = "editing" /\ teamRq' = [teamRq EXCEPT ![r] = TeamIdle]
        /\ UNCHANGED <<standing, assignee, comment, team, heard, mixed, dropped>>
    BY DEF UpdateCommentWrite, TeamDone
  <1>2. Busy(r) /\ ~Following(r)
    BY <1>1 DEF Busy, Following
  <1>3. CommentInv'
    BY <1>1, <1>2, TeamIdleIsRequest, CommentAside
  <1> QED
    BY <1>1, <1>2, <1>3, TeamIdleIsRequest, OneComment DEF TeamIInv, TeamTypeOK

-----------------------------------------------------------------------------
(* The theorems *)

\* A request that stops before it is done is recorded.
LEMMA TeamFailKeeps ==
  ASSUME TeamIInv, NEW r \in Request, TeamFail(r)
  PROVE  TeamIInv'
  <1>1. /\ teamRq' = [teamRq EXCEPT ![r] = TeamIdle] /\ dropped' = TRUE
        /\ UNCHANGED <<standing, assignee, comment, team, heard, mixed>>
    BY DEF TeamFail, TeamDone
  <1>2. /\ teamRq' \in [Request -> TeamRequest] /\ teamRq'[r] = TeamIdle
        /\ \A x \in Request : x # r => teamRq'[x] = teamRq[x]
    BY <1>1, TeamOneMoves, TeamIdleIsRequest DEF TeamIInv
  <1>3. TeamTypeOK'
    BY <1>1, <1>2 DEF TeamIInv, TeamTypeOK
  <1>4. TimelineInv' /\ ToldInv' /\ CommentInv'
    BY <1>1, <1>2, TeamIdleIsRequest DEF TimelineInv, ToldInv, CommentInv, TeamIInv
  <1> QED
    BY <1>3, <1>4 DEF TeamIInv

\* The invariant of the team holds of a new task.
LEMMA TeamInitIInv == TeamInit => TeamIInv
  <1> SUFFICES ASSUME TeamInit PROVE TeamIInv
    OBVIOUS
  <1>1. \A r \in Request : teamRq[r] = TeamIdle
    BY DEF TeamInit
  <1>2. TeamTypeOK
    BY TeamIdleIsRequest DEF TeamInit, TeamTypeOK, Comment, Assignee
  <1>3. TimelineInv /\ ToldInv
    BY <1>1, TeamIdleIsRequest DEF TeamInit, TimelineInv, ToldInv, Busy, Follows
  <1>4. CommentInv
    BY <1>1, TeamIdleIsRequest DEF TeamInit, CommentInv, Following
  <1> QED
    BY <1>2, <1>3, <1>4 DEF TeamIInv

\* So do the reads of the five handlers.
LEMMA TeamReadsKeep ==
  ASSUME TeamIInv, NEW r \in Request, NEW actor \in User, NEW u \in User,
         NEW ids \in SUBSET User,
         \/ AddAssigneeRead(r, actor, u) \/ RemoveAssigneeRead(r, actor, u)
         \/ AddCommentRead(r, actor, ids)
         \/ DeleteCommentRead(r, actor) \/ UpdateCommentRead(r, actor)
  PROVE  TeamIInv'
  <1>1. CASE AddAssigneeRead(r, actor, u)
    BY <1>1, TeamReadKeeps DEF AddAssigneeRead
  <1>2. CASE RemoveAssigneeRead(r, actor, u)
    BY <1>2, TeamReadKeeps DEF RemoveAssigneeRead
  <1>3. CASE AddCommentRead(r, actor, ids)
    BY <1>3, TeamReadKeeps DEF AddCommentRead
  <1>4. CASE DeleteCommentRead(r, actor)
    BY <1>4, TeamReadKeeps DEF DeleteCommentRead, FindComment
  <1>5. CASE UpdateCommentRead(r, actor)
    BY <1>5, TeamReadKeeps DEF UpdateCommentRead
  <1> QED
    BY <1>1, <1>2, <1>3, <1>4, <1>5

\* Every step on the team keeps its invariant.
LEMMA TeamNextKeeps == TeamIInv /\ [TeamNext]_teamVars => TeamIInv'
  <1> SUFFICES ASSUME TeamIInv, [TeamNext]_teamVars PROVE TeamIInv'
    OBVIOUS
  <1>1. CASE TeamNext
    <2>1. {} \in SUBSET User
      OBVIOUS
    <2> QED
      BY <1>1, <2>1, TeamReadsKeep, AddAssigneeWriteKeeps, RecordAddedKeeps, TellAssigneeKeeps,
         RemoveAssigneeWriteKeeps, RecordRemovedKeeps, CreateCommentKeeps,
         CreateCommentMentionsKeeps, RecordCommentKeeps, TellMentionedKeeps,
         DeleteCommentWriteKeeps, UpdateCommentWriteKeeps, TeamFailKeeps DEF TeamNext
  <1>2. CASE UNCHANGED teamVars
    BY <1>2 DEF teamVars, TeamIInv, TeamTypeOK, TimelineInv, ToldInv, CommentInv, Busy,
                Follows, Following
  <1> QED
    BY <1>1, <1>2

\* The invariant of the assignees, the comment and what is recorded and sent about them
\* holds of every run of the handlers, for any number of requests and users.
THEOREM TeamInductive == TeamSpec => []TeamIInv
  BY TeamInitIInv, TeamNextKeeps, PTL DEF TeamSpec

\* When nothing is under way and nothing was lost, the timeline of a task changed by one
\* request at a time says who is assigned, and every assignee was told.
THEOREM TimelineFollows == TeamSpec => []TimelineFollowsTeam
  <1>1. TeamIInv => TimelineFollowsTeam
    BY DEF TeamIInv, TimelineInv, ToldInv, Busy, Follows, TimelineFollowsTeam, TeamQuiet
  <1> QED
    BY <1>1, TeamInductive, PTL

\* The mentions of a comment that is there are those who were told, except its author.
THEOREM MentionsTold == TeamSpec => []MentionsAreTold
  <1>1. TeamIInv => MentionsAreTold
    BY DEF TeamIInv, CommentInv, Following, MentionsAreTold, TeamQuiet
  <1> QED
    BY <1>1, TeamInductive, PTL

HIDE UserAssumption

-----------------------------------------------------------------------------
(***************************************************************************)
(* TimeEntries                                                             *)
(***************************************************************************)
USE MinuteAssumption DEF Minute, NoTime, Unsent

-----------------------------------------------------------------------------
(* The minutes of a write *)

\* computeMinutes gives a duration within the bound, or none.
LEMMA MinutesOfDates ==
  ASSUME NEW start \in Minute, NEW end \in Minute \cup {NoTime}
  PROVE  /\ ComputeMinutes(start, end) \in Minute \cup {NoTime}
         /\ ComputeMinutes(start, end) =
                IF end \in start..MaxMinute THEN end - start ELSE NoTime
  BY DEF ComputeMinutes

-----------------------------------------------------------------------------
(* Steps *)

\* The state of a free slot is the state of a request.
LEMMA EntryIdleIsRequest == EntryIdle \in EntryRequest /\ EntryIdle.stage = "idle"
  BY 0 \in Minute DEF EntryIdle, EntryRequest

\* The invariant of an entry holds before there is one.
LEMMA EntryInitIInv == EntryInit => EntryIInv
  <1> SUFFICES ASSUME EntryInit PROVE EntryIInv
    OBVIOUS
  <1>1. EntryTypeOK
    <2>1. 0 \in Minute
      OBVIOUS
    <2>2. entry \in Entry
      BY <2>1 DEF EntryInit, Entry
    <2> QED
      BY <2>1, <2>2, EntryIdleIsRequest DEF EntryInit, EntryTypeOK
  <1>2. entry.startedAt = 0 /\ entry.endedAt = NoTime /\ entry.minutes = NoTime
    BY DEF EntryInit
  <1>3. MinutesFollowDates
    BY <1>2 DEF MinutesFollowDates
  <1>4. \A r \in Request : entryRq[r] = EntryIdle
    BY DEF EntryInit
  <1>5. WritesInv
    BY ONLY <1>4, EntryIdleIsRequest DEF WritesInv
  <1> QED
    BY <1>1, <1>2, <1>3, <1>5 DEF EntryIInv

\* A request that reads the entry leaves the entry alone.
LEMMA EntryReadKeeps ==
  ASSUME EntryIInv, NEW r \in Request, NEW q \in EntryRequest, BeginEntry(r, q),
         UNCHANGED <<clock, entry, moved, undone>>, entry.state = "live",
         q.stage = "stopping" => q.endedAt # NoTime,
         q.stage = "updating" /\ ~q.opens /\ q.endedAt = NoTime => q.readEnd = NoTime
  PROVE  EntryIInv'
  <1>1. EntryTypeOK /\ WritesInv
    BY DEF EntryIInv
  <1>2. EntryTypeOK'
    BY <1>1 DEF EntryTypeOK, BeginEntry
  <1>3. WritesInv'
    <2>1. ASSUME NEW p \in Request
          PROVE  entryRq'[p] = IF p = r THEN q ELSE entryRq[p]
      BY <1>1 DEF EntryTypeOK, BeginEntry
    <2> QED
      BY <1>1, <2>1 DEF WritesInv
  <1> QED
    BY <1>2, <1>3 DEF EntryIInv, MinutesFollowDates

\* stopTimeEntry holds the start it read, of an entry that ran.
LEMMA EntryStopReadKeeps ==
  ASSUME EntryIInv, NEW r \in Request, StopRead(r)
  PROVE  EntryIInv'
  <1> DEFINE q == [stage |-> "stopping", startedAt |-> entry.startedAt, endedAt |-> clock,
                   readEnd |-> entry.endedAt, opens |-> FALSE]
  <1>1. q \in EntryRequest /\ q.endedAt # NoTime /\ q.stage = "stopping"
    BY DEF EntryIInv, EntryTypeOK, Entry, EntryRequest
  <1>2. /\ BeginEntry(r, q) /\ entry.state = "live"
        /\ UNCHANGED <<clock, entry, moved, undone>>
    BY DEF StopRead
  <1> HIDE DEF q
  <1> QED
    BY <1>1, <1>2, EntryReadKeeps

\* updateTimeEntry has no end only when it read none.
LEMMA EntryUpdateReadKeeps ==
  ASSUME EntryIInv, NEW r \in Request, NEW start \in Minute \cup {Unsent},
         NEW end \in Minute \cup {NoTime, Unsent}, UpdateRead(r, start, end)
  PROVE  EntryIInv'
  <1> DEFINE q == [stage |-> "updating",
                   startedAt |-> IF start = Unsent THEN entry.startedAt ELSE start,
                   endedAt |-> IF end = Unsent THEN entry.endedAt ELSE end,
                   readEnd |-> entry.endedAt,
                   opens |-> end = NoTime]
  <1>1. entry \in Entry
    BY DEF EntryIInv, EntryTypeOK
  <1>2. q \in EntryRequest /\ q.stage = "updating"
    BY <1>1 DEF Entry, EntryRequest
  <1>3. ~q.opens /\ q.endedAt = NoTime => q.readEnd = NoTime
    OBVIOUS
  <1>4. /\ BeginEntry(r, q) /\ entry.state = "live"
        /\ UNCHANGED <<clock, entry, moved, undone>>
    BY DEF UpdateRead
  <1> HIDE DEF q
  <1> QED
    BY <1>2, <1>3, <1>4, EntryReadKeeps

\* A write whose minutes belong to its dates, or which is recorded as moved.
LEMMA EntryWriteKeeps ==
  ASSUME EntryIInv, NEW r \in Request, entryRq[r].stage # "idle",
         NEW e \in Entry, entry' = e, EndEntry(r), clock' = clock,
         moved' \in BOOLEAN, undone' \in BOOLEAN, e.state = entry.state,
         ~moved' => e.minutes = ComputeMinutes(e.startedAt, e.endedAt)
  PROVE  EntryIInv'
  <1>1. EntryTypeOK /\ WritesInv /\ e.state # "none"
    BY DEF EntryIInv, WritesInv
  <1>2. EntryTypeOK'
    BY <1>1, EntryIdleIsRequest DEF EntryTypeOK, EndEntry
  <1>3. WritesInv'
    <2>1. ASSUME NEW p \in Request
          PROVE  entryRq'[p] = IF p = r THEN EntryIdle ELSE entryRq[p]
      BY <1>1 DEF EntryTypeOK, EndEntry
    <2> QED
      BY <1>1, <2>1, EntryIdleIsRequest DEF WritesInv
  <1>4. MinutesFollowDates'
    BY MinutesOfDates DEF MinutesFollowDates, Entry
  <1> QED
    BY <1>1, <1>2, <1>3, <1>4 DEF EntryIInv

\* The minutes of a stop belong to the start it read.
LEMMA EntryStopWriteKeeps ==
  ASSUME EntryIInv, NEW r \in Request, StopWrite(r)
  PROVE  EntryIInv'
  <1> DEFINE q == entryRq[r]
             e == [entry EXCEPT !.endedAt = q.endedAt,
                                !.minutes = ComputeMinutes(q.startedAt, q.endedAt)]
  <1>1. q \in EntryRequest /\ entry \in Entry
    BY DEF EntryIInv, EntryTypeOK
  <1>2. /\ q.startedAt \in Minute /\ q.endedAt \in Minute \cup {NoTime}
        /\ ComputeMinutes(q.startedAt, q.endedAt) \in Minute \cup {NoTime}
    BY <1>1, MinutesOfDates DEF EntryRequest
  <1>3. e \in Entry
    BY <1>1, <1>2 DEF Entry
  <1>4. /\ e.state = entry.state /\ e.startedAt = entry.startedAt
        /\ e.endedAt = q.endedAt /\ e.minutes = ComputeMinutes(q.startedAt, q.endedAt)
    BY <1>1 DEF Entry
  <1>5. /\ entry' = e /\ EndEntry(r) /\ clock' = clock /\ undone' = undone
        /\ moved' = (moved \/ entry.startedAt # q.startedAt) /\ q.stage # "idle"
    BY DEF StopWrite
  <1>6. moved' \in BOOLEAN /\ undone' \in BOOLEAN
    BY <1>5 DEF EntryIInv, EntryTypeOK
  <1>7. ~moved' => e.startedAt = q.startedAt
    BY <1>4, <1>5
  <1> HIDE DEF e
  <1> QED
    BY <1>3, <1>4, <1>5, <1>6, <1>7, EntryWriteKeeps

\* A correction writes both dates with their minutes.
LEMMA EntryUpdateWriteKeeps ==
  ASSUME EntryIInv, NEW r \in Request, UpdateWrite(r)
  PROVE  EntryIInv'
  <1> DEFINE q == entryRq[r]
             e == [entry EXCEPT !.startedAt = q.startedAt, !.endedAt = q.endedAt,
                                !.minutes = ComputeMinutes(q.startedAt, q.endedAt)]
  <1>1. q \in EntryRequest /\ entry \in Entry
    BY DEF EntryIInv, EntryTypeOK
  <1>2. /\ q.startedAt \in Minute /\ q.endedAt \in Minute \cup {NoTime}
        /\ ComputeMinutes(q.startedAt, q.endedAt) \in Minute \cup {NoTime}
    BY <1>1, MinutesOfDates DEF EntryRequest
  <1>3. e \in Entry
    BY <1>1, <1>2 DEF Entry
  <1>4. /\ e.state = entry.state /\ e.startedAt = q.startedAt
        /\ e.endedAt = q.endedAt /\ e.minutes = ComputeMinutes(q.startedAt, q.endedAt)
    BY <1>1 DEF Entry
  <1>5. /\ entry' = e /\ EndEntry(r) /\ clock' = clock /\ moved' = moved
        /\ undone' = (undone \/ entry.endedAt # q.readEnd) /\ q.stage # "idle"
    BY DEF UpdateWrite
  <1>6. moved' \in BOOLEAN /\ undone' \in BOOLEAN
    BY <1>5 DEF EntryIInv, EntryTypeOK
  <1> HIDE DEF e
  <1> QED
    BY <1>3, <1>4, <1>5, <1>6, EntryWriteKeeps

\* A new entry runs, or has the minutes of its dates.
LEMMA EntryCreateKeeps ==
  ASSUME EntryIInv, CreateTimeEntry
  PROVE  EntryIInv'
  <1>1. PICK start \in Minute, end \in Minute \cup {NoTime} :
            entry' = [state |-> "live", startedAt |-> start, endedAt |-> end,
                      minutes |-> ComputeMinutes(start, end)]
    BY DEF CreateTimeEntry
  <1>2. UNCHANGED <<clock, entryRq, moved, undone>>
    BY DEF CreateTimeEntry
  <1>3. EntryTypeOK'
    BY <1>1, <1>2, MinutesOfDates DEF EntryIInv, EntryTypeOK, Entry
  <1>4. MinutesFollowDates'
    BY <1>1, MinutesOfDates DEF MinutesFollowDates
  <1>5. WritesInv'
    BY <1>1, <1>2 DEF EntryIInv, WritesInv
  <1> QED
    BY <1>1, <1>3, <1>4, <1>5 DEF EntryIInv

\* Every step on an entry keeps its invariant.
LEMMA EntryNextKeeps == EntryIInv /\ [EntryNext]_entryVars => EntryIInv'
  <1> SUFFICES ASSUME EntryIInv, [EntryNext]_entryVars PROVE EntryIInv'
    OBVIOUS
  <1>1. CASE UNCHANGED entryVars
    BY <1>1 DEF entryVars, EntryIInv, EntryTypeOK, MinutesFollowDates, WritesInv
  <1>2. CASE CreateTimeEntry
    BY <1>2, EntryCreateKeeps
  <1>3. CASE DeleteTimeEntry
    <2>1. entry' = [entry EXCEPT !.state = "deleted"] /\ UNCHANGED <<clock, entryRq, moved, undone>>
      BY <1>3 DEF DeleteTimeEntry
    <2>2. entry \in Entry
      BY DEF EntryIInv, EntryTypeOK
    <2>3. /\ entry' \in Entry /\ entry'.state = "deleted"
          /\ entry'.startedAt = entry.startedAt /\ entry'.endedAt = entry.endedAt
          /\ entry'.minutes = entry.minutes
      BY <2>1, <2>2 DEF Entry
    <2> QED
      BY <2>1, <2>3 DEF EntryIInv, EntryTypeOK, MinutesFollowDates, WritesInv
  <1>4. CASE EntryTick
    BY <1>4 DEF EntryTick, EntryIInv, EntryTypeOK, MinutesFollowDates, WritesInv
  <1>5. ASSUME NEW r \in Request, EntryFail(r)
        PROVE  EntryIInv'
    <2>1. /\ entryRq' = [entryRq EXCEPT ![r] = EntryIdle]
          /\ UNCHANGED <<clock, entry, moved, undone>>
      BY <1>5 DEF EntryFail, EndEntry
    <2>2. EntryTypeOK'
      BY <2>1, EntryIdleIsRequest DEF EntryIInv, EntryTypeOK
    <2>3. \A p \in Request : entryRq'[p] = IF p = r THEN EntryIdle ELSE entryRq[p]
      BY <2>1 DEF EntryIInv, EntryTypeOK
    <2>4. WritesInv'
      BY <2>1, <2>3, EntryIdleIsRequest DEF EntryIInv, WritesInv
    <2> QED
      BY <2>1, <2>2, <2>4 DEF EntryIInv, MinutesFollowDates
  <1> QED
    BY <1>1, <1>2, <1>3, <1>4, <1>5, EntryStopReadKeeps, EntryStopWriteKeeps, EntryUpdateReadKeeps,
       EntryUpdateWriteKeeps DEF EntryNext

-----------------------------------------------------------------------------
(* Theorems *)

\* The inductive invariant holds in every reachable state.
THEOREM EntryInductive == EntrySpec => []EntryIInv
  BY EntryInitIInv, EntryNextKeeps, PTL DEF EntrySpec

\* However stops and corrections overlap, the minutes are those between the dates,
\* unless a stop had read a start that was moved since.
THEOREM MinutesKept == EntrySpec => []MinutesFollowDates
  <1>1. EntryIInv => MinutesFollowDates
    BY DEF EntryIInv
  <1> QED
    BY <1>1, EntryInductive, PTL

\* A stopped entry runs again only when a client asked for it, or when a correction
\* wrote back what it had read before the stop.
THEOREM StopKept == EntrySpec => StopIsKept
  <1> DEFINE Kept == entry.endedAt # NoTime /\ entry'.endedAt = NoTime =>
                        undone' \/ \E r \in Request : entryRq[r].opens
  <1>1. EntryIInv /\ [EntryNext]_entryVars => [Kept]_entryVars
    <2> SUFFICES ASSUME EntryIInv, EntryNext, entry.endedAt # NoTime, entry'.endedAt = NoTime
                 PROVE  undone' \/ \E r \in Request : entryRq[r].opens
      OBVIOUS
    <2>1. entry \in Entry /\ entryRq \in [Request -> EntryRequest]
      BY DEF EntryIInv, EntryTypeOK
    <2>2. entry' # entry
      OBVIOUS
    <2>3. ~CreateTimeEntry
      BY DEF CreateTimeEntry, EntryIInv
    <2>4. ~DeleteTimeEntry
      BY <2>1 DEF DeleteTimeEntry, Entry
    <2>5. PICK r \in Request : StopWrite(r) \/ UpdateWrite(r)
      BY <2>2, <2>3, <2>4 DEF EntryNext, EntryTick, StopRead, UpdateRead, EntryFail
    <2>6. ~StopWrite(r)
      BY <2>1 DEF StopWrite, EntryIInv, WritesInv, Entry
    <2>7. CASE UpdateWrite(r)
      <3>1. entryRq[r].endedAt = NoTime /\ entryRq[r].stage = "updating"
        BY <2>1, <2>7 DEF UpdateWrite, Entry
      <3>2. CASE ~entryRq[r].opens
        BY <2>7, <3>1, <3>2 DEF UpdateWrite, EntryIInv, WritesInv
      <3> QED
        BY <3>2
    <2> QED
      BY <2>5, <2>6, <2>7
  <1> QED
    BY <1>1, EntryInductive, PTL DEF EntrySpec, StopIsKept

HIDE MinuteAssumption DEF Minute, NoTime, Unsent

-----------------------------------------------------------------------------
(***************************************************************************)
(* MCWork: the three side by side                                          *)
(***************************************************************************)

\* A behaviour of the three side by side, in whatever slice, is one of each of them.
THEOREM WorkImplements == MCSpec => TaskSpec /\ TeamSpec /\ EntrySpec
  <1>1. MCInit => TaskInit /\ TeamInit /\ EntryInit
    BY DEF MCInit
  <1>2. [MCNext]_<<service, taskVars, teamVars, entryVars>>
            => [TaskNext]_taskVars /\ [TeamNext]_teamVars /\ [EntryNext]_entryVars
    <2>1. TaskNextWith({NoColumn}) => TaskNext
      BY BodyAssumption DEF TaskNext, TaskNextWith
    <2> QED
      BY <2>1 DEF MCNext
  <1> QED
    BY <1>1, <1>2, PTL DEF MCSpec, TaskSpec, TeamSpec, EntrySpec

\* The rows, the slots and the histories of the three keep their types.
THEOREM WorkTypes == MCSpec => []TypesOK
  <1>1. TaskIInv /\ TeamIInv /\ EntryIInv => TypesOK
    BY DEF TypesOK, TaskIInv, TeamIInv, EntryIInv
  <1> QED
    BY <1>1, WorkImplements, TaskInductive, TeamInductive, EntryInductive, PTL
===============================================================================
