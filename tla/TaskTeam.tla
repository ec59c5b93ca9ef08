------------------------------ MODULE TaskTeam ------------------------------
(***************************************************************************)
(* The assignees of one task and one comment on it                         *)
(* (src/modules/tasks, src/modules/department/services/department-auth).   *)
(*                                                                         *)
(* Every handler reads the task with its assignees, asks whether the       *)
(* caller may see it, and then writes its row, the timeline and the        *)
(* notifications one statement after the other.  Visibility looks at       *)
(* department rows, active project rows and assignments; eligibility looks *)
(* at the home department and at any project row.                          *)
(*                                                                         *)
(* The task is there throughout, and so is what other services say of the  *)
(* users.  The text of the comment, reasons and replies are left out.      *)
(***************************************************************************)
EXTENDS Handlers

CONSTANT User

ASSUME UserAssumption == User # {}

VARIABLES
    standing,   \* what the rows of other services say of a user
    assignee,   \* the TaskAssignee rows
    comment,    \* the TaskComment row and its mentions
    teamRq,     \* the requests under way
    team,       \* per user: last timeline event, who was told of the assignment
    heard,      \* the comment: in the timeline, users told that they are mentioned
    mixed,      \* history: a request read the task while another was under way
    dropped     \* history: a request ended, or lost a message, before it was done

teamVars == <<standing, assignee, comment, teamRq, team, heard, mixed, dropped>>

\* What a user is to the task, the rows in its project and departments, and whether
\* the home department is among them.
Office == {"admin", "creator", "manager"}
Standing == [offices : SUBSET Office, project : {"none", "active", "removed"},
             member : BOOLEAN, home : BOOLEAN]
Assignee == {"none", "active", "removed"}
Comment == [state : {"none", "live", "deleted"}, author : User, mentions : SUBSET User]
TeamStage == {"idle", "adding", "added", "tell", "removing", "removed",
              "insert", "mention", "record", "notify", "editing", "deleting"}
TeamRequest == [stage : TeamStage, actor : User, target : User, ids : SUBSET User]

TeamTypeOK ==
    /\ standing \in [User -> Standing]
    /\ assignee \in [User -> Assignee]
    /\ comment \in Comment
    /\ teamRq \in [Request -> TeamRequest]
    /\ team \in [User -> [event : {"none", "added", "removed"}, told : BOOLEAN]]
    /\ heard \in [event : BOOLEAN, told : SUBSET User]
    /\ mixed \in BOOLEAN
    /\ dropped \in BOOLEAN

Someone == CHOOSE u \in User : TRUE
TeamIdle == [stage |-> "idle", actor |-> Someone, target |-> Someone, ids |-> {}]

TeamInit ==
    /\ standing \in [User -> Standing]
    /\ assignee = [u \in User |-> "none"]
    /\ comment = [state |-> "none", author |-> Someone, mentions |-> {}]
    /\ teamRq = [r \in Request |-> TeamIdle]
    /\ team = [u \in User |-> [event |-> "none", told |-> FALSE]]
    /\ heard = [event |-> FALSE, told |-> {}]
    /\ mixed = FALSE
    /\ dropped = FALSE

-----------------------------------------------------------------------------
TeamGo(r, stage) == teamRq' = [teamRq EXCEPT ![r].stage = stage]
TeamDone(r) == teamRq' = [teamRq EXCEPT ![r] = TeamIdle]

IsOrgAdmin(u) == "admin" \in standing[u].offices
UserManagesAnyOf(u) == "manager" \in standing[u].offices
InDepartment(u) == standing[u].member
InProject(u) == standing[u].project = "active"

\* canViewTask
CanView(u) ==
    \/ IsOrgAdmin(u)
    \/ "creator" \in standing[u].offices
    \/ assignee[u] = "active"
    \/ UserManagesAnyOf(u)
    \/ InDepartment(u)
    \/ InProject(u)

\* isAssignableCandidate
Eligible(u) == standing[u].home \/ standing[u].project # "none"

\* What the handlers begin with: the task is read and the caller may see it.
TeamRead(r, actor, target, ids, stage) ==
    /\ teamRq[r].stage = "idle"
    /\ CanView(actor)
    /\ teamRq' = [teamRq EXCEPT ![r] = [stage |-> stage, actor |-> actor, target |-> target,
                                        ids |-> ids]]
    /\ mixed' = (mixed \/ \E q \in Request \ {r} : teamRq[q].stage # "idle")
    /\ UNCHANGED <<standing, assignee, comment, team, heard, dropped>>

(* addAssignee *)

AddAssigneeRead(r, actor, u) == Eligible(u) /\ TeamRead(r, actor, u, {}, "adding")

\* The row is made, or revived; one that is active is written again.
AddAssigneeWrite(r) ==
    /\ teamRq[r].stage = "adding"
    /\ assignee' = [assignee EXCEPT ![teamRq[r].target] = "active"]
    /\ team' = [team EXCEPT ![teamRq[r].target].told = FALSE]
    /\ TeamGo(r, "added")
    /\ UNCHANGED <<standing, comment, heard, mixed, dropped>>

RecordAdded(r) ==
    /\ teamRq[r].stage = "added"
    /\ team' = [team EXCEPT ![teamRq[r].target].event = "added"]
    /\ TeamGo(r, "tell")
    /\ UNCHANGED <<standing, assignee, comment, heard, mixed, dropped>>

\* notify; what it fails to send is only logged.
TellAssignee(r) ==
    /\ teamRq[r].stage = "tell"
    /\ \/ team' = [team EXCEPT ![teamRq[r].target].told = TRUE] /\ UNCHANGED dropped
       \/ MayFail /\ dropped' = TRUE /\ UNCHANGED team
    /\ TeamDone(r)
    /\ UNCHANGED <<standing, assignee, comment, heard, mixed>>

(* removeAssignee *)

RemoveAssigneeRead(r, actor, u) ==
    assignee[u] = "active" /\ TeamRead(r, actor, u, {}, "removing")

RemoveAssigneeWrite(r) ==
    /\ teamRq[r].stage = "removing"
    /\ assignee' = [assignee EXCEPT ![teamRq[r].target] = "removed"]
    /\ TeamGo(r, "removed")
    /\ UNCHANGED <<standing, comment, team, heard, mixed, dropped>>

\* Mutant: the event of the assignment, copied.
RecordRemoved_Added(r) ==
    /\ teamRq[r].stage = "removed"
    /\ team' = [team EXCEPT ![teamRq[r].target].event = "added"]
    /\ TeamDone(r)
    /\ UNCHANGED <<standing, assignee, comment, heard, mixed, dropped>>

RecordRemoved(r) ==
    /\ teamRq[r].stage = "removed"
    /\ team' = [team EXCEPT ![teamRq[r].target].event = "removed"]
    /\ TeamDone(r)
    /\ UNCHANGED <<standing, assignee, comment, heard, mixed, dropped>>

-----------------------------------------------------------------------------
(* Comments *)

AddCommentRead(r, actor, ids) ==
    comment.state = "none" /\ TeamRead(r, actor, actor, ids, "insert")

CreateComment(r) ==
    /\ teamRq[r].stage = "insert"
    /\ comment.state = "none"
    /\ comment' = [state |-> "live", author |-> teamRq[r].actor, mentions |-> {}]
    /\ TeamGo(r, IF teamRq[r].ids = {} THEN "record" ELSE "mention")
    /\ UNCHANGED <<standing, assignee, team, heard, mixed, dropped>>

CreateCommentMentions(r) ==
    /\ teamRq[r].stage = "mention"
    /\ comment' = [comment EXCEPT !.mentions = teamRq[r].ids]
    /\ TeamGo(r, "record")
    /\ UNCHANGED <<standing, assignee, team, heard, mixed, dropped>>

RecordComment(r) ==
    /\ teamRq[r].stage = "record"
    /\ heard' = [heard EXCEPT !.event = TRUE]
    /\ IF teamRq[r].ids = {} THEN TeamDone(r) ELSE TeamGo(r, "notify")
    /\ UNCHANGED <<standing, assignee, comment, team, mixed, dropped>>

\* Mutant: the notifications go to those who follow the task.
TellMentioned_Assignees(r) ==
    /\ teamRq[r].stage = "notify"
    /\ heard' = [heard EXCEPT !.told = {u \in User \ {teamRq[r].actor} : assignee[u] = "active"}]
    /\ TeamDone(r)
    /\ UNCHANGED <<standing, assignee, comment, team, mixed, dropped>>

\* Those who are mentioned are told, together, except the author.
TellMentioned(r) ==
    LET due == teamRq[r].ids \ {teamRq[r].actor} IN
    /\ teamRq[r].stage = "notify"
    /\ \E sent \in SUBSET due :
            /\ MayFail \/ sent = due
            /\ heard' = [heard EXCEPT !.told = sent]
            /\ dropped' = (dropped \/ sent # due)
    /\ TeamDone(r)
    /\ UNCHANGED <<standing, assignee, comment, team, mixed>>

\* findCommentById looks past a comment that was deleted.
FindComment == comment.state = "live"

\* deleteComment: the author, and those who manage the task.
DeleteCommentRead(r, actor) ==
    /\ FindComment
    /\ actor = comment.author \/ IsOrgAdmin(actor) \/ UserManagesAnyOf(actor)
    /\ TeamRead(r, actor, actor, {}, "deleting")

DeleteCommentWrite(r) ==
    /\ teamRq[r].stage = "deleting"
    /\ comment' = [comment EXCEPT !.state = "deleted"]
    /\ TeamDone(r)
    /\ UNCHANGED <<standing, assignee, team, heard, mixed, dropped>>

\* updateComment: the author; the row it writes may have been deleted, and stays so.
UpdateCommentRead(r, actor) ==
    /\ FindComment
    /\ actor = comment.author
    /\ TeamRead(r, actor, actor, {}, "editing")

UpdateCommentWrite(r) ==
    /\ teamRq[r].stage = "editing"
    /\ TeamDone(r)
    /\ UNCHANGED <<standing, assignee, comment, team, heard, mixed, dropped>>

-----------------------------------------------------------------------------
TeamFail(r) ==
    /\ MayFail
    /\ teamRq[r].stage # "idle"
    /\ dropped' = TRUE
    /\ TeamDone(r)
    /\ UNCHANGED <<standing, assignee, comment, team, heard, mixed>>

TeamNext ==
    \E r \in Request :
        \/ \E actor, u \in User : AddAssigneeRead(r, actor, u) \/ RemoveAssigneeRead(r, actor, u)
        \/ AddAssigneeWrite(r) \/ RecordAdded(r) \/ TellAssignee(r)
        \/ RemoveAssigneeWrite(r) \/ RecordRemoved(r)
        \/ \E actor \in User, ids \in SUBSET User : AddCommentRead(r, actor, ids)
        \/ CreateComment(r) \/ CreateCommentMentions(r) \/ RecordComment(r) \/ TellMentioned(r)
        \/ \E actor \in User : DeleteCommentRead(r, actor) \/ UpdateCommentRead(r, actor)
        \/ DeleteCommentWrite(r) \/ UpdateCommentWrite(r)
        \/ TeamFail(r)

TeamSpec == TeamInit /\ [][TeamNext]_teamVars
-----------------------------------------------------------------------------
(* Properties *)

TeamQuiet == ~dropped /\ \A r \in Request : teamRq[r].stage = "idle"

\* When nothing is under way and nothing was lost, the timeline of a task that was
\* changed by one request at a time says who is assigned, and each assignee was
\* told of the assignment that is in force.
TimelineFollowsTeam ==
    TeamQuiet => \A u \in User :
        /\ ~mixed => /\ assignee[u] = "active" <=> team[u].event = "added"
                     /\ assignee[u] = "removed" <=> team[u].event = "removed"
        /\ assignee[u] = "active" => team[u].told

\* A comment that is there when nothing is under way and nothing was lost has the
\* mentions that were asked for, and exactly the others of them were told, however
\* the comment was edited or deleted in between.
MentionsAreTold ==
    TeamQuiet /\ comment.state # "none" =>
        heard.event /\ heard.told = comment.mentions \ {comment.author}
-----------------------------------------------------------------------------
(* The inductive invariant behind them.                                      *)

Busy(r) == teamRq[r].stage # "idle"

\* The timeline says of the user what the assignment says.
Follows(u) ==
    /\ assignee[u] = "active" <=> team[u].event = "added"
    /\ assignee[u] = "removed" <=> team[u].event = "removed"

\* Where it does not, the one request under way wrote the assignment and has yet to
\* record it.
TimelineInv ==
    ~dropped /\ ~mixed =>
        /\ \A r, q \in Request : Busy(r) /\ Busy(q) => r = q
        /\ \A r \in Request :
                /\ teamRq[r].stage = "added" => assignee[teamRq[r].target] = "active"
                /\ teamRq[r].stage = "removed" => assignee[teamRq[r].target] = "removed"
        /\ \A u \in User : Follows(u) \/ \E r \in Request :
                teamRq[r].target = u /\ teamRq[r].stage \in {"added", "removed"}

\* An assignee who was not told is told by a request under way.
ToldInv ==
    ~dropped => \A u \in User : assignee[u] = "active" =>
        team[u].told \/ \E r \in Request : teamRq[r].target = u
                                         /\ teamRq[r].stage \in {"added", "tell"}

\* The comment has one request that writes what follows it.
Following(r) == teamRq[r].stage \in {"mention", "record", "notify"}

CommentInv ==
    /\ \A r \in Request : teamRq[r].stage = "deleting" => comment.state # "none"
    /\ ~dropped =>
        /\ \A r, q \in Request : Following(r) /\ Following(q) => r = q
        /\ \A r \in Request : Following(r) =>
                /\ comment.state # "none" /\ comment.author = teamRq[r].actor
                /\ heard.told = {}
                /\ teamRq[r].stage = "mention" => comment.mentions = {}
                /\ teamRq[r].stage # "mention" => comment.mentions = teamRq[r].ids
                /\ teamRq[r].stage = "notify" => heard.event
        /\ IF comment.state = "none"
           THEN comment.mentions = {} /\ heard.told = {}
           ELSE \/ \E r \in Request : Following(r)
                \/ heard.event /\ heard.told = comment.mentions \ {comment.author}

TeamIInv == TeamTypeOK /\ TimelineInv /\ ToldInv /\ CommentInv
=============================================================================
