# Verification of the multi-tenant SaaS back end

TLA+ models of the Express / Prisma / Redis application of this repository, the TLC runs
that check them on small instances, and TLAPS proofs for every value of their constants.
Paths below are relative to the repository.

Contents: [the system](#the-system), [modules](#the-modules-and-the-code),
[runs](#the-runs), [fairness](#fairness), [proofs](#what-is-proved),
[findings](#where-code-and-documents-disagree), [limits](#what-is-not-modelled),
[plan](#the-plan).

## The system

One Node process serves HTTP. PostgreSQL (through Prisma) keeps the rows, Redis keeps
short-lived copies and one-time codes, BullMQ (in Redis) carries jobs to workers of the same
process. A handler is an `async` function: between two `await`s every other handler may
run, and the process may stop. Prisma transactions are interactive and run at PostgreSQL's
default level, Read Committed: nothing they read is locked. Most handlers are *read, decide,
write* sequences outside any transaction, whose writes do not repeat what was decided on.

| Component | State | Operations | Talks to | Hard part | Correct when |
|---|---|---|---|---|---|
| Memberships (`modules/tenant/services/tenant-membership.service.js`) | `TenantUser` rows: status, role | add, role, remove, suspend, restore | invites and users write the same rows; access caches them | stale reads between overlapping handlers | the owner keeps the seat; only granted roles appear; removed and suspended users stay out |
| Invites (`tenant-invite.service.js`) | `TenantInvite` rows, one per tenant and address | create, cancel, resend, accept, reject, claim; expiry | writes memberships | two tables kept in step by six handlers, one of them in two statements | invite and row agree |
| Tenants (`tenant.service.js`) | `Tenant` rows | create, update, delete, restore, switch | access caches them | invalidation | a tenant that is down admits nobody |
| Access (`tenant.middleware.js`, `tenant.redis.js`) | Redis copies of tenant and membership | `resolveTenant`, invalidations | every tenant route, rbac | cache-aside races, outages, crashes | a copy is stale for a known cause and not for ever |
| Tenant settings (`tenant-settings.service.js`) | one row, one Redis copy without lifetime | read, merge, delete | rbac, tasks | an update starts from a copy that an earlier one may not have written | no setting is lost without an overlap |
| Users (`modules/users`) | `User` rows, cached profiles | profile, admin update, delete, reactivate, sessions | writes memberships and sessions | writes rows other services protect | the same rows as memberships |
| Roles and permissions (`modules/rbac`) | permissions per role, overrides per user | set, delete a role, override, check, list, change a user's role | memberships, access | a difference computed from an old read and written row by row; checks in two reads | a role has the set somebody asked for; answers held at some moment |
| One-time codes (`modules/auth`, otp) | Redis: a record per request id, a pointer per address and purpose, each with its own lifetime | send, resend, verify | sign-in, password reset | two keys, read-modify-write of a counter, expiry | bounded guesses, single use, the newest code alone |
| Sessions and passwords (`modules/auth`) | `AuthSession` rows, `User.password` | login, refresh, logout, revoke, change and reset | users | login and refresh against password change; rotation | old sessions end; a token has one heir |
| OAuth sign-in | none of its own | exchange a provider's answer for a session | sessions | external protocol | as login |
| Projects (`modules/projects`) | `Project`, `ProjectMember` rows, cached projects and lists | create, update, delete, add, remove, role | tasks | the last owner; removed members keep a row that passes checks | a project has an owner |
| Tasks (`modules/tasks`) | `Task`, its departments, assignees, comments, timeline, deadline history, cached tasks and lists | create, update, delete, assign, unassign, comment | projects, departments, notifications | dates and records derived from an old read, written in several statements | dates, timeline and notifications agree with the row |
| Time tracking (`modules/time-tracking`) | `TimeEntry` rows | create, stop, update, delete | tasks | minutes computed from what was read | minutes belong to the dates |
| Departments (`modules/department`) | `Department`, its members, the home department of a user | create, update, delete, add, remove | tasks | row, home and department in three statements | managers are members; a home is a membership |
| Queues and workers (`modules/queue`), audit log, notifications | jobs, append-only rows | enqueue, direct write, work, retry | all | at-least-once delivery, a process that dies between write and acknowledgement | an entry per event |
| Shutdown (`lib/shutdown.js`, `index.js`) | registered handlers | run in order | workers, Redis, Prisma | order; a second signal | nothing is closed under its user |

The HTTP plumbing (validation, CSRF, access token, rate limits), mail, the read-only pages
(dashboard, directory, health) and the seeds keep no state of this application's own that
its logic depends on.

## The modules and the code

| Module | Stands for | Extends, or is used by |
|---|---|---|
| `TenantMembership` | the handlers that write `TenantUser` and `TenantInvite` | `TenantLifecycle` through INSTANCE |
| `TenantLifecycle` | what those handlers promise: each operation is one atomic move | |
| `TenantAccess` | `resolveTenant` and the Redis copies | |
| `OtpFlow` | one address and one purpose: the records, the pointer, send, resend, verify | `Handlers` |
| `AuthSessions` | the sessions and the password of one user | `Handlers`; `MCPeople` |
| `ProjectMembers` | the handlers that write `ProjectMember` rows | `Handlers`; `MCPeople` |
| `Departments` | departments, member rows, homes | `Handlers`; `MCPeople` |
| `RolePermissions` | the permissions of a role and of a user who has it | `Handlers`; `MCPeople` |
| `TaskLifecycle` | one task: status, dates, due date, links, records | `Handlers`; `MCWork` |
| `TaskTeam` | the assignees of a task and one comment | `Handlers`; `MCWork` |
| `TimeEntries` | one time entry | `Handlers`; `MCWork` |
| `ContentCache` | the Redis copies of projects, tasks, lists and profiles | `Handlers`; `MCServices` |
| `TenantSettings` | the settings of a tenant and their copy | `Handlers`; `MCServices` |
| `Background` | queues, workers, audit entries, notifications, mails, the process | `Handlers`; `MCServices` |
| `Handlers` | what these share: request slots that may fail | |
| `MC*` | instances for TLC, with the symmetry of the request slots; `MCPeople` puts four services side by side, `MCWork` and `MCServices` three | |
| `*Proofs` | theorems: one module for each of the first four specifications, and `PeopleProofs`, `WorkProofs`, `ServicesProofs` for the services of an `MC` module and their composition | |

**A statement is an action.** Every model of a service has a small set of request slots.
A slot remembers the last statement its handler finished and what that statement read; one
action is one awaited statement, or one transaction commit. A slot may stop between two
actions (`Fail`, `Crash`): a refusal, a database error, the end of the process. Reads whose
answer cannot change any more belong to the statement after them, as the head of the module
says in each case. Since `Fail` may end any request at any stage, a refusal needs no action,
except in `ProjectMembers`, where a property is about one (`RefuseTarget`).

**TenantMembership.** `member[u]` and `invite[u]` are the rows of user `u`; `known` are the
addresses with an account. `Authorize` is the admin check that opens a handler, after which
the actor may be demoted; `XRead` the checks, `XWrite` or `XCommit` the write. Writes take
what the row is *now* for the columns they do not set, and what was read for the branch they
take. The users and rbac endpoints write the same rows in one step, for the users in
`UserAdminTargets`. `claimPendingInvites` runs the transaction of `acceptInvite` once for
each invite it finds, and is that action. An expired invite is `live = FALSE`; its status
stays PENDING, as in the table. `granted` is history: the roles an authorised actor named.

**TenantLifecycle.** `status` and `offer` of every user, one action per operation:
`Admit`, `Remove`, `Suspend`, `Restore`, `MakeOffer`, `Withdraw`, `Vacate`, `Accept`,
`Reject`, `Override`. `cancelInvite` is two moves, since nothing makes its statements one.

**TenantAccess.** One tenant and one user, for the keys of different users do not interact. A
membership is told apart by what it gives: its role when ACTIVE, else the refused status.
`WriteSeat` stands for any handler that writes the row and then owes a DEL; it allows any new
value, which is more than TenantMembership's handlers can write. Copies have lifetimes in ticks.
`updateTenant` writes the columns its body names, so it may end in any state of the row. When
Redis is away every command of `tenant.redis.js` is a no-op, as its `catch` blocks make it; a
lost DEL sets the history flag `lost`, a copy stored after its row was changed sets `raced`.
`getTenant` stores a tenant the way `resolveTenant` does and is one more reader. `updateTenant`
reads `deletedAt` and writes in one step.

**OtpFlow.** A code is identified with its request id, and an id is used again when nothing
refers to it, so that the codes of the model are those *in circulation*. `otp[c]` is the
record (lifetime, attempts, resends, time to wait), `pointer` the key by address. `saveOtp`
and `updateOtp` write a whole record that was read earlier: `overtaken` records that this
lost another request's write, `unpointed` that a record lives without its pointer.

**AuthSessions.** A refresh token is a JWT of user and second; two tokens of one second are
the same string, and `refreshTokenHash` is unique. `session[t]` is therefore the row of the
token signed in second `t`, and a second INSERT in that second is refused. Signing and
INSERT are one step. A login is the read of the user (`LoginWithEmailPassword`, `LoginWithOtp`,
`GoogleLogin`, which differ in what they ask of `User.isActive` and of the password) and the INSERT.
`validatePasswordAction` is not awaited by `passwordService`, so a
change starts whatever the old password is. `updateProfile` writes the body of its request and with it,
if named, the password and `isActive`: it ends no session, which sets `lost`. History: the password
a session goes back to,
whether it was old when the row was inserted (`late`), how many rows were made from it.

**ProjectMembers.** One project. `Authorize` is the read of the project and of the actor's row,
`ReadTarget` that of the target's (`RefuseTarget` when it refuses), then one write per operation;
`updateProject` may set or clear `deletedAt`, if its body names it. `getProjectMembership` does not
look at `removedAt`, so `Member` holds of removed rows as well. `stale` records a write
whose own checks, repeated at the write, would refuse it, `ghost` one for an actor who was
removed by then.

**Departments.** A handler reads the department, then writes the member row, the home and the
department, each in a statement; `updateDepartment` looks at the name after the rows, and
`removeMember` clears the home whatever it names. `busyDept` and `busyUser` record that two
requests met, `halfway` the users whose row was written and whose home was not.

**RolePermissions.** `ReadGrants` computes a difference, `WriteGrant` writes one row of it at a
time, in any order, as `Promise.all` does. A check reads the override and then the role
(`CheckOverride`, `CheckRole`), a listing the role and then the overrides; `held` collects what
was in force while the request ran.

**TaskLifecycle.** `updateTask` is five statements: the read, the notifications of the new
status, the deadline history, the row, the timeline. The row it writes starts as a copy of the
body (`Spread`), which may name any column: the lifecycle dates, the first due date and
`deletedAt` as well, as a date, as null or not at all (`Undeclared`; `Body` is the set of bodies
that come). `StatusFields` and `InitialDue` then override what the read decided on. `loose` is
history: the dates that a body named, or that an update left as they were when it had read
another status or due date than the one it wrote over; a move that sets such a date by itself
takes it out again. The creation is the row, the department links, the timeline. `createTask`
admits a task without a project although `Task.projectId` may not be null: such a task fails, as
any request may. `record` is the last entry of each derived list.

**TaskTeam.** `standing[u].offices` are the admin role, the authorship of the task and the departments
managed. `CanView` and `Eligible` are `canViewTask` and `isAssignableCandidate`, over what the
project, department and membership rows say of a user (`standing`, constant in a behaviour). A
handler is read, row, timeline, notification; `heard` and `team` are what was recorded and told.

**TimeEntries.** `stopTimeEntry` takes the start it read, `updateTimeEntry` each date the client did
not send. `ComputeMinutes` is the helper of the repository.

**ContentCache.** One entity per kind and one list per kind. Of a copy only the parts are kept that
are out of date: `Shows` names the rows that the loading query includes, `Deletes` the
copies that the writer of a row deletes (the entity, then KEYS and DEL of the lists). A write of
a row spoils the copies that show it and what readers hold. `updateLastLogin` writes a column that
the copy of a profile shows, and deletes no copy. Redis may fail at every call.

**TenantSettings.** `readSettings` (copy, or row that becomes the copy), `Merge`, `writeSettings`
(row, then copy), the deletion likewise. `owed` is the set of settings whose update was
answered with success.

**Background.** One event of each kind. The request adds a job (a notification writes its row
first); when the queue answers with an error the audit entry is written directly, a mail is
refused, a notification keeps its row. The error may hide a job that was added. A worker
takes the job, writes and completes; an error uses up an attempt, a dead process leaves the job
stalled. Signals, `server.close`, the handlers in their order and `process.exit` are actions of
the process. A second signal waits for the same `close` event as the first, finds the handlers
taken and exits.

**Bodies of requests.** `validate` checks a body against its schema and puts the parsed one in
`req.validated`; the controllers pass on `req.body`, in which undeclared fields are still there.
Most services pick the fields they use. Four write the whole body, and are modelled so:
`updateTask` (`TaskLifecycle`), `updateProject` (`ProjectMembers`: `deletedAt`), `updateTenant`
(`TenantAccess`: `isActive`, `deletedAt`) and `updateProfile` (`AuthSessions`: `password`,
`isActive`). What is modelled of an undeclared field is a column that some property looks at.
Left out are keys and foreign keys (a task moved to another project), nested writes of
relations, and columns nothing is derived from; a field that is no column, such as `statusNote`,
makes Prisma refuse the UPDATE and is a request that fails. A declared field has been checked by
its schema: a status is one the schema admits.

## The runs

| Run | Expect | Properties | Shows |
|---|---|---|---|
| `membership_overlap` | pass | TypeOK, OwnerKeepsSeat, RoleWasGranted, TablesAgree, SuspensionLasts | two overlapping requests, with the users endpoints on the member |
| `membership_serial` | pass | InvitedHasOffer, SerialLifecycle | one request at a time, crashes included: the handlers implement TenantLifecycle |
| `membership_owner` | violation | OwnerIsProtected | see below |
| `membership_invited` | violation | OnlyRemovedBecomesInvited | see below |
| `access` | pass | TypeOK, StaleHasCause, AdmissionIsCurrent, EventuallyCoherent | two requests, a writer, outages, expiry, crashes; every staleness ends once the rows stop changing |
| `otp` | pass | TypeOK, TriesBounded, SingleUse, OneLiveCode, NoLockout | two overlapping requests, expiry, crashes |
| `otp_latest` | violation | LatestCodeOnly | see below |
| `session_rotation` | violation | RefreshIssues | see below |
| `people` | pass | TypesOK, OwnerRowRemains, ActiveOwnerRemains, ManagerStaysMember, HomeHasRow, RoleIsAsWanted, AnswerHeld, SessionTypeOK, OldSessionHasCause, OneHeir | two overlapping requests on a project, on departments, on a role, on the sessions of a user with two password changes |
| `project_readmit` | violation | ReaddingReactivates | see below |
| `work` | pass | TypesOK, DatesFollowStatus, RecordsAgree, TimelineFollowsTeam, MentionsAreTold, MinutesFollowDates, StopIsKept | two overlapping requests on a task, its team and comment, a time entry |
| `services` | pass | TypesOK, StaleCopyHasCause, SettingsAreKept, AtMostOneEntry, DrainedExit, EventuallyFresh, EventuallySettled | copies, settings, queues and the process, with crashes, restarts and signals |

What the properties say, in short (each is stated in full in its module). Most have the form *X,
unless a named thing happened*: the code locks nothing, so what can be promised is that only the
named interleavings do harm. Such a property does not forbid the interleaving it names: there
the harm is what the code does, and the property says that nothing *else* does it. The hazards
of which only that much is shown say so in a note of `PROJECT.json`: overwritten rows of members
(`tenant-membership.service.js:38`, `tenant-invite.service.js:344,412`), settings
(`tenant-settings.service.js:27,85`), owners who cross (`project.service.js:271`), outdated
updates and failed statements of tasks (`task.service.js:118,241,290`), refused or crossing
changes of departments (`department.service.js:90,180`), half-done changes of a role
(`rbac.repository.js:96,140`), overlapping guesses, logins and refreshes, and the audit entry of
a worker that dies before it reports.

- *OwnerKeepsSeat*: no interleaving of the tenant module's handlers takes the owner its
  active admin seat, as long as the users endpoints are not aimed at it.
- *RoleWasGranted*: a stale read or a late acceptance never gives a role nobody named.
- *TablesAgree*: an accepted invite has a membership row, an INVITED row an invite.
- *SuspensionLasts*: only a request to restore or to remove the member, or one that had read the row
  before the suspension, ends it; an invite, an acceptance or a rejection that sees it does not.
- *SerialLifecycle*: without overlap every handler is an atomic move of the lifecycle.
- *InvitedHasOffer*: without overlap an INVITED row is backed by an invite.
- *StaleHasCause*: a copy is stale only while its DEL is owed, or after a race or a loss.
- *AdmissionIsCurrent*: a request that arrives in a quiet state and meets no write is
  admitted with what the rows give: a suspension that was answered is in force.
- *EventuallyCoherent*: whatever raced or was lost, lifetimes repair it.
- *TriesBounded*, *SingleUse*: a code is guessed and used as often as allowed, unless two
  verifications overlapped on it. *OneLiveCode*: two codes live together only for a cause.
  *NoLockout*: a user at the resend limit can send again some day, again and again.
- *OldSessionHasCause*: a session of an older password was inserted late by a request that had
  started before, or the change was cut short or came with a profile. *OneHeir*: a token has one
  heir unless two refreshes held it together.
- *OwnerRowRemains*, *ActiveOwnerRemains*: a project keeps an owner unless two requests crossed
  (two owners demote each other) or a removed member acted.
- *ManagerStaysMember*, *HomeHasRow*: the manager has a row, and a home is a department with a
  row of the user, although both are written in steps that may be refused in the middle.
- *RoleIsAsWanted*: after overlapping changes each permission is as one of them wanted.
  *AnswerHeld*: a check or a listing answers what was in force at some moment of the request.
- *DatesFollowStatus*: the dates are those of the status along every chain of moves, and
  `initialDueDate` is the first, but for a date that a client named in the body or an outdated
  update left; the next move that sets the date makes it right. The other dates stay bound.
  *RecordsAgree*: timeline, deadline history and announcements end with what the row says.
  *TimelineFollowsTeam*, *MentionsAreTold*: so do the events and notifications of assignments
  and mentions.
- *MinutesFollowDates*, *StopIsKept*: minutes belong to the dates unless a stop used a start that was
  moved; a stopped entry runs again only on request or by a correction that had read it before.
- *StaleCopyHasCause*: a copy is out of date in what its own writers changed only for a cause.
  *EventuallyFresh*: in what others changed (a task shows the members of its project, a profile
  the last login), it is so for its lifetime at most.
- *SettingsAreKept*: without an overlap no setting whose update succeeded is lost, whatever failed
  between row and copy.
- *AtMostOneEntry*, *EventuallySettled*: an event is entered once, unless the step that entered it did
  not live to say so, and every event ends entered or in an error. *DrainedExit*: a shutdown
  leaves no request half served, closes the Redis client after the last of them and finishes the
  jobs under way, unless it is told twice.

**Bounds.** Every hazard the properties are about needs two requests and one row, and each run
has them: two request slots (one where the property is about no overlap), one member beside the
owner, both roles, one tenant, one user's keys. Rows of different users share nothing but the
actor of `Authorize`, and the owner is such an actor. Lifetimes of one or two ticks put expiry
before, between and after every statement. `otp` has two codes, as many as one address needs for
an old and a new one; two overlapping resends with a third code are covered by the proof. The
sessions of `people` have three seconds and two changes: a session of the first password, a
change, a late session, a second change. `MaxTime`, `MaxPassword`, `MaxMinute` and
`MaxDisturbances` bound counters and appear in the guards of `Tick`, `SessionTick`,
`ChangeWrite`, `UpdateProfile`, `EntryTick`, `Signal` and `Die`; two disturbances are two
signals, a death and a signal, or two deaths, as many as it takes for a job to stall beyond
`MaxStalls`. `people` has three users of the project, for two owners and one they differ about,
two employees, two departments and two permissions. `work` has the three statuses that the
request schemas admit, two due dates, two users of whom one sees every task. Symmetry exchanges
request slots, users and dates and is used in runs without liveness only.

**Slices.** Modules that share no variable are explored one after the other in one run: `service` is
chosen at the start and only its module moves. Where a module alone is too large for a run,
a slice leaves out requests that could not meet: `MCTenantAccess` separates changes of a role
from refusals, for a copy is told apart only by whether it misleads; `MCPeople` lets a second
department be used by one request at a time, and separates overlapping changes of a role
from questions beside one change, and stops where a property of projects or sessions has
nothing to say any more; `MCWork` separates statuses from due dates, whose fields
do not look at each other, has both in requests that come one at a time, and bodies that name a
further column likewise (one at a time: a body that names two writes what two updates write); `MCServices`
separates the kinds of copies and mails from entries. Each module says why next to the slice.

Deadlock is checked in the runs of memberships, access and codes and in `session_rotation`: a
request can always start or time can pass. `people`, `work`, `services` and `project_readmit` do
not check it, for there a service may come to its end: the project is deleted, all permissions
of a role that is gone, every event over and the disturbances used up.

## Fairness

`TenantAccess!Fairness`: weak fairness of every started request and writer (the event loop
resumes a handler whose awaited command has settled, and a command settles or fails) and of
`Tick` (Redis keeps its clock). Nothing says that a request arrives, that Redis comes back,
or that no process stops. `OtpFlow` needs `WF(Tick)` alone: expiry reopens sending, whatever
the requests do. `ContentCache!CacheFairness` is the expiry of each copy, and nothing else: no request
has to finish. `Background!BgFairness` is weak fairness of each event's request and job (the event
loop and the workers go on) and of the process (it starts, drains, exits, and the service
manager starts it again). Signals and deaths are not fair and are bounded. The other models
state safety only and have no fairness.

## What is proved

Every invariant and every action property of a passing run is a theorem for every value of the
constants, except where the list at the end of this section says otherwise.

Assumptions: those of the `ASSUME`s in each module, which TLC evaluates in the runs. They
say that the owner is a user and ADMIN a role, that there is a user, that limits and lifetimes are
natural numbers (positive where zero would switch the feature off) and that named values are
distinct. `BodyAssumption` says only that a body may be without a further column and otherwise names some of
`Undeclared`. The number of users, roles, codes, departments, keys, requests, readers and writers, and
all limits, are arbitrary. The slices of the MC modules play no part: the theorems are about the
specification of each module, and the composition theorems carry them over to the slices.

Each proof module proves `Spec => []IInv` by one lemma per action or per group of actions
that write alike, and draws the properties from it. The inductive invariants are stated, in named
parts, at the end of the module they are about.

- **TenantMembershipProofs** (`TypeCorrect`, `OwnerSeat`, `RolesAreGranted`, `TablesStayAgreed`,
  `SuspensionsLast`). What a request read may be false when it writes; the inductive invariant
  keeps the one part that stays true: a row or an invite that existed still exists, and a
  request's role has been granted. For the owner it says more: no request aimed at the owner
  ever gets beyond its checks, and the owner never has an invite. For suspensions `SeenInv` says
  of the requests that go on to write which of them cannot have found the member suspended.
  (`InvitedWithOffer`, `ImplementsLifecycle`), where requests come one at a time (`OneAtATime`,
  the hypothesis of both). `DecisionHolds` says for each stage what the handler decided on and
  that it is still so, although expiry and signup come in between; with it each statement is a
  move of `TenantLifecycle` or none. With two request slots TLC finds both false: an `addMember`
  that overlaps a `createInvite` breaks the second, a rejection that overlaps another
  `createInvite` the first.
- **TenantAccessProofs** (`TypeCorrect`, `StaleCopies`, `CurrentAdmission`). Each kind of
  staleness is owed by a writer of its own kind; while an owed request is under way nobody
  holds an answer that misleads; an owed request that passed the tenant passed it up.
- **OtpFlowProofs** (`TypeCorrect`, `GuessesAreBounded`, `CodesAreUsedOnce`,
  `CodesAreReplaced`). A code that is not yet sent has one holder; while nothing was
  overtaken, the attempts in the record count every wrong guess, a used code has
  no record, and a live code that no pointer names has its cause.
- **AuthSessionsProofs** (`TypeCorrect`, `ChangeEndsSessions`, `RotationIsLinear`). While no
  two refreshes held one token, a token has one holder, is dead once its holder has
  revoked it, and a live session has no heir. For the change of password the property is
  inductive by itself: `late` is set by the INSERT, and the UPDATE leaves nothing live.
- **PeopleProofs**, projects (`ProjectTypeCorrect`, `OwnersRemain`, `ActiveOwnersRemain`). A
  write that its own checks would still admit leaves an owner: the actor of a demotion or a
  removal is one, and is not the target. `ShapeInv` says what is left of the checks at the
  write: the target still has a row, and is not the actor whose role is changed.
- **PeopleProofs**, departments (`ManagerIsMember`, `HomeIsMembership`). `ReliesOn` is what a request
  that is alone at its department, or about its user, finds there until its last statement;
  `OverlapsRecorded` makes every other request there one that `busyDept` or `busyUser` names.
- **PeopleProofs**, permissions (`RoleAsWanted`, `AnswersHeld`). While changes run together each
  permission is as one of them wants it, or one of them has yet to write it (`WillWrite`, `WantedInv`).
  A check or a listing that is between its two reads has collected what is in force (`HeldInv`).
- **WorkProofs**, tasks (`DatesFollow`, `RecordsKept`). The dates are inductive together with
  `ReadInv` (a start that a request read is still there, for only clients clear it, and a task
  without the status it read has changed) and `FirstDueInv` (a due date was there from the first
  one on, and is that one where it was not kept). `Outdated` puts into `loose` exactly the dates
  for which the row is not the one the update read. For the records `InStep` says, stage by
  stage, which of them the one request under way has written and which it owes.
- **WorkProofs**, teams (`TimelineFollows`, `MentionsTold`). An assignment that the timeline does not
  show, or of which the assignee was not told, has a request that will (`TimelineInv`, `ToldInv`); a
  comment has one request that writes what follows it (`CommentInv`), even while it is deleted.
- **WorkProofs**, time entries (`MinutesKept`, `StopKept`). The first is inductive with the types;
  for the second, `WritesInv` says that a correction without an end had read none.
- **ServicesProofs**, copies (`StaleHasCause`). A writer that has changed a row has the copies of it
  before it (`LeftInv`), and KEYS finds nothing only when the list is not there.
- **ServicesProofs**, settings (`SettingsKept`). As long as no two requests overlapped the one that is
  under way holds what is owed, or more, when it writes: `HeldInv`, stage by stage. A failure between
  row and copy leaves a copy that differs from the row, but has what is owed.
- **ServicesProofs**, queues and process (`OneEntry`, `ExitIsDrained`). The invariant is one
  of the process and one of each event by itself: `UnwrittenInv` says which stages of request and job
  come before an entry, `WrittenInv` bounds the entries of an event that is not in doubt, and
  `ServedInv` that nothing is in flight once the server has closed.
- **Compositions** (`PeopleImplement`, `WorkImplements`, `ServicesImplement`, and `PeopleTypes`,
  `WorkTypes`, `ServicesTypes`). A behaviour of `MCPeople`, `MCWork` or `MCServices` is one of each of its
  services, whatever the slices leave out; `TypesOK` of the composition follows.

Only model-checked:

- *EventuallyCoherent*, *NoLockout*, *EventuallyFresh* and *EventuallySettled*: liveness under
  fairness is out of the prover's reach.
- `ServicesImplement` is about the safety parts: that a run of one service meets the fairness
  of that service is not proved.
- That the slices leave no interesting case out is argued next to each slice, not proved. The theorems
  about the services do not depend on it.

## Where code and documents disagree

1. `membership_owner`: "Cannot change owner role", "Cannot remove owner", "Cannot suspend
   owner" (`tenant-membership.service.js:107,157,203`) hold in that service; `deleteUser`,
   `updateUserByAdmin` and `updateUserRole` write the same row without the check.
2. `membership_invited`: the transaction of `createInvite` is said to be "REMOVED ->
   reactivate as INVITED" (`tenant-invite.service.js:107`) and writes INVITED over any status.
   An addMember that commits in between is undone.
3. `otp_latest`: "Delete the old requestId's OTP so the previous code can't be used"
   (`otp-resend.handler.js:36`). A wrong guess renews the record and not the pointer; the
   next send does not find the record, and both codes are accepted.
4. `session_rotation`: "Rotates the refresh token ... and issues a new access token"
   (`auth.routes.js:210`). In the second a token was signed in, its refresh revokes the
   session, fails on the unique hash, and the client has no session left.
5. `project_readmit`: "upsert so re-adding a removed member reactivates"
   (`project.repository.js:151`). `addMember` refuses whoever has a row
   (`project.service.js:204-208`), and the row of a removed member is found, so the upsert never
   meets one unless two requests overlap.

## What is not modelled

- The rate limits of the OTP routes (per address and per id, in memory): the model allows
  more requests than the code does.
- `generateOtp` and bcrypt: a guess is right or wrong. The text of tokens, mails, comments, titles.
- The second copy of an invite's token in Redis (read by no handler of the service), listing and
  searching.
- Multi-process deployment adds no action for the services, whose request slots share only the
  stores; `Background` has one process at a time.
- Rows of two tenants at once: no handler writes the rows of another tenant than the one
  it was resolved for, except `claimPendingInvites`, which handles them one by one.
- Uniqueness that the database alone enforces and no handler relies on: slugs, and names of
  departments, roles and task types, whose refusal is a request that fails. (`findDepartmentByName`
  does not see deleted departments, the unique index does: such a create fails late.)
- Task types of a department, names of roles, the read flag of a notification: single writes of a
  column that nothing else is derived from.
- Of BullMQ, priorities, delays, the backoff between attempts and the removal of old jobs. A job
  stalls only when its process dies; a worker that is slow without dying is not modelled.
- Mail, dashboard, directory, health, seeds, swagger and validation schemas are pure I/O, read-only
  or stateless.

## The plan

Done, in order: memberships and invites, access, one-time codes, sessions; then projects,
departments, permissions, tasks, time entries, copies, settings, queues and shutdown; then the
proofs, one specification after the other, the simulation of `TenantLifecycle` and the
compositions.

Left: an abstract specification of the access checks that `TenantAccess` implements in its quiet
states, in the manner of `TenantLifecycle`; the simulation of an atomic `Background` by the
queues where no step is in doubt.
