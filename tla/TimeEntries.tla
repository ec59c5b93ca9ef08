----------------------------- MODULE TimeEntries -----------------------------
(***************************************************************************)
(* One time entry of one user (src/modules/time-tracking).                 *)
(*                                                                         *)
(* durationMinutes is derived from the dates by the write that sets it.    *)
(* stopTimeEntry writes the end and the minutes it computed from the start *)
(* it read; updateTimeEntry writes both dates and takes the one that was   *)
(* not sent from what it read.  The first read of a handler, by the        *)
(* service, asks the same of the row as the second, by the repository, and *)
(* is part of it.  Times are minutes; a description is left out.           *)
(***************************************************************************)
EXTENDS Integers, Handlers

CONSTANT MaxMinute     \* bound of the clock and of the dates that clients send

ASSUME MinuteAssumption == MaxMinute \in Nat

Minute == 0..MaxMinute
NoTime == -1           \* endedAt of a running entry, durationMinutes without dates
Unsent == -2           \* a date the client did not send

VARIABLES
    clock,
    entry,      \* the TimeEntry row
    entryRq,    \* the requests under way
    moved,      \* history: a stop computed from a start that had been moved
    undone      \* history: an update wrote back an end that had been replaced

entryVars == <<clock, entry, entryRq, moved, undone>>

Entry == [state : {"none", "live", "deleted"}, startedAt : Minute,
          endedAt : Minute \cup {NoTime}, minutes : Minute \cup {NoTime}]
\* What a stop or an update will write, and what it read.
EntryRequest == [stage : {"idle", "stopping", "updating"},
                 startedAt : Minute, endedAt : Minute \cup {NoTime},
                 readEnd : Minute \cup {NoTime}, opens : BOOLEAN]
EntryIdle == [stage |-> "idle", startedAt |-> 0, endedAt |-> NoTime, readEnd |-> NoTime,
              opens |-> FALSE]

EntryTypeOK ==
    /\ clock \in Minute
    /\ entry \in Entry
    /\ entryRq \in [Request -> EntryRequest]
    /\ moved \in BOOLEAN
    /\ undone \in BOOLEAN

EntryInit ==
    /\ clock = 0
    /\ entry = [state |-> "none", startedAt |-> 0, endedAt |-> NoTime, minutes |-> NoTime]
    /\ entryRq = [r \in Request |-> EntryIdle]
    /\ moved = FALSE
    /\ undone = FALSE

-----------------------------------------------------------------------------
\* Mutant: no minutes are taken for no duration.
ComputeMinutes_NotZero(start, end) ==
    IF end = NoTime \/ end <= start THEN NoTime ELSE end - start

\* No minutes while the entry runs, and none when it ends before it starts.
ComputeMinutes(start, end) == IF end = NoTime \/ end < start THEN NoTime ELSE end - start

\* createTimeEntry: a start that was not sent is now.
CreateTimeEntry ==
    /\ entry.state = "none"
    /\ \E start \in Minute, end \in Minute \cup {NoTime} :
            entry' = [state |-> "live", startedAt |-> start, endedAt |-> end,
                      minutes |-> ComputeMinutes(start, end)]
    /\ UNCHANGED <<clock, entryRq, moved, undone>>

BeginEntry(r, q) == entryRq[r].stage = "idle" /\ entryRq' = [entryRq EXCEPT ![r] = q]
EndEntry(r) == entryRq' = [entryRq EXCEPT ![r] = EntryIdle]

\* An entry that has ended can be stopped again.
StopRead(r) ==
    /\ entry.state = "live"
    /\ BeginEntry(r, [stage |-> "stopping", startedAt |-> entry.startedAt, endedAt |-> clock,
                      readEnd |-> entry.endedAt, opens |-> FALSE])
    /\ UNCHANGED <<clock, entry, moved, undone>>

StopWrite(r) ==
    LET q == entryRq[r] IN
    /\ q.stage = "stopping"
    /\ entry' = [entry EXCEPT !.endedAt = q.endedAt,
                              !.minutes = ComputeMinutes(q.startedAt, q.endedAt)]
    /\ moved' = (moved \/ entry.startedAt # q.startedAt)
    /\ EndEntry(r)
    /\ UNCHANGED <<clock, undone>>

\* Mutant: an end that was not sent is taken for null.
UpdateRead_Reopens(r, start, end) ==
    /\ entry.state = "live"
    /\ BeginEntry(r, [stage |-> "updating",
                      startedAt |-> IF start = Unsent THEN entry.startedAt ELSE start,
                      endedAt |-> IF end = Unsent THEN NoTime ELSE end,
                      readEnd |-> entry.endedAt,
                      opens |-> end = NoTime])
    /\ UNCHANGED <<clock, entry, moved, undone>>

\* endedAt: null opens the entry again.
UpdateRead(r, start, end) ==
    /\ entry.state = "live"
    /\ BeginEntry(r, [stage |-> "updating",
                      startedAt |-> IF start = Unsent THEN entry.startedAt ELSE start,
                      endedAt |-> IF end = Unsent THEN entry.endedAt ELSE end,
                      readEnd |-> entry.endedAt,
                      opens |-> end = NoTime])
    /\ UNCHANGED <<clock, entry, moved, undone>>

UpdateWrite(r) ==
    LET q == entryRq[r] IN
    /\ q.stage = "updating"
    /\ entry' = [entry EXCEPT !.startedAt = q.startedAt, !.endedAt = q.endedAt,
                              !.minutes = ComputeMinutes(q.startedAt, q.endedAt)]
    /\ undone' = (undone \/ entry.endedAt # q.readEnd)
    /\ EndEntry(r)
    /\ UNCHANGED <<clock, moved>>

\* deleteTimeEntry; what it reads decides only whether there is an entry.
DeleteTimeEntry ==
    /\ entry.state = "live"
    /\ entry' = [entry EXCEPT !.state = "deleted"]
    /\ UNCHANGED <<clock, entryRq, moved, undone>>

EntryFail(r) ==
    /\ MayFail
    /\ entryRq[r].stage # "idle"
    /\ EndEntry(r)
    /\ UNCHANGED <<clock, entry, moved, undone>>

EntryTick ==
    /\ clock < MaxMinute
    /\ clock' = clock + 1
    /\ UNCHANGED <<entry, entryRq, moved, undone>>

EntryNext ==
    \/ CreateTimeEntry \/ DeleteTimeEntry \/ EntryTick
    \/ \E r \in Request :
        \/ StopRead(r) \/ StopWrite(r)
        \/ \E start \in Minute \cup {Unsent}, end \in Minute \cup {NoTime, Unsent} :
                UpdateRead(r, start, end)
        \/ UpdateWrite(r) \/ EntryFail(r)

EntrySpec == EntryInit /\ [][EntryNext]_entryVars
-----------------------------------------------------------------------------
(* Properties *)

\* The minutes of an entry are those between its dates, and none while it runs or
\* when it ends before it starts, whatever is stopped, corrected and stopped again
\* together, unless a stop had read a start that a correction has moved since.
MinutesFollowDates ==
    ~moved => IF entry.endedAt \in entry.startedAt..MaxMinute
              THEN entry.minutes = entry.endedAt - entry.startedAt
              ELSE entry.minutes = NoTime

\* An entry that was stopped runs again only when a client asked for it, or when
\* a correction had read it before the stop and wrote back what it read.
StopIsKept ==
    [][entry.endedAt # NoTime /\ entry'.endedAt = NoTime =>
            undone' \/ \E r \in Request : entryRq[r].opens]_entryVars
-----------------------------------------------------------------------------
(* The inductive invariant behind them.                                      *)

\* What a request is about to write, next to what it read.
WritesInv == \A r \in Request :
    LET q == entryRq[r] IN
    /\ q.stage # "idle" => entry.state # "none"
    /\ q.stage = "stopping" => q.endedAt # NoTime
    /\ q.stage = "updating" /\ ~q.opens /\ q.endedAt = NoTime => q.readEnd = NoTime

EntryIInv ==
    /\ EntryTypeOK
    /\ MinutesFollowDates
    /\ WritesInv
    /\ entry.state = "none" => entry.endedAt = NoTime
=============================================================================
