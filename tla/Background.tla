----------------------------- MODULE Background -----------------------------
(***************************************************************************)
(* Audit entries, mails and notifications through the job queues, and the  *)
(* process that serves requests and works on the queues                    *)
(* (src/lib/audit.logger.js, src/lib/shutdown.js, src/modules/queue,       *)
(* src/modules/notifications, src/index.js).                               *)
(*                                                                         *)
(* A request adds a job; when that fails an audit entry is written         *)
(* directly.  A worker of the same process runs the job, and again after   *)
(* an error; a job whose process died is stalled and runs again, once.     *)
(* The queue itself is BullMQ, seen through what it promises.              *)
(***************************************************************************)
EXTENDS Handlers, Naturals, Sequences

CONSTANTS
    Event,            \* "audit", "email" and "notification": one event of each kind
    MaxDisturbances   \* bound on signals and crashes, of all the processes together

ASSUME EventAssumption == Event \subseteq {"audit", "email", "notification"}
ASSUME DisturbanceAssumption == MaxDisturbances \in Nat

\* defaultJobOptions, and what the queues change of it.
Attempts == [audit |-> 2, email |-> 3, notification |-> 3]
MaxStalls == 1

VARIABLES
    process,    \* starting, serving, closing its server, draining, or ended
    told,       \* the signals it had
    handlers,   \* the shutdown handlers not yet taken
    event,      \* where the request is that the event comes from
    job,        \* its job: stage, failed attempts, stalls
    entries,    \* the rows written, or the mails sent, for it
    doubtful,   \* history: events whose entry was written by a step that did not live to say so
    disturbances

bgVars == <<process, told, handlers, event, job, entries, doubtful, disturbances>>

Handler == <<"prisma", "redis", "workers">>
InFlight == {"creating", "adding", "direct"}
Over == {"ended", "refused", "givenUp", "cut"}
Running == {"active", "wrote"}

BgTypeOK ==
    /\ process \in {"starting", "serving", "closing", "draining", "exited", "dead"}
    /\ told \in 0 .. 2
    /\ handlers \in {Handler, Tail(Handler), <<"workers">>, <<>>}
    /\ event \in [Event -> {"new"} \cup InFlight \cup Over]
    /\ job \in [Event -> [stage : {"none", "waiting", "stalled", "done", "failed"} \cup Running,
                          made : 0 .. 3, stalls : 0 .. MaxStalls]]
    /\ \A e \in Event : job[e].made <= Attempts[e]
    /\ entries \in [Event -> 0 .. 6]
    /\ doubtful \subseteq Event
    /\ disturbances \in 0 .. MaxDisturbances

BgInit ==
    /\ process = "starting"
    /\ told = 0
    /\ handlers = Handler
    /\ event = [e \in Event |-> "new"]
    /\ job = [e \in Event |-> [stage |-> "none", made |-> 0, stalls |-> 0]]
    /\ entries = [e \in Event |-> 0]
    /\ doubtful = {}
    /\ disturbances = 0

-----------------------------------------------------------------------------
Alive == process \notin {"exited", "dead"}

Goes(e, stage) == event' = [event EXCEPT ![e] = stage]
JobGoes(e, stage) == job' = [job EXCEPT ![e].stage = stage]
Enter(e) == entries' = [entries EXCEPT ![e] = @ + 1]
Doubt(e) == doubtful' = doubtful \cup {e}

(* The request: notify, sendEmail, logAudit *)

Emit(e) ==
    /\ process = "serving" /\ event[e] = "new"
    /\ Goes(e, IF e = "notification" THEN "creating" ELSE "adding")
    /\ UNCHANGED <<process, told, handlers, job, entries, doubtful, disturbances>>

\* The row comes before the job; without the row there is no job.
CreateNotification(e) ==
    /\ event[e] = "creating"
    /\ \/ Goes(e, "adding") /\ Enter(e)
       \/ MayFail /\ Goes(e, "givenUp") /\ UNCHANGED entries
    /\ UNCHANGED <<process, told, handlers, job, doubtful, disturbances>>

Enqueue(e) ==
    /\ event[e] = "adding"
    /\ Goes(e, "ended")
    /\ JobGoes(e, "waiting")
    /\ UNCHANGED <<process, told, handlers, entries, doubtful, disturbances>>

\* Mutant: the error of the queue is swallowed for audit entries too.
AfterError_Swallowed(e) == IF e = "email" THEN "refused" ELSE "ended"

\* An audit entry is written directly, a mail refused, a notification has its row.
AfterError(e) ==
    CASE e = "audit" -> "direct" [] e = "email" -> "refused" [] e = "notification" -> "ended"

\* The queue answers with an error, and may have the job nevertheless.
EnqueueFails(e) ==
    /\ MayFail /\ event[e] = "adding"
    /\ Goes(e, AfterError(e))
    /\ \/ UNCHANGED <<job, doubtful>>
       \/ JobGoes(e, "waiting") /\ Doubt(e)
    /\ UNCHANGED <<process, told, handlers, entries, disturbances>>

WriteDirect(e) ==
    /\ event[e] = "direct"
    /\ \/ Goes(e, "ended") /\ Enter(e)
       \/ MayFail /\ Goes(e, "givenUp") /\ UNCHANGED entries
    /\ UNCHANGED <<process, told, handlers, job, doubtful, disturbances>>

-----------------------------------------------------------------------------
(* The workers, which start with the process and stop in a handler *)

TakeJob(e) ==
    /\ Alive /\ handlers # <<>>
    /\ job[e].stage = "waiting"
    /\ JobGoes(e, "active")
    /\ UNCHANGED <<process, told, handlers, event, entries, doubtful, disturbances>>

Process(e) ==
    /\ job[e].stage = "active"
    /\ JobGoes(e, "wrote")
    /\ UNCHANGED <<process, told, handlers, event, doubtful, disturbances>>

ProcessAudit(e) == e = "audit" /\ Process(e) /\ Enter(e)
ProcessEmail(e) == e = "email" /\ Process(e) /\ Enter(e)
\* A notification has its row already.
ProcessNotification(e) == e = "notification" /\ Process(e) /\ UNCHANGED entries

\* Mutant: a job that is done is put back.
Complete_Again(e) ==
    /\ job[e].stage = "wrote"
    /\ job' = [job EXCEPT ![e].stage = IF job[e].made = 0 THEN "waiting" ELSE "done",
                          ![e].made = 1]
    /\ UNCHANGED <<process, told, handlers, event, entries, doubtful, disturbances>>

Complete(e) ==
    /\ job[e].stage = "wrote"
    /\ JobGoes(e, "done")
    /\ UNCHANGED <<process, told, handlers, event, entries, doubtful, disturbances>>

\* Mutant: one attempt too many.
Again_OneMore(e, made) == made <= Attempts[e]

\* Whether a job that failed so often is tried again.
Again(e, made) == made < Attempts[e]

\* The write or the mail server answers with an error, which does not say that
\* nothing was written: it is tried again, up to the attempts of the queue.
ProcessFails(e) ==
    LET j == job[e] IN
    /\ MayFail /\ e # "notification" /\ j.stage = "active"
    /\ job' = [job EXCEPT ![e].made = j.made + 1,
                          ![e].stage = IF Again(e, j.made + 1) THEN "waiting" ELSE "failed"]
    /\ \/ UNCHANGED <<entries, doubtful>>
       \/ Enter(e) /\ Doubt(e)
    /\ UNCHANGED <<process, told, handlers, event, disturbances>>

\* The check for stalled jobs: one stall is forgiven.
RecoverStalled(e) ==
    LET j == job[e] IN
    /\ Alive /\ handlers # <<>>
    /\ j.stage = "stalled"
    /\ job' = [job EXCEPT ![e] = IF j.stalls < MaxStalls
                    THEN [j EXCEPT !.stage = "waiting", !.stalls = @ + 1]
                    ELSE [j EXCEPT !.stage = "failed"]]
    /\ UNCHANGED <<process, told, handlers, event, entries, doubtful, disturbances>>

-----------------------------------------------------------------------------
(* The process *)

\* What the end of the process does to requests and jobs.
Cut ==
    /\ event' = [e \in Event |-> IF event[e] \in InFlight THEN "cut" ELSE event[e]]
    /\ job' = [e \in Event |-> IF job[e].stage \in Running THEN [job[e] EXCEPT !.stage = "stalled"]
                               ELSE job[e]]
    /\ doubtful' = doubtful \cup {e \in Event : job[e].stage = "wrote"}

\* startServer: the handlers of the signals come last.
Serve ==
    /\ process = "starting"
    /\ process' = "serving"
    /\ UNCHANGED <<told, handlers, event, job, entries, doubtful, disturbances>>

Die ==
    /\ Alive
    /\ disturbances < MaxDisturbances
    /\ process' = "dead"
    /\ disturbances' = disturbances + 1
    /\ Cut
    /\ UNCHANGED <<told, handlers, entries>>

\* shutdown.  (A signal that comes while the process is starting is a Die.)
Signal ==
    /\ process \in {"serving", "closing", "draining"} /\ told < 2
    /\ disturbances < MaxDisturbances
    /\ told' = told + 1
    /\ process' = IF process = "serving" THEN "closing" ELSE process
    /\ disturbances' = disturbances + 1
    /\ UNCHANGED <<handlers, event, job, entries, doubtful>>

\* Mutant: the requests under way are not waited for.
ServerCloses_AtOnce ==
    /\ process = "closing"
    /\ process' = "draining"
    /\ UNCHANGED <<told, handlers, event, job, entries, doubtful, disturbances>>

\* server.close calls back when the requests under way have ended.
ServerCloses ==
    /\ process = "closing"
    /\ \A e \in Event : event[e] \notin InFlight
    /\ process' = "draining"
    /\ UNCHANGED <<told, handlers, event, job, entries, doubtful, disturbances>>

\* The handlers one after the other, whether or not they fail; the last one stops
\* the workers from taking jobs.
RunHandler ==
    /\ process = "draining" /\ handlers # <<>>
    /\ handlers' = Tail(handlers)
    /\ UNCHANGED <<process, told, event, job, entries, doubtful, disturbances>>

\* process.exit: when the handlers have ended, the workers with the last of their
\* jobs.  A second signal finds the server closed and no handler to run.
Exit ==
    /\ process = "draining"
    /\ \/ told = 2
       \/ handlers = <<>> /\ \A e \in Event : job[e].stage \notin Running
    /\ process' = "exited"
    /\ Cut
    /\ UNCHANGED <<told, handlers, entries, disturbances>>

Restart ==
    /\ ~Alive
    /\ process' = "starting"
    /\ told' = 0
    /\ handlers' = Handler
    /\ UNCHANGED <<event, job, entries, doubtful, disturbances>>

Work(e) ==
    \/ CreateNotification(e) \/ Enqueue(e) \/ EnqueueFails(e) \/ WriteDirect(e)
    \/ TakeJob(e) \/ ProcessAudit(e) \/ ProcessEmail(e) \/ ProcessNotification(e) \/ ProcessFails(e) \/ Complete(e) \/ RecoverStalled(e)
Advance == Serve \/ ServerCloses \/ RunHandler \/ Exit \/ Restart

BgNext == Advance \/ Die \/ Signal \/ \E e \in Event : Emit(e) \/ Work(e)

\* Requests and jobs that can go on do, a shutdown too, and a process that ended is
\* started again.
BgFairness ==
    /\ WF_bgVars(Advance)
    /\ \A e \in Event : WF_bgVars(Work(e))

BgSpec == BgInit /\ [][BgNext]_bgVars /\ BgFairness
-----------------------------------------------------------------------------
(* Properties *)

\* Retries, restarts and the direct write leave an event with one entry, unless a
\* step that wrote it, or added its job, did not live to say so.
AtMostOneEntry == \A e \in Event : entries[e] <= 1 \/ e \in doubtful

\* A shutdown leaves no request half served, the Redis client is closed after the
\* last of them, and the jobs under way are finished, unless it is told twice.
DrainedExit ==
    [][ /\ process' = "exited" /\ process # "exited" =>
                /\ \A e \in Event : event[e] \notin InFlight
                /\ told < 2 => \A e \in Event : job[e].stage \notin Running
        /\ process' = process /\ handlers' # handlers =>
                \A e \in Event : event[e] \notin InFlight ]_bgVars

\* An event is accounted for: it has its entry, or its request or its job ended
\* with an error or with the process.
Settled(e) ==
    /\ event[e] \in Over
    /\ job[e].stage \in {"none", "done", "failed"}
    /\ entries[e] > 0 \/ event[e] # "ended" \/ job[e].stage = "failed"
EventuallySettled == \A e \in Event : event[e] # "new" ~> Settled(e)
-----------------------------------------------------------------------------
(* The inductive invariant behind AtMostOneEntry and DrainedExit.            *)

\* Requests are under way while the process serves them or closes its server.
ServedInv ==
    process \notin {"serving", "closing"} => \A e \in Event : event[e] \notin InFlight

\* A job comes after its request, and is not tried once its attempts are used up.
JobInv ==
    \A e \in Event :
        /\ event[e] \in {"new", "creating", "adding"} => job[e].stage = "none"
        /\ job[e].stage = "none" => job[e].made = 0
        /\ job[e].stage \in {"waiting", "stalled"} \cup Running => job[e].made < Attempts[e]

\* What has yet to write the entry has not written it.
UnwrittenInv ==
    \A e \in Event :
        /\ event[e] = "creating" => e = "notification"
        /\ event[e] = "direct" => e = "audit"
        /\ event[e] \in {"new", "creating"} => entries[e] = 0
        /\ e \notin doubtful =>
            /\ entries[e] <= 1
            /\ event[e] = "direct" => job[e].stage = "none"
            /\ e # "notification" /\ (\/ event[e] \in {"adding", "direct"}
                                     \/ job[e].stage \in {"waiting", "active", "stalled"})
                    => entries[e] = 0

\* What may have been written: once by each attempt that failed, by each that stalled,
\* by the last one, and directly.  A notification has its row from the request.
AtMost(e) ==
    job[e].made + job[e].stalls
        + (IF job[e].stage \in {"wrote", "stalled", "done", "failed"} THEN 1 ELSE 0)
        + (IF event[e] = "ended" THEN 1 ELSE 0)

WrittenInv ==
    \A e \in Event : entries[e] <= IF e = "notification" THEN 1 ELSE AtMost(e)

BgIInv == BgTypeOK /\ ServedInv /\ JobInv /\ UnwrittenInv /\ WrittenInv
=============================================================================
