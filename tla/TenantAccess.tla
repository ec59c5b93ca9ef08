----------------------------- MODULE TenantAccess -----------------------------
(***************************************************************************)
(* How a request gets into a tenant: resolveTenant and the Redis copies it *)
(* trusts (src/modules/tenant/middleware, src/modules/tenant/redis).  One  *)
(* tenant and one user: the keys of different users do not interact.       *)
(*                                                                         *)
(* The copies are a cache-aside with a time to live.  A reader that finds  *)
(* no copy reads the row and stores what it read; a handler that wrote the *)
(* row deletes the copy.  Every statement may be overtaken by others, and  *)
(* a Redis command of this module that fails is ignored by its caller.     *)
(***************************************************************************)
EXTENDS Naturals

CONSTANTS
    Role,        \* roles of an active membership
    Reader,      \* requests passing through resolveTenant
    Writer,      \* handlers that change the membership or the tenant
    TenantTTL,   \* lifetime of the tenant's copy, in ticks
    MemberTTL    \* lifetime of the membership's copy, in ticks

ASSUME TTLAssumption == TenantTTL \in Nat \ {0} /\ MemberTTL \in Nat \ {0}

\* A membership is told apart by what it gives: its role when it is ACTIVE,
\* and otherwise the status resolveTenant refuses.
Refused == {"INVITED", "SUSPENDED", "REMOVED"}
Seat == Role \cup Refused
ASSUME SeatAssumption == "NONE" \notin Role /\ Role \cap Refused = {}

VARIABLES
    tenant,   \* the tenant's row: "up", "off" (isActive is false), "deleted"
    seat,     \* the user's membership row, "NONE" before it exists
    cached,   \* Redis: ticks left to the tenant's copy, and the membership's copy
    redis,    \* Redis answers
    rd,       \* readers
    wr,       \* writers: the Redis command they still owe
    raced,    \* history: a reader stored a copy that was stale already
    lost      \* history: a write had no invalidation, or Redis did not get it

vars == <<tenant, seat, cached, redis, rd, wr, raced, lost>>

ReaderStage == {"idle", "tenantRow", "tenantSet", "memberGet", "memberRow",
                "memberSet", "decide", "admitted"}
WriterStage == {"idle", "delTenant", "keys", "delMember"}

TypeOK ==
    /\ tenant \in {"up", "off", "deleted"}
    /\ seat \in Seat \cup {"NONE"}
    /\ cached \in [tenant : 0..TenantTTL, member : 0..MemberTTL, copy : Seat \cup {"NONE"}]
    /\ redis \in BOOLEAN
    /\ rd \in [Reader -> [stage : ReaderStage, copy : Seat \cup {"NONE"}, owed : BOOLEAN]]
    /\ wr \in [Writer -> [stage : WriterStage, all : BOOLEAN]]
    /\ raced \in BOOLEAN
    /\ lost \in BOOLEAN

IdleReader == [stage |-> "idle", copy |-> "NONE", owed |-> FALSE]
IdleWriter == [stage |-> "idle", all |-> FALSE]

Init ==
    /\ tenant = "up"
    /\ seat \in Seat \cup {"NONE"}
    /\ cached = [tenant |-> 0, member |-> 0, copy |-> "NONE"]
    /\ redis = TRUE
    /\ rd = [r \in Reader |-> IdleReader]
    /\ wr = [w \in Writer |-> IdleWriter]
    /\ raced = FALSE
    /\ lost = FALSE

-----------------------------------------------------------------------------
(* What a stale copy is *)

\* A copy misleads when it admits with a role the row does not give, or
\* refuses an active member; the reason of a refusal does not matter.
Misleads(copy) == copy # seat /\ (copy \in Role \/ seat \in Role)

StaleTenant == cached.tenant > 0 /\ tenant # "up"
StaleMember == cached.member > 0 /\ Misleads(cached.copy)

Pending(w) == wr[w].stage # "idle"

\* Everything a reader may rely on agrees with the rows, and nobody holds an
\* answer that could make it disagree.
Quiet ==
    /\ ~raced /\ ~lost
    /\ \A w \in Writer : ~Pending(w)
    /\ \A r \in Reader :
        /\ rd[r].stage \in {"memberSet", "decide"} => ~Misleads(rd[r].copy)
        /\ rd[r].stage = "tenantSet" => tenant = "up"

-----------------------------------------------------------------------------
(* resolveTenant *)

Advance(r, stage, copy) ==
    rd' = [rd EXCEPT ![r] = [@ EXCEPT !.stage = stage, !.copy = copy]]
Leave(r) == rd' = [rd EXCEPT ![r] = IdleReader]

\* The request arrives; owed: it arrived when nothing was in flight.
GetCachedTenant(r) ==
    /\ rd[r].stage = "idle"
    /\ rd' = [rd EXCEPT ![r] = [stage |-> IF redis /\ cached.tenant > 0 THEN "memberGet"
                                                                        ELSE "tenantRow",
                                copy |-> "NONE", owed |-> Quiet]]
    /\ UNCHANGED <<tenant, seat, cached, redis, wr, raced, lost>>

FindActiveTenant(r) ==
    /\ rd[r].stage = "tenantRow"
    /\ IF tenant = "up" THEN Advance(r, "tenantSet", "NONE") ELSE Leave(r)
    /\ UNCHANGED <<tenant, seat, cached, redis, wr, raced, lost>>

SetCachedTenant(r) ==
    /\ rd[r].stage = "tenantSet"
    /\ cached' = IF redis THEN [cached EXCEPT !.tenant = TenantTTL] ELSE cached
    /\ raced' = (raced \/ (redis /\ tenant # "up"))
    /\ Advance(r, "memberGet", "NONE")
    /\ UNCHANGED <<tenant, seat, redis, wr, lost>>

GetCachedMembership(r) ==
    /\ rd[r].stage = "memberGet"
    /\ IF redis /\ cached.member > 0 THEN Advance(r, "decide", cached.copy)
                                     ELSE Advance(r, "memberRow", "NONE")
    /\ UNCHANGED <<tenant, seat, cached, redis, wr, raced, lost>>

FindMembership(r) ==
    /\ rd[r].stage = "memberRow"
    /\ IF seat = "NONE" THEN Leave(r) ELSE Advance(r, "memberSet", seat)
    /\ UNCHANGED <<tenant, seat, cached, redis, wr, raced, lost>>

\* Mutant: the membership's copy is given the lifetime of the tenant's.
SetCachedMembership_TenantTTL(r) ==
    /\ rd[r].stage = "memberSet"
    /\ cached' = IF redis THEN [cached EXCEPT !.member = TenantTTL, !.copy = rd[r].copy]
                          ELSE cached
    /\ raced' = (raced \/ (redis /\ Misleads(rd[r].copy)))
    /\ Advance(r, "decide", rd[r].copy)
    /\ UNCHANGED <<tenant, seat, redis, wr, lost>>

SetCachedMembership(r) ==
    /\ rd[r].stage = "memberSet"
    /\ cached' = IF redis THEN [cached EXCEPT !.member = MemberTTL, !.copy = rd[r].copy]
                          ELSE cached
    /\ raced' = (raced \/ (redis /\ Misleads(rd[r].copy)))
    /\ Advance(r, "decide", rd[r].copy)
    /\ UNCHANGED <<tenant, seat, redis, wr, lost>>

\* Mutant: an invitation that was not accepted yet lets its user in.
Decide_Invited(r) ==
    /\ rd[r].stage = "decide"
    /\ IF rd[r].copy \in Refused \ {"INVITED"} THEN Leave(r)
                                               ELSE Advance(r, "admitted", rd[r].copy)
    /\ UNCHANGED <<tenant, seat, cached, redis, wr, raced, lost>>

Decide(r) ==
    /\ rd[r].stage = "decide"
    /\ IF rd[r].copy \in Refused THEN Leave(r) ELSE Advance(r, "admitted", rd[r].copy)
    /\ UNCHANGED <<tenant, seat, cached, redis, wr, raced, lost>>

\* The handler behind the middleware answers.
Answer(r) ==
    /\ rd[r].stage = "admitted"
    /\ Leave(r)
    /\ UNCHANGED <<tenant, seat, cached, redis, wr, raced, lost>>

-----------------------------------------------------------------------------
(* Handlers that write *)

Owe(w, stage, all) == wr' = [wr EXCEPT ![w] = [stage |-> stage, all |-> all]]

\* A write of a row ends what was owed to the requests under way.
Forgive == rd' = [r \in Reader |-> [rd[r] EXCEPT !.owed = FALSE]]

\* Mutant: the handlers that change a role forget the copy.
WriteSeat_RoleForgets(w, new) ==
    /\ ~Pending(w)
    /\ new # seat
    /\ seat' = new
    /\ IF new \in {"INVITED"} \cup Role THEN UNCHANGED wr ELSE Owe(w, "delMember", FALSE)
    /\ lost' = (lost \/ (new = "INVITED" /\ seat \in Role))
    /\ Forgive
    /\ UNCHANGED <<tenant, cached, redis, raced>>

\* The handlers of TenantMembership write the row and then owe a DEL, but for
\* createInvite and for the creation of a row by addMember.
WriteSeat(w, new) ==
    /\ ~Pending(w)
    /\ new # seat
    /\ seat' = new
    /\ IF new = "INVITED" \/ seat = "NONE" THEN UNCHANGED wr ELSE Owe(w, "delMember", FALSE)
    /\ lost' = (lost \/ (new = "INVITED" /\ seat \in Role))
    /\ Forgive
    /\ UNCHANGED <<tenant, cached, redis, raced>>

\* findTenantById finds deleted rows, and its callers refuse them.
FindTenantById == tenant # "deleted"

\* The statements of updateTenant, softDeleteTenant and restoreTenant.
WriteTenant(states) == tenant' \in states

\* updateTenant refuses a deleted tenant and writes whatever columns the body
\* names, isActive and deletedAt among them; deleteTenant deletes all copies of
\* the tenant, updateTenant its own.
UpdateTenant(w) ==
    /\ ~Pending(w)
    /\ FindTenantById
    /\ WriteTenant({"up", "off", "deleted"})
    /\ Owe(w, "delTenant", FALSE)
    /\ Forgive
    /\ UNCHANGED <<seat, cached, redis, raced, lost>>

DeleteTenant(w) ==
    /\ ~Pending(w)
    /\ FindTenantById
    /\ WriteTenant({"deleted"})
    /\ Owe(w, "delTenant", TRUE)
    /\ Forgive
    /\ UNCHANGED <<seat, cached, redis, raced, lost>>

\* restoreTenant deletes no copy.
RestoreTenant(w) ==
    /\ ~Pending(w)
    /\ tenant = "deleted"
    /\ WriteTenant({"up"})
    /\ Forgive
    /\ UNCHANGED <<seat, cached, redis, wr, raced, lost>>

\* switchTenant deletes the membership's copy and writes nothing.
SwitchTenant(w) ==
    /\ ~Pending(w)
    /\ tenant = "up" /\ seat \in Role
    /\ Owe(w, "delMember", FALSE)
    /\ UNCHANGED <<tenant, seat, cached, redis, rd, raced, lost>>

InvalidateTenantCache(w) ==
    /\ wr[w].stage = "delTenant"
    /\ cached' = IF redis THEN [cached EXCEPT !.tenant = 0] ELSE cached
    /\ lost' = (lost \/ ~redis)
    /\ IF wr[w].all THEN Owe(w, "keys", TRUE) ELSE Owe(w, "idle", FALSE)
    /\ UNCHANGED <<tenant, seat, redis, rd, raced>>

\* invalidateAllTenantMemberships asks for the keys and deletes those it got.
ReadKeys(w) ==
    /\ wr[w].stage = "keys"
    /\ IF redis /\ cached.member > 0 THEN Owe(w, "delMember", FALSE) ELSE Owe(w, "idle", FALSE)
    /\ UNCHANGED <<tenant, seat, cached, redis, rd, raced, lost>>

InvalidateMembershipCache(w) ==
    /\ wr[w].stage = "delMember"
    /\ cached' = IF redis THEN [cached EXCEPT !.member = 0, !.copy = "NONE"] ELSE cached
    /\ lost' = (lost \/ ~redis)
    /\ Owe(w, "idle", FALSE)
    /\ UNCHANGED <<tenant, seat, redis, rd, raced>>

\* The process stops between the write and the invalidation.
Crash(w) ==
    /\ Pending(w)
    /\ lost' = TRUE
    /\ Owe(w, "idle", FALSE)
    /\ UNCHANGED <<tenant, seat, cached, redis, rd, raced>>

-----------------------------------------------------------------------------
(* Redis *)

Connection ==
    /\ redis' = ~redis
    /\ UNCHANGED <<tenant, seat, cached, rd, wr, raced, lost>>

Age(ttl) == IF ttl = 0 THEN 0 ELSE ttl - 1

\* Mutant: the membership's copy is stored without EX.
Tick_MemberForever ==
    /\ cached.tenant > 0 \/ cached.member > 0
    /\ cached' = [cached EXCEPT !.tenant = Age(@)]
    /\ UNCHANGED <<tenant, seat, redis, rd, wr, raced, lost>>

\* Time passes, and copies come to the end of their EX.
Tick ==
    /\ cached.tenant > 0 \/ cached.member > 0
    /\ cached' = [tenant |-> Age(cached.tenant), member |-> Age(cached.member),
                  copy |-> IF cached.member > 1 THEN cached.copy ELSE "NONE"]
    /\ UNCHANGED <<tenant, seat, redis, rd, wr, raced, lost>>

-----------------------------------------------------------------------------
ReaderStep(r) ==
    \/ FindActiveTenant(r) \/ SetCachedTenant(r) \/ GetCachedMembership(r)
    \/ FindMembership(r) \/ SetCachedMembership(r) \/ Decide(r) \/ Answer(r)

WriterStep(w) ==
    InvalidateTenantCache(w) \/ ReadKeys(w) \/ InvalidateMembershipCache(w)

Next ==
    \/ \E r \in Reader : GetCachedTenant(r) \/ ReaderStep(r)
    \/ \E w \in Writer :
        \/ \E new \in Seat : WriteSeat(w, new)
        \/ UpdateTenant(w) \/ DeleteTenant(w) \/ RestoreTenant(w) \/ SwitchTenant(w)
        \/ WriterStep(w) \/ Crash(w)
    \/ Connection \/ Tick

\* The event loop resumes a handler whose awaited command has settled, and
\* Redis keeps its clock.  Nothing says that a request ever arrives.
Fairness ==
    /\ \A r \in Reader : WF_vars(ReaderStep(r))
    /\ \A w \in Writer : WF_vars(WriterStep(w))
    /\ WF_vars(Tick)

Spec == Init /\ [][Next]_vars
FairSpec == Spec /\ Fairness
-----------------------------------------------------------------------------
(* Properties *)

\* A copy in Redis disagrees with its row only while a writer has yet to
\* delete it, or after one of two accidents: a reader stored what it had read
\* before the write, or an invalidation was lost.
StaleHasCause ==
    StaleTenant \/ StaleMember => raced \/ lost \/ \E w \in Writer : Pending(w)

\* A request that arrives when nothing is in flight is admitted only to an
\* active tenant, with the role its membership has at that moment, as long as
\* no row is written while it is under way: a suspension, a removal or a role
\* change whose handler has answered is in force at once.
AdmissionIsCurrent ==
    \A r \in Reader :
        rd[r].stage = "admitted" /\ rd[r].owed => tenant = "up" /\ rd[r].copy = seat

\* Whatever raced or was lost, once the rows stop changing the copies agree
\* with them for good: the lifetimes of the copies bound every staleness.
EventuallyCoherent ==
    <>[][UNCHANGED <<tenant, seat>>]_vars => <>[](~StaleTenant /\ ~StaleMember)
-----------------------------------------------------------------------------
(* The inductive invariant behind StaleHasCause and AdmissionIsCurrent.      *)

\* Each kind of staleness is owed by a writer of its own kind, and no copy
\* exists of a row that does not.
CauseInv ==
    /\ StaleTenant => raced \/ lost \/ \E w \in Writer : wr[w].stage = "delTenant"
    /\ StaleMember => raced \/ lost \/ \E w \in Writer : wr[w].stage = "delMember"
    /\ cached.member > 0 => cached.copy # "NONE" /\ seat # "NONE"
    /\ \A r \in Reader : rd[r].stage \in {"memberSet", "decide"} =>
            rd[r].copy # "NONE" /\ seat # "NONE"

\* While a request is owed, nothing in Redis and nobody under way misleads.
OwedInv ==
    (\E r \in Reader : rd[r].owed) =>
        /\ ~StaleTenant /\ ~StaleMember
        /\ \A q \in Reader :
            /\ rd[q].stage \in {"memberSet", "decide"} => ~Misleads(rd[q].copy)
            /\ rd[q].stage = "tenantSet" => tenant = "up"

\* An owed request has passed the tenant, and holds the seat if it got one.
ProgressInv ==
    \A r \in Reader : rd[r].owed =>
        /\ rd[r].stage \notin {"idle", "tenantRow"} => tenant = "up"
        /\ rd[r].stage = "admitted" => rd[r].copy = seat

IInv == TypeOK /\ CauseInv /\ OwedInv /\ ProgressInv
=============================================================================
