-------------------------- MODULE TenantAccessProofs --------------------------
(***************************************************************************)
(* Proofs about TenantAccess, for any number of requests and of handlers   *)
(* that write, any roles and any lifetimes of the copies.                  *)
(***************************************************************************)
EXTENDS TenantAccess, TLAPS

USE TTLAssumption, SeatAssumption
USE DEF Seat, Refused

-----------------------------------------------------------------------------
(* Requests in resolveTenant *)

\* A request that takes a step leaves the others where they are, and is owed
\* what it was owed.
LEMMA AdvanceShape ==
  ASSUME TypeOK, NEW r \in Reader, NEW stage \in ReaderStage, NEW copy \in Seat \cup {"NONE"},
         Advance(r, stage, copy)
  PROVE  /\ rd' \in [Reader -> [stage : ReaderStage, copy : Seat \cup {"NONE"}, owed : BOOLEAN]]
         /\ rd'[r].stage = stage /\ rd'[r].copy = copy /\ rd'[r].owed = rd[r].owed
         /\ \A q \in Reader : q # r => rd'[q] = rd[q]
  <1> DEFINE new == [rd[r] EXCEPT !.stage = stage, !.copy = copy]
  <1>1. /\ new \in [stage : ReaderStage, copy : Seat \cup {"NONE"}, owed : BOOLEAN]
        /\ new.stage = stage /\ new.copy = copy /\ new.owed = rd[r].owed
    <2>1. rd[r] \in [stage : ReaderStage, copy : Seat \cup {"NONE"}, owed : BOOLEAN]
      BY DEF TypeOK
    <2> QED
      BY ONLY <2>1, stage \in ReaderStage, copy \in Seat \cup {"NONE"}
  <1>2. rd' = [rd EXCEPT ![r] = new]
    BY DEF Advance
  <1> HIDE DEF new
  <1> QED
    BY <1>1, <1>2 DEF TypeOK

\* A reader that leaves frees its slot and no other.
LEMMA LeaveShape ==
  ASSUME TypeOK, NEW r \in Reader, Leave(r)
  PROVE  /\ rd' \in [Reader -> [stage : ReaderStage, copy : Seat \cup {"NONE"}, owed : BOOLEAN]]
         /\ rd'[r] = IdleReader
         /\ \A q \in Reader : q # r => rd'[q] = rd[q]
  <1>1. IdleReader \in [stage : ReaderStage, copy : Seat \cup {"NONE"}, owed : BOOLEAN]
    BY DEF IdleReader, ReaderStage
  <1> QED
    BY <1>1 DEF TypeOK, Leave

\* A request that leaves the middleware changes nothing for the others.
LEMMA LeaveKeeps ==
  ASSUME IInv, NEW r \in Reader, Leave(r),
         UNCHANGED <<tenant, seat, cached, redis, wr, raced, lost>>
  PROVE  IInv'
  <1> USE DEF IInv
  <1>1. TypeOK'
    BY LeaveShape DEF TypeOK
  <1>2. CauseInv'
    BY LeaveShape DEF CauseInv, StaleTenant, StaleMember, Misleads, IdleReader
  <1>3. OwedInv'
    BY LeaveShape DEF OwedInv, StaleTenant, StaleMember, Misleads, IdleReader
  <1>4. ProgressInv'
    BY LeaveShape DEF ProgressInv, IdleReader
  <1> QED
    BY <1>1, <1>2, <1>3, <1>4

\* A request that goes on without touching Redis keeps the invariant when what
\* it now holds agrees with the rows, or was in Redis already.
LEMMA ReadKeeps ==
  ASSUME IInv, NEW r \in Reader, NEW stage \in ReaderStage, NEW copy \in Seat \cup {"NONE"},
         Advance(r, stage, copy),
         UNCHANGED <<tenant, seat, cached, redis, wr, raced, lost>>,
         stage \in {"memberSet", "decide"} =>
             /\ copy # "NONE" /\ seat # "NONE"
             /\ copy = seat \/ (cached.member > 0 /\ copy = cached.copy)
                            \/ (rd[r].stage \in {"memberSet", "decide"} /\ copy = rd[r].copy),
         stage = "tenantSet" => tenant = "up",
         rd[r].owed => /\ stage \notin {"idle", "tenantRow"} => tenant = "up"
                       /\ stage = "admitted" => copy = seat
  PROVE  IInv'
  <1> USE DEF IInv
  <1>1. TypeOK'
    BY AdvanceShape DEF TypeOK
  <1>2. CauseInv'
    BY AdvanceShape DEF CauseInv, StaleTenant, StaleMember, Misleads
  <1>3. OwedInv'
    <2> SUFFICES ASSUME NEW p \in Reader, rd'[p].owed
                 PROVE  /\ (~StaleTenant /\ ~StaleMember)'
                        /\ \A q \in Reader :
                            /\ rd'[q].stage \in {"memberSet", "decide"} => ~Misleads(rd[q].copy)'
                            /\ rd'[q].stage = "tenantSet" => tenant' = "up"
      BY DEF OwedInv
    <2>1. rd[p].owed
      BY AdvanceShape
    <2>2. /\ ~StaleTenant /\ ~StaleMember
          /\ \A q \in Reader :
                /\ rd[q].stage \in {"memberSet", "decide"} => ~Misleads(rd[q].copy)
                /\ rd[q].stage = "tenantSet" => tenant = "up"
      BY <2>1 DEF OwedInv
    <2> QED
      BY <2>2, AdvanceShape DEF StaleTenant, StaleMember, Misleads
  <1>4. ProgressInv'
    BY AdvanceShape DEF ProgressInv
  <1> QED
    BY <1>1, <1>2, <1>3, <1>4

\* What an arriving request is owed: when nothing is in flight, Redis agrees
\* with the rows.
LEMMA QuietIsFresh ==
  ASSUME IInv, Quiet
  PROVE  ~StaleTenant /\ ~StaleMember
  BY DEF IInv, CauseInv, Quiet, Pending

\* A request arrives with no answer in hand, and is owed a current one if
\* nothing is under way.
LEMMA ArrivalKeeps ==
  ASSUME IInv, NEW r \in Reader, GetCachedTenant(r)
  PROVE  IInv'
  <1> USE DEF IInv
  <1> DEFINE stage == IF redis /\ cached.tenant > 0 THEN "memberGet" ELSE "tenantRow"
  <1>1. /\ UNCHANGED <<tenant, seat, cached, redis, wr, raced, lost>>
        /\ rd'[r] = [stage |-> stage, copy |-> "NONE", owed |-> Quiet]
        /\ \A q \in Reader : q # r => rd'[q] = rd[q]
    BY DEF GetCachedTenant, TypeOK
  <1>2. Quiet \in BOOLEAN /\ stage \in {"memberGet", "tenantRow"}
    BY DEF Quiet, TypeOK
  <1>3. TypeOK'
    BY <1>2 DEF GetCachedTenant, TypeOK, ReaderStage
  <1>4. CauseInv'
    BY <1>1, <1>2 DEF CauseInv, StaleTenant, StaleMember, Misleads
  <1>5. OwedInv'
    <2>1. CASE \E p \in Reader : rd[p].owed
      BY <1>1, <1>2, <2>1 DEF OwedInv, StaleTenant, StaleMember, Misleads
    <2>2. CASE Quiet
      <3>1. ~StaleTenant /\ ~StaleMember
        BY <2>2, QuietIsFresh
      <3> QED
        BY <1>1, <1>2, <2>2, <3>1 DEF Quiet, OwedInv, StaleTenant, StaleMember, Misleads
    <2>3. CASE ~Quiet /\ ~\E p \in Reader : rd[p].owed
      BY <1>1, <2>3 DEF OwedInv
    <2> QED
      BY <2>1, <2>2, <2>3
  <1>6. ProgressInv'
    <2>1. Quiet /\ stage = "memberGet" => tenant = "up"
      BY QuietIsFresh DEF StaleTenant
    <2> QED
      BY <1>1, <1>2, <2>1 DEF ProgressInv
  <1> QED
    BY <1>3, <1>4, <1>5, <1>6

\* A copy that is stored is one its reader holds already.
LEMMA StoreKeeps ==
  ASSUME IInv, NEW r \in Reader, SetCachedTenant(r) \/ SetCachedMembership(r)
  PROVE  IInv'
  <1> USE DEF IInv
  <1>1. CASE SetCachedTenant(r)
    <2> USE <1>1 DEF SetCachedTenant
    <2>0. rd[r].stage = "tenantSet" /\ "memberGet" \in ReaderStage
      BY DEF ReaderStage
    <2>1. TypeOK'
      <3>1. raced' \in BOOLEAN
        BY DEF TypeOK
      <3>2. cached' \in [tenant : 0..TenantTTL, member : 0..MemberTTL,
                         copy : Seat \cup {"NONE"}]
        BY DEF TypeOK
      <3> QED
        BY <2>0, <3>1, <3>2, AdvanceShape DEF TypeOK
    <2>2. /\ cached'.member = cached.member /\ cached'.copy = cached.copy
          /\ cached'.tenant = cached.tenant \/ (redis /\ cached'.tenant > 0)
          /\ raced => raced'
      BY DEF TypeOK
    <2>3. CauseInv'
      BY <2>0, <2>2, AdvanceShape DEF CauseInv, StaleTenant, StaleMember, Misleads, TypeOK
    <2>4. OwedInv'
      BY <2>0, <2>2, AdvanceShape DEF OwedInv, StaleTenant, StaleMember, Misleads
    <2>5. ProgressInv'
      BY <2>0, <2>2, AdvanceShape DEF ProgressInv, OwedInv
    <2> QED
      BY <2>1, <2>3, <2>4, <2>5
  <1>2. CASE SetCachedMembership(r)
    <2> USE <1>2 DEF SetCachedMembership
    <2>0. /\ rd[r].stage = "memberSet" /\ "decide" \in ReaderStage
          /\ rd[r].copy \in Seat /\ seat # "NONE"
      BY DEF ReaderStage, TypeOK, CauseInv
    <2>1. TypeOK'
      <3>1. raced' \in BOOLEAN
        BY DEF TypeOK
      <3>2. cached' \in [tenant : 0..TenantTTL, member : 0..MemberTTL,
                         copy : Seat \cup {"NONE"}]
        <4> DEFINE C == [tenant : 0..TenantTTL, member : 0..MemberTTL,
                         copy : Seat \cup {"NONE"}]
        <4>1. cached \in C /\ MemberTTL \in 0..MemberTTL /\ rd[r].copy \in Seat \cup {"NONE"}
          BY <2>0 DEF TypeOK
        <4>2. [cached EXCEPT !.member = MemberTTL, !.copy = rd[r].copy] \in C
          BY ONLY <4>1
        <4> QED
          BY <4>1, <4>2
      <3> QED
        BY <2>0, <3>1, <3>2, AdvanceShape DEF TypeOK
    <2>2. /\ cached'.tenant = cached.tenant
          /\ \/ cached'.member = cached.member /\ cached'.copy = cached.copy
             \/ redis /\ cached'.copy = rd[r].copy
          /\ raced => raced'
      BY DEF TypeOK
    <2>3. CauseInv'
      BY <2>0, <2>2, AdvanceShape DEF CauseInv, StaleTenant, StaleMember, Misleads, TypeOK
    <2>4. OwedInv'
      BY <2>0, <2>2, AdvanceShape DEF OwedInv, StaleTenant, StaleMember, Misleads
    <2>5. ProgressInv'
      BY <2>0, <2>2, AdvanceShape DEF ProgressInv
    <2> QED
      BY <2>1, <2>3, <2>4, <2>5
  <1> QED
    BY <1>1, <1>2

\* The statements of resolveTenant keep the invariant: the reads, the two
\* stores, the end.
LEMMA ReaderKeeps ==
  ASSUME IInv, NEW r \in Reader, ReaderStep(r)
  PROVE  IInv'
  <1> USE DEF IInv
  <1>s. {"tenantSet", "memberGet", "memberRow", "memberSet", "decide", "admitted"}
           \subseteq ReaderStage
    BY DEF ReaderStage
  <1>t. /\ seat \in Seat \cup {"NONE"} /\ cached.copy \in Seat \cup {"NONE"}
        /\ rd[r].copy \in Seat \cup {"NONE"}
    BY DEF TypeOK
  <1>1. CASE FindActiveTenant(r)
    BY <1>1, <1>s, LeaveKeeps, ReadKeeps DEF FindActiveTenant
  <1>2. CASE GetCachedMembership(r)
    <2>1. rd[r].owed => tenant = "up"
      BY <1>2 DEF GetCachedMembership, ProgressInv
    <2>2. cached.member > 0 => cached.copy # "NONE" /\ seat # "NONE"
      BY DEF CauseInv
    <2> QED
      BY <1>2, <1>s, <1>t, <2>1, <2>2, ReadKeeps DEF GetCachedMembership
  <1>3. CASE FindMembership(r)
    <2>1. rd[r].owed => tenant = "up"
      BY <1>3 DEF FindMembership, ProgressInv
    <2> QED
      BY <1>3, <1>s, <1>t, <2>1, LeaveKeeps, ReadKeeps DEF FindMembership
  <1>4. CASE Decide(r)
    <2>1. rd[r].owed => tenant = "up"
      BY <1>4 DEF Decide, ProgressInv
    <2>2. rd[r].copy # "NONE"
      BY <1>4 DEF Decide, CauseInv
    <2>3. rd[r].owed => ~Misleads(rd[r].copy)
      BY <1>4 DEF Decide, OwedInv
    <2> QED
      BY <1>4, <1>s, <1>t, <2>1, <2>2, <2>3, LeaveKeeps, ReadKeeps DEF Decide, Misleads
  <1>5. CASE Answer(r)
    BY <1>5, LeaveKeeps DEF Answer
  <1> QED
    BY <1>1, <1>2, <1>3, <1>4, <1>5, StoreKeeps DEF ReaderStep

-----------------------------------------------------------------------------
(* Handlers that write *)

\* A writer that wrote its row owes the DELs of its kind; the other writers
\* are left alone.
LEMMA OweShape ==
  ASSUME TypeOK, NEW w \in Writer, NEW stage \in WriterStage, NEW all \in BOOLEAN,
         Owe(w, stage, all)
  PROVE  /\ wr' \in [Writer -> [stage : WriterStage, all : BOOLEAN]]
         /\ wr'[w].stage = stage
         /\ \A x \in Writer : x # w => wr'[x] = wr[x]
  BY DEF TypeOK, Owe

\* Nobody is owed anything after a write.
LEMMA ForgiveShape ==
  ASSUME TypeOK, Forgive
  PROVE  /\ rd' \in [Reader -> [stage : ReaderStage, copy : Seat \cup {"NONE"}, owed : BOOLEAN]]
         /\ \A r \in Reader : /\ rd'[r].stage = rd[r].stage /\ rd'[r].copy = rd[r].copy
                              /\ ~rd'[r].owed
  <1>1. \A r \in Reader :
          /\ [rd[r] EXCEPT !.owed = FALSE] \in
                [stage : ReaderStage, copy : Seat \cup {"NONE"}, owed : BOOLEAN]
          /\ [rd[r] EXCEPT !.owed = FALSE].stage = rd[r].stage
          /\ [rd[r] EXCEPT !.owed = FALSE].copy = rd[r].copy
          /\ ~[rd[r] EXCEPT !.owed = FALSE].owed
    <2> TAKE r \in Reader
    <2>1. rd[r] \in [stage : ReaderStage, copy : Seat \cup {"NONE"}, owed : BOOLEAN]
      BY DEF TypeOK
    <2> QED
      BY ONLY <2>1
  <1> QED
    BY <1>1 DEF Forgive

\* A write of either row, with or without an invalidation to follow.
LEMMA WriteKeeps ==
  ASSUME IInv, NEW w \in Writer,
         \/ \E new \in Seat : WriteSeat(w, new)
         \/ UpdateTenant(w) \/ DeleteTenant(w) \/ RestoreTenant(w)
  PROVE  IInv'
  <1> USE DEF IInv
  <1>1. Forgive /\ cached' = cached /\ redis' = redis /\ raced' = raced /\ ~Pending(w)
    BY DEF WriteSeat, UpdateTenant, DeleteTenant, RestoreTenant, WriteTenant
  <1>2. OwedInv' /\ ProgressInv'
    BY <1>1, ForgiveShape DEF OwedInv, ProgressInv
  <1>3. ASSUME NEW new \in Seat, WriteSeat(w, new)
        PROVE  TypeOK' /\ CauseInv'
    <2> USE <1>3 DEF WriteSeat
    <2>0. "delMember" \in WriterStage
      BY DEF WriterStage
    <2>1. TypeOK'
      BY <1>1, <2>0, ForgiveShape, OweShape DEF TypeOK
    <2>2. \A x \in Writer : wr[x].stage = "delTenant" => wr'[x].stage = "delTenant"
      BY <1>1, <2>0, OweShape DEF Pending
    <2>3. seat' = new /\ new # "NONE" /\ tenant' = tenant /\ (lost => lost')
      OBVIOUS
    <2>4. StaleTenant' => raced' \/ lost' \/ \E x \in Writer : wr'[x].stage = "delTenant"
      BY <1>1, <2>2, <2>3 DEF CauseInv, StaleTenant
    <2>5. StaleMember' => raced' \/ lost' \/ \E x \in Writer : wr'[x].stage = "delMember"
      <3>1. CASE seat = "NONE"
        BY <1>1, <3>1 DEF CauseInv, StaleMember, TypeOK
      <3>2. CASE seat # "NONE" /\ new = "INVITED"
        <4>1. wr' = wr /\ "INVITED" \notin Role
          BY <3>2
        <4>2. StaleMember' => lost' \/ StaleMember
          BY <1>1, <2>3, <3>2, <4>1 DEF StaleMember, Misleads
        <4> QED
          BY <1>1, <2>3, <4>1, <4>2 DEF CauseInv
      <3>3. CASE seat # "NONE" /\ new # "INVITED"
        BY <2>0, <3>3, OweShape
      <3> QED
        BY <3>1, <3>2, <3>3
    <2>6. /\ cached'.member > 0 => cached'.copy # "NONE" /\ seat' # "NONE"
          /\ \A r \in Reader : rd'[r].stage \in {"memberSet", "decide"} =>
                rd'[r].copy # "NONE" /\ seat' # "NONE"
      BY <1>1, <2>3, ForgiveShape DEF CauseInv
    <2> QED
      BY <2>1, <2>4, <2>5, <2>6 DEF CauseInv
  <1>4. ASSUME UpdateTenant(w) \/ DeleteTenant(w)
        PROVE  TypeOK' /\ CauseInv'
    <2> USE <1>4 DEF UpdateTenant, DeleteTenant, WriteTenant, FindTenantById
    <2>0. "delTenant" \in WriterStage
      BY DEF WriterStage
    <2>1. TypeOK'
      BY <1>1, <2>0, ForgiveShape, OweShape DEF TypeOK
    <2>2. \A x \in Writer : wr[x].stage = "delMember" => wr'[x].stage = "delMember"
      BY <1>1, <2>0, OweShape DEF Pending
    <2>3. wr'[w].stage = "delTenant" /\ UNCHANGED <<seat, lost>>
      BY <2>0, OweShape
    <2> QED
      BY <1>1, <2>1, <2>2, <2>3, ForgiveShape DEF CauseInv, StaleMember, Misleads
  <1>5. CASE RestoreTenant(w)
    <2> USE <1>5 DEF RestoreTenant, WriteTenant
    <2>1. TypeOK'
      BY <1>1, ForgiveShape DEF TypeOK
    <2>2. CauseInv'
      BY <1>1, ForgiveShape DEF CauseInv, StaleTenant, StaleMember, Misleads
    <2> QED
      BY <1>2, <2>1, <2>2
  <1> QED
    BY <1>2, <1>3, <1>4, <1>5

\* The Redis commands of a writer remove a copy, or are lost for good.
LEMMA InvalidateKeeps ==
  ASSUME IInv, NEW w \in Writer, WriterStep(w) \/ SwitchTenant(w) \/ Crash(w)
  PROVE  IInv'
  <1> USE DEF IInv
  <1>s. {"idle", "keys", "delMember"} \subseteq WriterStage
    BY DEF WriterStage
  <1>a. wr[w].all \in BOOLEAN
    BY DEF TypeOK
  <1> DEFINE Facts ==
        /\ UNCHANGED <<tenant, seat, redis, rd, raced>>
        /\ lost' \in BOOLEAN /\ (lost => lost')
        /\ \E stage \in WriterStage, all \in BOOLEAN : Owe(w, stage, all)
        /\ \/ cached' = cached
           \/ cached' = [cached EXCEPT !.tenant = 0]
           \/ cached' = [cached EXCEPT !.member = 0, !.copy = "NONE"]
        /\ wr[w].stage = "delTenant" => lost' \/ cached'.tenant = 0
        /\ wr[w].stage = "delMember" => lost' \/ cached'.member = 0
  <1>b. lost \in BOOLEAN /\ redis \in BOOLEAN
    BY DEF TypeOK
  <1>c. Facts
    <2>1. CASE InvalidateTenantCache(w)
      BY <1>a, <1>b, <1>s, <2>1 DEF InvalidateTenantCache, TypeOK
    <2>2. CASE ReadKeys(w)
      BY <1>s, <1>b, <2>2 DEF ReadKeys
    <2>3. CASE InvalidateMembershipCache(w)
      BY <1>s, <1>b, <2>3 DEF InvalidateMembershipCache, TypeOK
    <2>4. CASE SwitchTenant(w)
      BY <1>s, <1>b, <2>4 DEF SwitchTenant, Pending
    <2>5. CASE Crash(w)
      BY <1>s, <2>5 DEF Crash
    <2> QED
      BY <2>1, <2>2, <2>3, <2>4, <2>5 DEF WriterStep
  <1>1. UNCHANGED <<tenant, seat, redis, rd, raced>> /\ (lost => lost') /\ lost' \in BOOLEAN
    BY <1>c
  <1>2. PICK stage \in WriterStage, all \in BOOLEAN : Owe(w, stage, all)
    BY <1>c
  <1>3. /\ cached' \in [tenant : 0..TenantTTL, member : 0..MemberTTL,
                        copy : Seat \cup {"NONE"}]
        /\ cached'.tenant > 0 => cached.tenant > 0
        /\ cached'.member > 0 => cached.member > 0 /\ cached'.copy = cached.copy
    <2> DEFINE C == [tenant : 0..TenantTTL, member : 0..MemberTTL, copy : Seat \cup {"NONE"}]
    <2>1. cached \in C /\ 0 \in 0..TenantTTL /\ 0 \in 0..MemberTTL
      BY DEF TypeOK
    <2>2. [cached EXCEPT !.tenant = 0] \in C
      BY ONLY <2>1
    <2>3. [cached EXCEPT !.member = 0, !.copy = "NONE"] \in C
      BY ONLY <2>1
    <2>4. \/ cached' = cached
          \/ cached' = [cached EXCEPT !.tenant = 0]
          \/ cached' = [cached EXCEPT !.member = 0, !.copy = "NONE"]
      BY <1>c
    <2>5. cached' \in C
      BY ONLY <2>1, <2>2, <2>3, <2>4
    <2>6. CASE cached' = cached
      BY ONLY <2>5, <2>6
    <2>7. CASE cached' = [cached EXCEPT !.tenant = 0]
      BY ONLY <2>1, <2>5, <2>7
    <2>8. CASE cached' = [cached EXCEPT !.member = 0, !.copy = "NONE"]
      BY ONLY <2>1, <2>5, <2>8
    <2> QED
      BY <2>4, <2>5, <2>6, <2>7, <2>8
  <1>4. (StaleTenant' => StaleTenant) /\ (StaleMember' => StaleMember)
    BY <1>1, <1>3 DEF StaleTenant, StaleMember, Misleads
  <1>5. TypeOK'
    BY <1>1, <1>2, <1>3, OweShape DEF TypeOK
  <1>6. /\ wr[w].stage = "delTenant" => lost' \/ ~StaleTenant'
        /\ wr[w].stage = "delMember" => lost' \/ ~StaleMember'
    BY <1>c DEF StaleTenant, StaleMember
  <1>7. CauseInv'
    BY <1>1, <1>2, <1>3, <1>4, <1>6, OweShape DEF CauseInv
  <1>8. OwedInv' /\ ProgressInv'
    BY <1>1, <1>4 DEF OwedInv, ProgressInv, Misleads
  <1> QED
    BY <1>5, <1>7, <1>8

-----------------------------------------------------------------------------
(* Redis *)

\* Losing the connection changes no copy, and time only takes copies away.
LEMMA RedisKeeps ==
  ASSUME IInv, Connection \/ Tick
  PROVE  IInv'
  <1> USE DEF IInv
  <1>1. UNCHANGED <<tenant, seat, rd, wr, raced, lost>> /\ redis' \in BOOLEAN
    BY DEF Connection, Tick, TypeOK
  <1>2. /\ cached' \in [tenant : 0..TenantTTL, member : 0..MemberTTL,
                        copy : Seat \cup {"NONE"}]
        /\ cached'.tenant > 0 => cached.tenant > 0
        /\ cached'.member > 0 => cached.member > 0 /\ cached'.copy = cached.copy
    <2>1. CASE Connection
      BY <2>1 DEF Connection, TypeOK
    <2>2. CASE Tick
      <3>1. /\ \A t \in 0..TenantTTL : Age(t) \in 0..TenantTTL /\ (Age(t) > 0 => t > 0)
            /\ \A t \in 0..MemberTTL : Age(t) \in 0..MemberTTL /\ (Age(t) > 0 => t > 1)
        BY DEF Age
      <3> QED
        BY <2>2, <3>1 DEF Tick, TypeOK
    <2> QED
      BY <2>1, <2>2
  <1>3. TypeOK'
    BY <1>1, <1>2 DEF TypeOK
  <1>4. CauseInv' /\ OwedInv' /\ ProgressInv'
    BY <1>1, <1>2 DEF CauseInv, OwedInv, ProgressInv, StaleTenant, StaleMember, Misleads
  <1> QED
    BY <1>3, <1>4

-----------------------------------------------------------------------------
(* The inductive invariant, and what follows from it *)

\* The invariant holds of the initial states.
LEMMA InitIInv == Init => IInv
  <1> SUFFICES ASSUME Init PROVE IInv
    OBVIOUS
  <1>1. TypeOK
    <2>1. /\ rd \in [Reader -> [stage : ReaderStage, copy : Seat \cup {"NONE"}, owed : BOOLEAN]]
          /\ wr \in [Writer -> [stage : WriterStage, all : BOOLEAN]]
      BY DEF Init, IdleReader, IdleWriter, ReaderStage, WriterStage
    <2>2. cached \in [tenant : 0..TenantTTL, member : 0..MemberTTL, copy : Seat \cup {"NONE"}]
      BY DEF Init
    <2> QED
      BY <2>1, <2>2 DEF Init, TypeOK
  <1>2. CauseInv /\ OwedInv /\ ProgressInv
    BY DEF Init, CauseInv, OwedInv, ProgressInv, StaleTenant, StaleMember, IdleReader
  <1> QED
    BY <1>1, <1>2 DEF IInv

\* Every step keeps the invariant: one case for each action, by the lemma
\* about it.
LEMMA NextKeeps == IInv /\ [Next]_vars => IInv'
  <1> SUFFICES ASSUME IInv, [Next]_vars PROVE IInv'
    OBVIOUS
  <1>1. CASE UNCHANGED vars
    BY <1>1 DEF vars, IInv, TypeOK, CauseInv, OwedInv, ProgressInv, StaleTenant, StaleMember,
                Misleads
  <1>2. CASE Next
    BY <1>2, ArrivalKeeps, ReaderKeeps, WriteKeeps, InvalidateKeeps, RedisKeeps DEF Next
  <1> QED
    BY <1>1, <1>2

\* The inductive invariant holds in every reachable state: each staleness is
\* owed by a writer that will delete that copy, and an owed request sees none.
THEOREM Inductive == Spec => []IInv
  BY InitIInv, NextKeeps, PTL DEF Spec

\* The state keeps its shape.
THEOREM TypeCorrect == Spec => []TypeOK
  <1>1. IInv => TypeOK
    BY DEF IInv
  <1> QED
    BY <1>1, Inductive, PTL

\* With any number of requests and writers, a stale copy in Redis always has
\* one of three causes: a writer in between, a race, or a lost invalidation.
THEOREM StaleCopies == Spec => []StaleHasCause
  <1>1. IInv => StaleHasCause
    BY DEF IInv, CauseInv, StaleHasCause, Pending
  <1> QED
    BY <1>1, Inductive, PTL

\* A request that arrives when nothing is in flight, and sees no write, gets
\* exactly the access the rows give, whatever the other requests do.
THEOREM CurrentAdmission == Spec => []AdmissionIsCurrent
  <1>1. IInv => AdmissionIsCurrent
    BY DEF IInv, ProgressInv, AdmissionIsCurrent
  <1> QED
    BY <1>1, Inductive, PTL
=============================================================================
