-------------------------------- MODULE OtpFlow --------------------------------
(***************************************************************************)
(* One-time codes for one email address and one purpose: generate, resend  *)
(* and verify (src/modules/auth).  All state is in Redis: the record of a  *)
(* code under the id of the request that made it, and a pointer from the   *)
(* address to that id.  Both have a time to live, and only sends renew the *)
(* pointer's.                                                              *)
(*                                                                         *)
(* A request gets a fresh id (app.js), every send hashes a new code with   *)
(* its own id, and no other send ever writes that record: a code stands    *)
(* for its id.  One action is one Redis command.                           *)
(***************************************************************************)
EXTENDS Naturals, Handlers

CONSTANTS
    Code,          \* codes; one that nothing refers to any more is used again
    NoCode,
    TTL,           \* OTP_EXPIRES_IN, in ticks
    Cooldown,      \* RESEND_COOLDOWN, in ticks
    MaxAttempts,   \* OTP_MAX_ATTEMPTS
    MaxResend      \* MAX_RESEND

ASSUME CodeAssumption == NoCode \notin Code
ASSUME BoundAssumption ==
    /\ TTL \in Nat \ {0}
    /\ Cooldown \in Nat
    /\ MaxAttempts \in Nat \ {0}
    /\ MaxResend \in Nat

VARIABLES
    otp,         \* otp:{id}: the record of a code, ttl 0 without one
    pointer,     \* otp:{purpose}:{email}: ticks left, and the code it names
    rq,          \* the requests under way
    tries,       \* history: wrong guesses answered for a code that is live
    mail,        \* history: what became of a code
    overtaken,   \* history: a request wrote over what another one had done
    unpointed    \* history: a live code lost its pointer, or never got one

vars == <<otp, pointer, rq, tries, mail, overtaken, unpointed>>

Stage == {"idle", "pointed", "fresh", "resend", "update", "point",
          "right", "wrong", "unpoint"}

\* ttl: ticks left to the key; wait: ticks until the cooldown is over.
Record == [ttl : 0..TTL, attempts : 0..MaxAttempts, resends : 0..MaxResend, wait : 0..Cooldown]
Gone == [ttl |-> 0, attempts |-> 0, resends |-> 0, wait |-> 0]
NoPointer == [ttl |-> 0, code |-> NoCode]

\* code: the code read or being verified, and the record read; new: the code
\* of this send.
RequestState == [stage : Stage, code : Code \cup {NoCode}, new : Code \cup {NoCode},
                 read : Record]
Idle == [stage |-> "idle", code |-> NoCode, new |-> NoCode, read |-> Gone]

TypeOK ==
    /\ otp \in [Code -> Record]
    /\ pointer \in [ttl : 0..TTL, code : Code \cup {NoCode}]
    /\ rq \in [Request -> RequestState]
    /\ tries \in [Code -> 0..(MaxAttempts + 1)]
    /\ mail \in [Code -> {"unsent", "sent", "superseded", "used", "reused"}]
    /\ overtaken \in BOOLEAN
    /\ unpointed \in BOOLEAN

Init ==
    /\ otp = [c \in Code |-> Gone]
    /\ pointer = NoPointer
    /\ rq = [r \in Request |-> Idle]
    /\ tries = [c \in Code |-> 0]
    /\ mail = [c \in Code |-> "unsent"]
    /\ overtaken = FALSE
    /\ unpointed = FALSE

-----------------------------------------------------------------------------
Live(c) == c # NoCode /\ otp[c].ttl > 0

\* What GET answers: the value, without the lifetime.
Value(c) == [otp[c] EXCEPT !.ttl = 0]

\* The live code a send would find, if any.
Standing == IF Live(pointer.code) THEN pointer.code ELSE NoCode

\* Ids are uuids: a code is new when nothing knows its id.
Fresh(c) ==
    /\ ~Live(c)
    /\ pointer.code # c
    /\ \A r \in Request : c \notin {rq[r].code, rq[r].new}

Go(r, stage) == rq' = [rq EXCEPT ![r] = [@ EXCEPT !.stage = stage]]
Done(r) == rq' = [rq EXCEPT ![r] = Idle]
Delete(c) == otp' = [otp EXCEPT ![c] = Gone] /\ tries' = [tries EXCEPT ![c] = 0]

\* A send writes although another send has finished since it looked.
Overtake(r) ==
    overtaken' = (overtaken \/ Standing \notin {NoCode, rq[r].code, rq[r].new})

-----------------------------------------------------------------------------
(* generateOtpService and handleOtpResendLogic *)

GetOtpByEmailAndPurpose(r, c) ==
    /\ rq[r].stage = "idle"
    /\ Fresh(c)
    /\ rq' = [rq EXCEPT ![r] = [stage |-> "pointed", code |-> pointer.code, new |-> c,
                                read |-> Gone]]
    /\ UNCHANGED <<otp, pointer, tries, mail, overtaken, unpointed>>

\* Mutant: the limit is off by one.
MayResend_OneMore(record) == record.resends <= MaxResend /\ record.wait = 0

MayResend(record) == record.resends < MaxResend /\ record.wait = 0

GetOtp(r) ==
    LET c == rq[r].code IN
    /\ rq[r].stage = "pointed"
    /\ IF Live(c)
       THEN /\ MayResend(otp[c])
            /\ rq' = [rq EXCEPT ![r] = [@ EXCEPT !.stage = "resend", !.read = Value(c)]]
       ELSE Go(r, "fresh")
    /\ UNCHANGED <<otp, pointer, tries, mail, overtaken, unpointed>>

\* The record of the new code.
Save(r, count) ==
    /\ otp' = [otp EXCEPT ![rq[r].new] =
                  [ttl |-> TTL, attempts |-> 0, resends |-> count, wait |-> Cooldown]]
    /\ mail' = [mail EXCEPT ![rq[r].new] = "unsent"]
    /\ Overtake(r)
    /\ Go(r, "point")
    /\ UNCHANGED <<pointer, tries, unpointed>>

SaveOtp(r) == rq[r].stage = "fresh" /\ Save(r, 0)

\* Mutant: the old code stays.
DeleteOld_Kept(r) ==
    /\ rq[r].stage = "resend"
    /\ Go(r, "update")
    /\ UNCHANGED <<otp, pointer, tries, mail, overtaken, unpointed>>

DeleteOld(r) ==
    /\ rq[r].stage = "resend"
    /\ Delete(rq[r].code)
    /\ Overtake(r)
    /\ Go(r, "update")
    /\ UNCHANGED <<pointer, mail, unpointed>>

UpdateOtp(r) == rq[r].stage = "update" /\ Save(r, rq[r].read.resends + 1)

\* The pointer moves to the new code, and the mail is sent.
SaveRequestId(r) ==
    /\ rq[r].stage = "point"
    /\ pointer' = [ttl |-> TTL, code |-> rq[r].new]
    /\ mail' = [c \in Code |-> IF c = rq[r].new THEN "sent"
                               ELSE IF mail[c] = "sent" THEN "superseded" ELSE mail[c]]
    /\ Overtake(r)
    /\ Done(r)
    /\ UNCHANGED <<otp, tries, unpointed>>

-----------------------------------------------------------------------------
(* verifyOtpService *)

\* Only someone who got the mail gives the right code.
VerifyRead(r, c) ==
    /\ rq[r].stage = "idle"
    /\ Live(c)
    /\ otp[c].attempts < MaxAttempts
    /\ \E stage \in {"right", "wrong"} :
        /\ stage = "right" => mail[c] # "unsent"
        /\ rq' = [rq EXCEPT ![r] = [stage |-> stage, code |-> c, new |-> NoCode,
                                    read |-> Value(c)]]
    /\ UNCHANGED <<otp, pointer, tries, mail, overtaken, unpointed>>

\* The record is no longer the one that was read.
Changed(r) == ~Live(rq[r].code) \/ otp[rq[r].code].attempts # rq[r].read.attempts

WriteTry(r, attempts) ==
    LET c == rq[r].code IN
    /\ rq[r].stage = "wrong"
    /\ otp' = [otp EXCEPT ![c] = [rq[r].read EXCEPT !.ttl = TTL, !.attempts = attempts]]
    /\ tries' = [tries EXCEPT ![c] = IF @ > MaxAttempts THEN @ ELSE @ + 1]
    /\ overtaken' = (overtaken \/ Changed(r))
    /\ Done(r)
    /\ UNCHANGED <<pointer, mail, unpointed>>

\* Mutant: the failed attempt is not counted.
WrongTry_NotCounted(r) == WriteTry(r, rq[r].read.attempts)

\* The record that was read is written back, with a full lifetime.
WrongTry(r) == WriteTry(r, rq[r].read.attempts + 1)

Use(c) == mail' = [mail EXCEPT ![c] = IF @ \in {"used", "reused"} THEN "reused" ELSE "used"]

\* Mutant: a code that was accepted is left to expire.
DeleteOtp_Kept(r) ==
    /\ rq[r].stage = "right"
    /\ Use(rq[r].code)
    /\ Go(r, "unpoint")
    /\ UNCHANGED <<otp, pointer, tries, overtaken, unpointed>>

DeleteOtp(r) ==
    /\ rq[r].stage = "right"
    /\ Delete(rq[r].code)
    /\ Use(rq[r].code)
    /\ overtaken' = (overtaken \/ Changed(r))
    /\ Go(r, "unpoint")
    /\ UNCHANGED <<pointer, unpointed>>

\* The pointer goes, whichever code it names by now.
DeleteOtpByEmailAndPurpose(r) ==
    /\ rq[r].stage = "unpoint"
    /\ pointer' = NoPointer
    /\ Overtake(r)
    /\ Done(r)
    /\ UNCHANGED <<otp, tries, mail, unpointed>>

-----------------------------------------------------------------------------
\* A request ends early: refused, failed by Redis, or with its process.
Fail(r) ==
    /\ MayFail
    /\ rq[r].stage # "idle"
    /\ unpointed' = (unpointed \/ rq[r].stage = "point")
    /\ Done(r)
    /\ UNCHANGED <<otp, pointer, tries, mail, overtaken>>

Age(n) == IF n = 0 THEN 0 ELSE n - 1

Older(record) ==
    IF record.ttl <= 1 THEN Gone ELSE [record EXCEPT !.ttl = @ - 1, !.wait = Age(@)]

\* Mutant: both keys are stored without a lifetime.
Tick_NoLifetime ==
    /\ otp' = [c \in Code |-> [otp[c] EXCEPT !.wait = Age(@)]]
    /\ rq' = [r \in Request |-> [rq[r] EXCEPT !.read.wait = Age(@)]]
    /\ UNCHANGED <<pointer, tries, mail, overtaken, unpointed>>

\* Time passes; a pointer may come to its end before the code it names.
Tick ==
    /\ pointer.ttl > 0 \/ \E c \in Code : otp[c].ttl > 0
    /\ otp' = [c \in Code |-> Older(otp[c])]
    /\ tries' = [c \in Code |-> IF otp[c].ttl > 1 THEN tries[c] ELSE 0]
    /\ pointer' = IF pointer.ttl <= 1 THEN NoPointer ELSE [pointer EXCEPT !.ttl = @ - 1]
    /\ rq' = [r \in Request |-> [rq[r] EXCEPT !.read.wait = Age(@)]]
    /\ unpointed' = (unpointed \/ (Standing # NoCode /\ pointer.ttl = 1
                                    /\ otp[Standing].ttl > 1))
    /\ UNCHANGED <<mail, overtaken>>

Step(r) ==
    \/ GetOtp(r) \/ SaveOtp(r) \/ DeleteOld(r) \/ UpdateOtp(r) \/ SaveRequestId(r)
    \/ WrongTry(r) \/ DeleteOtp(r) \/ DeleteOtpByEmailAndPurpose(r)
    \/ Fail(r)

Next ==
    \/ \E r \in Request :
        \/ \E c \in Code : GetOtpByEmailAndPurpose(r, c) \/ VerifyRead(r, c)
        \/ Step(r)
    \/ Tick

\* Redis keeps its clock.  No request has to arrive or to go on.
Spec == Init /\ [][Next]_vars /\ WF_vars(Tick)
-----------------------------------------------------------------------------
(* Properties *)

\* No code is guessed wrong more than MaxAttempts times, resends, renewals and
\* crashes included, unless a request overwrote what another had just done:
\* verifyOtpService reads the count and writes it back in two commands.
TriesBounded == ~overtaken => \A c \in Code : tries[c] <= MaxAttempts

\* A code is good for one use, with the same exception.
SingleUse == ~overtaken => \A c \in Code : mail[c] # "reused"

\* Two codes are live together only while a send moves the pointer, or after
\* a live code lost its pointer or a request overwrote another's work.
OneLiveCode ==
    \A c, d \in Code :
        Live(c) /\ Live(d) /\ c # d =>
            overtaken \/ unpointed \/ \E r \in Request : rq[r].stage = "point"

\* Nobody is locked out for good: again and again a send would be accepted.
\* A wrong guess renews the code and its resend limit, but not the pointer.
SendOpen == Standing # NoCode => MayResend(otp[Standing])
NoLockout == []<>SendOpen

\* What the comment of otp-resend.handler.js says: once a new code was sent,
\* "the previous code can't be used".
LatestCodeOnly == [][\A c \in Code : mail[c] = "superseded" /\ ~overtaken => mail'[c] # "used"]_vars
-----------------------------------------------------------------------------
(* The inductive invariant behind TriesBounded, SingleUse and OneLiveCode.   *)

\* What a stage says of the request, and a lifetime of the key.
ShapeInv ==
    /\ \A c \in Code : otp[c].ttl = 0 => otp[c] = Gone
    /\ pointer.ttl = 0 => pointer.code = NoCode
    /\ \A r \in Request :
        /\ rq[r].stage \in {"resend", "right", "wrong", "unpoint"} => rq[r].code # NoCode
        /\ rq[r].stage \in {"pointed", "fresh", "resend", "update", "point"} =>
                rq[r].new # NoCode
        /\ rq[r].stage \in {"resend", "update"} => rq[r].read.resends < MaxResend
        /\ rq[r].stage = "wrong" => rq[r].read.attempts < MaxAttempts
        /\ rq[r].stage \in {"idle", "right", "wrong", "unpoint"} => rq[r].new = NoCode

\* Until its record is saved, the new code of a send is known to no one else.
FreshInv ==
    \A r \in Request : rq[r].stage \in {"pointed", "fresh", "resend", "update"} =>
        /\ ~Live(rq[r].new)
        /\ rq[r].new \notin {pointer.code, rq[r].code}
        /\ \A q \in Request \ {r} : rq[r].new \notin {rq[q].code, rq[q].new}

\* The code that a send replaces, or that was consumed, stays dead.
SettledInv ==
    ~overtaken => \A r \in Request :
        rq[r].stage \in {"fresh", "update", "point", "unpoint"} => ~Live(rq[r].code)

\* The record counts every wrong guess, and a live code was not used.
CountInv ==
    ~overtaken => \A c \in Code :
        /\ tries[c] <= otp[c].attempts
        /\ Live(c) => mail[c] # "used"
        /\ mail[c] # "reused"

\* A live code is the one a send would find, or about to be.
PointInv ==
    ~overtaken /\ ~unpointed => \A c \in Code : Live(c) =>
        pointer.code = c \/ \E r \in Request : rq[r].stage = "point" /\ rq[r].new = c

IInv == TypeOK /\ ShapeInv /\ FreshInv /\ SettledInv /\ CountInv /\ PointInv
=============================================================================
