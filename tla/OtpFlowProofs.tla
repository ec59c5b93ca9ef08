---------------------------- MODULE OtpFlowProofs ----------------------------
(***************************************************************************)
(* Proofs about OtpFlow, for any number of codes and of overlapping        *)
(* requests, any lifetime, cooldown and limits.                            *)
(***************************************************************************)
EXTENDS OtpFlow, TLAPS

USE CodeAssumption, BoundAssumption

-----------------------------------------------------------------------------
(* Records and requests *)

\* An expired key reads as a record without lifetime and attempts.
LEMMA GoneIsRecord == Gone \in Record /\ Gone.ttl = 0 /\ Gone.attempts = 0
  BY DEF Gone, Record

\* The state of a free slot is the state of a request.
LEMMA IdleIsRequest ==
  Idle \in RequestState /\ Idle.stage = "idle" /\ Idle.code = NoCode /\ Idle.new = NoCode
  BY GoneIsRecord DEF Idle, RequestState, Stage

\* One request moves to a stage; the others stay.
LEMMA GoShape ==
  ASSUME TypeOK, NEW r \in Request, NEW stage \in Stage, Go(r, stage)
  PROVE  /\ rq' \in [Request -> RequestState]
         /\ rq'[r].stage = stage /\ rq'[r].code = rq[r].code /\ rq'[r].new = rq[r].new
         /\ rq'[r].read = rq[r].read
         /\ \A q \in Request : q # r => rq'[q] = rq[q]
  <1> DEFINE next == [rq[r] EXCEPT !.stage = stage]
  <1>1. /\ next \in RequestState
        /\ next.stage = stage /\ next.code = rq[r].code /\ next.new = rq[r].new
        /\ next.read = rq[r].read
    <2>1. rq[r] \in RequestState
      BY DEF TypeOK
    <2> QED
      BY ONLY <2>1, stage \in Stage DEF RequestState
  <1>2. rq' = [rq EXCEPT ![r] = next]
    BY DEF Go
  <1> HIDE DEF next
  <1> QED
    BY <1>1, <1>2 DEF TypeOK

\* Ending a request frees its slot and leaves the other slots alone.
LEMMA DoneShape ==
  ASSUME TypeOK, NEW r \in Request, Done(r)
  PROVE  /\ rq' \in [Request -> RequestState]
         /\ rq'[r] = Idle
         /\ \A q \in Request : q # r => rq'[q] = rq[q]
  BY IdleIsRequest DEF TypeOK, Done

\* The record a request starts with.
LEMMA PutShape ==
  ASSUME TypeOK, NEW r \in Request, NEW state \in RequestState, rq' = [rq EXCEPT ![r] = state]
  PROVE  /\ rq' \in [Request -> RequestState]
         /\ rq'[r] = state
         /\ \A q \in Request : q # r => rq'[q] = rq[q]
  BY DEF TypeOK

\* What GET answers has the counts of the record.
LEMMA ValueIsRecord ==
  ASSUME TypeOK, NEW c \in Code
  PROVE  /\ Value(c) \in Record
         /\ Value(c).attempts = otp[c].attempts /\ Value(c).resends = otp[c].resends
  <1>1. otp[c] \in Record
    BY DEF TypeOK
  <1> QED
    BY <1>1 DEF Value, Record

-----------------------------------------------------------------------------
(* Steps that change no key: what the request holds is all that moves *)

\* What a code is worth depends on the two keys alone.
LEMMA KeysKept ==
  ASSUME UNCHANGED <<otp, pointer>>
  PROVE  /\ Standing' = Standing
         /\ \A c : Live(c)' = Live(c)
  BY DEF Standing, Live

\* A send that looks up the pointer writes no key.
LEMMA LookKeeps ==
  ASSUME IInv, NEW r \in Request, NEW c \in Code, GetOtpByEmailAndPurpose(r, c)
  PROVE  IInv'
  <1> USE DEF IInv
  <1> DEFINE state == [stage |-> "pointed", code |-> pointer.code, new |-> c, read |-> Gone]
  <1>1. /\ state \in RequestState
        /\ rq' = [rq EXCEPT ![r] = state]
        /\ rq[r].stage = "idle"
        /\ UNCHANGED <<otp, pointer, tries, mail, overtaken, unpointed>>
    BY GoneIsRecord DEF GetOtpByEmailAndPurpose, RequestState, Stage, TypeOK
  <1>2. /\ rq' \in [Request -> RequestState]
        /\ rq'[r] = state
        /\ \A q \in Request : q # r => rq'[q] = rq[q]
    BY <1>1, PutShape
  <1>3. TypeOK'
    BY <1>1, <1>2 DEF TypeOK
  <1>4. ShapeInv'
    BY <1>1, <1>2 DEF ShapeInv
  <1>5. FreshInv'
    BY <1>1, <1>2, KeysKept DEF FreshInv, GetOtpByEmailAndPurpose, Fresh
  <1>6. SettledInv' /\ CountInv'
    BY <1>1, <1>2, KeysKept DEF SettledInv, CountInv
  <1>7. PointInv'
    BY <1>1, <1>2, KeysKept DEF PointInv
  <1> QED
    BY <1>3, <1>4, <1>5, <1>6, <1>7

\* A verification that reads the record writes no key, and notes whom it
\* meets.
LEMMA VerifyKeeps ==
  ASSUME IInv, NEW r \in Request, NEW c \in Code, VerifyRead(r, c)
  PROVE  IInv'
  <1> USE DEF IInv
  <1> DEFINE state(stage) == [stage |-> stage, code |-> c, new |-> NoCode, read |-> Value(c)]
  <1>1. PICK stage \in {"right", "wrong"} : rq' = [rq EXCEPT ![r] = state(stage)]
    BY DEF VerifyRead
  <1>2. /\ rq[r].stage = "idle" /\ Live(c) /\ otp[c].attempts < MaxAttempts
        /\ UNCHANGED <<otp, pointer, tries, mail, overtaken, unpointed>>
    BY DEF VerifyRead
  <1>3. state(stage) \in RequestState
    BY ValueIsRecord DEF RequestState, Stage
  <1>4. /\ rq' \in [Request -> RequestState]
        /\ rq'[r] = state(stage)
        /\ \A q \in Request : q # r => rq'[q] = rq[q]
    BY <1>1, <1>3, PutShape
  <1>5. TypeOK'
    BY <1>2, <1>4 DEF TypeOK
  <1>6. ShapeInv'
    BY <1>2, <1>4, ValueIsRecord DEF ShapeInv
  <1>7. FreshInv'
    BY <1>2, <1>4, KeysKept DEF FreshInv, ShapeInv, TypeOK, RequestState
  <1>8. SettledInv' /\ CountInv'
    BY <1>2, <1>4, KeysKept DEF SettledInv, CountInv
  <1>9. PointInv'
    BY <1>2, <1>4, KeysKept DEF PointInv
  <1> QED
    BY <1>5, <1>6, <1>7, <1>8, <1>9

\* A send that reads the record it was pointed to writes no key.
LEMMA GetKeeps ==
  ASSUME IInv, NEW r \in Request, GetOtp(r)
  PROVE  IInv'
  <1> USE DEF IInv
  <1> DEFINE c == rq[r].code
  <1>1. /\ rq[r].stage = "pointed"
        /\ UNCHANGED <<otp, pointer, tries, mail, overtaken, unpointed>>
    BY DEF GetOtp
  <1>2. \/ /\ Live(c) /\ otp[c].resends < MaxResend
           /\ rq' = [rq EXCEPT ![r] = [@ EXCEPT !.stage = "resend", !.read = Value(c)]]
        \/ /\ ~Live(c)
           /\ Go(r, "fresh")
    BY DEF GetOtp, MayResend
  <1>3. rq[r] \in RequestState /\ rq[r].new # NoCode
    BY <1>1 DEF TypeOK, ShapeInv
  <1>4. \E stage \in {"resend", "fresh"} :
           /\ rq' \in [Request -> RequestState]
           /\ rq'[r].stage = stage /\ rq'[r].code = c /\ rq'[r].new = rq[r].new
           /\ stage = "resend" => c # NoCode /\ rq'[r].read.resends < MaxResend
           /\ stage = "fresh" => ~Live(c)
           /\ \A q \in Request : q # r => rq'[q] = rq[q]
    <2>1. CASE Live(c) /\ otp[c].resends < MaxResend
               /\ rq' = [rq EXCEPT ![r] = [@ EXCEPT !.stage = "resend", !.read = Value(c)]]
      <3> DEFINE state == [rq[r] EXCEPT !.stage = "resend", !.read = Value(c)]
      <3>1. c \in Code
        BY <2>1, <1>3 DEF Live, RequestState
      <3>2. /\ state \in RequestState
            /\ state.stage = "resend" /\ state.code = c /\ state.new = rq[r].new
            /\ state.read = Value(c)
        BY <1>3, <3>1, ValueIsRecord DEF RequestState, Stage
      <3>3. rq' = [rq EXCEPT ![r] = state]
        BY <2>1
      <3> HIDE DEF state
      <3>4. /\ rq' \in [Request -> RequestState]
            /\ rq'[r] = state
            /\ \A q \in Request : q # r => rq'[q] = rq[q]
        BY <3>2, <3>3, PutShape
      <3>5. c # NoCode /\ Value(c).resends < MaxResend
        BY <2>1, <3>1, ValueIsRecord
      <3> QED
        BY <3>2, <3>4, <3>5
    <2>2. CASE ~Live(c) /\ Go(r, "fresh")
      BY <2>2, GoShape DEF Stage
    <2> QED
      BY <1>2, <2>1, <2>2
  <1> HIDE DEF c
  <1>5. TypeOK'
    BY <1>1, <1>4 DEF TypeOK
  <1>6. ShapeInv'
    BY <1>1, <1>3, <1>4 DEF ShapeInv
  <1>7. FreshInv'
    BY <1>1, <1>4, KeysKept DEF FreshInv, c
  <1>8. SettledInv' /\ CountInv'
    BY <1>1, <1>4, KeysKept DEF SettledInv, CountInv
  <1>9. PointInv'
    BY <1>1, <1>4, KeysKept DEF PointInv
  <1> QED
    BY <1>5, <1>6, <1>7, <1>8, <1>9

\* A request that ends early leaves the keys as its last command left them,
\* and a code without its pointer is recorded.
LEMMA FailKeeps ==
  ASSUME IInv, NEW r \in Request, Fail(r)
  PROVE  IInv'
  <1> USE DEF IInv
  <1>1. /\ rq' \in [Request -> RequestState]
        /\ rq'[r] = Idle
        /\ \A q \in Request : q # r => rq'[q] = rq[q]
    BY DoneShape DEF Fail
  <1>2. UNCHANGED <<otp, pointer, tries, mail, overtaken>>
    BY DEF Fail
  <1>3. TypeOK'
    BY <1>1, <1>2 DEF TypeOK, Fail
  <1>4. ShapeInv'
    BY <1>1, <1>2, IdleIsRequest DEF ShapeInv
  <1>5. FreshInv'
    BY <1>1, <1>2, IdleIsRequest, KeysKept DEF FreshInv, ShapeInv, TypeOK, RequestState
  <1>6. SettledInv' /\ CountInv'
    BY <1>1, <1>2, IdleIsRequest, KeysKept DEF SettledInv, CountInv
  <1>7. PointInv'
    <2>1. ~unpointed' => ~unpointed /\ rq[r].stage # "point"
      BY DEF Fail
    <2> QED
      BY <2>1, <1>1, <1>2, IdleIsRequest, KeysKept DEF PointInv
  <1> QED
    BY <1>3, <1>4, <1>5, <1>6, <1>7

-----------------------------------------------------------------------------
(* Sends *)

\* A record is saved for a code that was known to nobody.
LEMMA SaveKeeps ==
  ASSUME IInv, NEW r \in Request, NEW count \in 0..MaxResend,
         rq[r].stage \in {"fresh", "update"}, Save(r, count)
  PROVE  IInv'
  <1> USE DEF IInv
  <1> DEFINE n == rq[r].new
             record == [ttl |-> TTL, attempts |-> 0, resends |-> count, wait |-> Cooldown]
  <1>1. n \in Code /\ ~Live(n) /\ n # pointer.code /\ n # rq[r].code
        /\ \A q \in Request : q # r => n # rq[q].code /\ n # rq[q].new
    BY DEF TypeOK, RequestState, ShapeInv, FreshInv
  <1>2. record \in Record /\ record.ttl # 0 /\ record.attempts = 0
    BY DEF Record
  <1>3. /\ otp' = [otp EXCEPT ![n] = record]
        /\ mail' = [mail EXCEPT ![n] = "unsent"]
        /\ Go(r, "point")
        /\ UNCHANGED <<pointer, tries, unpointed>>
        /\ overtaken' \in BOOLEAN /\ (~overtaken' => ~overtaken)
    BY DEF Save, Overtake, TypeOK
  <1>4. /\ rq' \in [Request -> RequestState]
        /\ rq'[r].stage = "point" /\ rq'[r].code = rq[r].code /\ rq'[r].new = n
        /\ rq'[r].read = rq[r].read
        /\ \A q \in Request : q # r => rq'[q] = rq[q]
    BY <1>3, GoShape DEF Stage
  <1> HIDE DEF n, record
  <1>5. /\ otp' \in [Code -> Record]
        /\ otp'[n] = record /\ \A c \in Code : c # n => otp'[c] = otp[c]
    BY <1>1, <1>2, <1>3 DEF TypeOK
  <1>6. TypeOK'
    BY <1>1, <1>3, <1>4, <1>5 DEF TypeOK
  <1>7. \A c \in Code \cup {NoCode} : c # n => Live(c)' = Live(c)
    BY <1>5 DEF Live
  <1>8. ShapeInv'
    BY <1>1, <1>2, <1>3, <1>4, <1>5 DEF ShapeInv
  <1>9. FreshInv'
    BY <1>1, <1>3, <1>4, <1>7 DEF FreshInv, TypeOK, RequestState, n
  <1>10. SettledInv'
    BY <1>1, <1>3, <1>4, <1>7 DEF SettledInv, TypeOK, RequestState
  <1>11. CountInv'
    <2>1. tries[n] <= 0 \/ overtaken
      BY <1>1 DEF CountInv, ShapeInv, Live, Gone, TypeOK, Record
    <2> QED
      BY <2>1, <1>1, <1>2, <1>3, <1>5, <1>7 DEF CountInv, TypeOK
  <1>12. PointInv'
    BY <1>1, <1>3, <1>4, <1>7 DEF PointInv
  <1> QED
    BY <1>6, <1>8, <1>9, <1>10, <1>11, <1>12

\* saveOtp and updateOtp make a live code whose attempts are counted from
\* zero.
LEMMA SendKeeps ==
  ASSUME IInv, NEW r \in Request, SaveOtp(r) \/ UpdateOtp(r)
  PROVE  IInv'
  <1>1. CASE SaveOtp(r)
    BY <1>1, SaveKeeps DEF SaveOtp
  <1>2. CASE UpdateOtp(r)
    <2>1. rq[r].stage = "update" /\ Save(r, rq[r].read.resends + 1)
      BY <1>2 DEF UpdateOtp
    <2>2. rq[r].read.resends + 1 \in 0..MaxResend
      BY <2>1 DEF IInv, TypeOK, ShapeInv, RequestState, Record
    <2> QED
      BY <2>1, <2>2, SaveKeeps
  <1> QED
    BY <1>1, <1>2

\* The code that is replaced goes first.
LEMMA DeleteOldKeeps ==
  ASSUME IInv, NEW r \in Request, DeleteOld(r)
  PROVE  IInv'
  <1> USE DEF IInv
  <1>0. PICK c \in Code : c = rq[r].code
    BY DEF DeleteOld, TypeOK, RequestState, ShapeInv
  <1>1. rq[r].stage = "resend" /\ rq[r].new # NoCode /\ rq[r].new # c
        /\ rq[r].read.resends < MaxResend
    BY <1>0 DEF DeleteOld, ShapeInv, FreshInv
  <1>2. /\ otp' = [otp EXCEPT ![c] = Gone] /\ tries' = [tries EXCEPT ![c] = 0]
        /\ Go(r, "update")
        /\ UNCHANGED <<pointer, mail, unpointed>>
        /\ overtaken' \in BOOLEAN /\ (~overtaken' => ~overtaken)
    BY <1>0 DEF DeleteOld, Delete, Overtake, TypeOK
  <1>3. /\ rq' \in [Request -> RequestState]
        /\ rq'[r].stage = "update" /\ rq'[r].code = c /\ rq'[r].new = rq[r].new
        /\ rq'[r].read = rq[r].read
        /\ \A q \in Request : q # r => rq'[q] = rq[q]
    BY <1>0, <1>2, GoShape DEF Stage
  <1>4. /\ otp' \in [Code -> Record] /\ tries' \in [Code -> 0..(MaxAttempts + 1)]
        /\ otp'[c] = Gone /\ tries'[c] = 0
        /\ \A d \in Code : d # c => otp'[d] = otp[d] /\ tries'[d] = tries[d]
    BY <1>1, <1>2, GoneIsRecord DEF TypeOK
  <1>5. ~Live(c)' /\ \A d \in Code \cup {NoCode} : Live(d)' => Live(d)
    BY <1>1, <1>4, GoneIsRecord DEF Live
  <1>6. TypeOK'
    BY <1>2, <1>3, <1>4 DEF TypeOK
  <1>7. ShapeInv'
    BY <1>1, <1>2, <1>3, <1>4 DEF ShapeInv
  <1>8. FreshInv'
    BY <1>0, <1>1, <1>2, <1>3, <1>5 DEF FreshInv, TypeOK, RequestState
  <1>9. SettledInv'
    BY <1>2, <1>3, <1>5 DEF SettledInv, TypeOK, RequestState
  <1>10. CountInv'
    BY <1>2, <1>4, <1>5, GoneIsRecord DEF CountInv
  <1>11. PointInv'
    BY <1>1, <1>2, <1>3, <1>5 DEF PointInv
  <1> QED
    BY <1>6, <1>7, <1>8, <1>9, <1>10, <1>11

\* Unless this send overtakes another, the pointer it moves named no live code
\* but its own.
LEMMA PointKeeps ==
  ASSUME IInv, NEW r \in Request, SaveRequestId(r)
  PROVE  IInv'
  <1> USE DEF IInv
  <1> DEFINE n == rq[r].new
  <1>1. rq[r].stage = "point" /\ n \in Code
    BY DEF SaveRequestId, TypeOK, RequestState, ShapeInv
  <1>2. /\ pointer' = [ttl |-> TTL, code |-> n]
        /\ mail' = [c \in Code |-> IF c = n THEN "sent"
                                   ELSE IF mail[c] = "sent" THEN "superseded" ELSE mail[c]]
        /\ UNCHANGED <<otp, tries, unpointed>>
    BY DEF SaveRequestId
  <1>3. /\ rq' \in [Request -> RequestState]
        /\ rq'[r] = Idle
        /\ \A q \in Request : q # r => rq'[q] = rq[q]
    BY DoneShape DEF SaveRequestId
  <1>4. /\ overtaken' \in BOOLEAN
        /\ ~overtaken' => ~overtaken /\ Standing \in {NoCode, rq[r].code, n}
    BY DEF SaveRequestId, Overtake, TypeOK
  <1> HIDE DEF n
  <1>5. \A c : Live(c)' = Live(c)
    BY <1>2 DEF Live
  <1>6. TypeOK'
    BY <1>1, <1>2, <1>3, <1>4 DEF TypeOK
  <1>7. ShapeInv'
    BY <1>1, <1>2, <1>3, IdleIsRequest DEF ShapeInv
  <1>8. FreshInv'
    BY <1>1, <1>2, <1>3, <1>5, IdleIsRequest DEF FreshInv, TypeOK, RequestState, ShapeInv, n
  <1>9. SettledInv'
    BY <1>3, <1>4, <1>5, IdleIsRequest DEF SettledInv
  <1>10. CountInv'
    BY <1>2, <1>4, <1>5 DEF CountInv
  <1>11. PointInv'
    <2> SUFFICES ASSUME ~overtaken', ~unpointed', NEW c \in Code, Live(c)
                 PROVE  pointer'.code = c
                        \/ \E q \in Request : rq'[q].stage = "point" /\ rq'[q].new = c
      BY <1>5 DEF PointInv
    <2>1. ~overtaken /\ ~unpointed /\ Standing \in {NoCode, rq[r].code, n}
      BY <1>2, <1>4
    <2>2. CASE pointer.code = c
      <3>1. c \in {NoCode, rq[r].code, n}
        BY <2>1, <2>2 DEF Standing
      <3>2. c # rq[r].code
        BY <2>1, <1>1 DEF SettledInv
      <3> QED
        BY <3>1, <3>2, <1>2
    <2>3. CASE \E q \in Request : rq[q].stage = "point" /\ rq[q].new = c
      BY <2>3, <1>2, <1>3 DEF n
    <2> QED
      BY <2>1, <2>2, <2>3 DEF PointInv
  <1> QED
    BY <1>6, <1>7, <1>8, <1>9, <1>10, <1>11

-----------------------------------------------------------------------------
(* Verification *)

\* The record after a wrong guess has its lifetime renewed and its attempts
\* counted.
LEMMA TriedIsRecord ==
  ASSUME NEW read \in Record, NEW n \in 0..MaxAttempts
  PROVE  /\ [read EXCEPT !.ttl = TTL, !.attempts = n] \in Record
         /\ [read EXCEPT !.ttl = TTL, !.attempts = n].ttl # 0
         /\ [read EXCEPT !.ttl = TTL, !.attempts = n].attempts = n
  <1>1. TTL \in 0..TTL /\ TTL # 0
    OBVIOUS
  <1> QED
    BY ONLY <1>1, read \in Record, n \in 0..MaxAttempts DEF Record

\* A wrong guess that overwrites nothing counts one more attempt.
LEMMA WrongKeeps ==
  ASSUME IInv, NEW r \in Request, WrongTry(r)
  PROVE  IInv'
  <1> USE DEF IInv
  <1> DEFINE c == rq[r].code
             record == [rq[r].read EXCEPT !.ttl = TTL, !.attempts = rq[r].read.attempts + 1]
  <1>1. /\ rq[r].stage = "wrong" /\ c \in Code /\ rq[r].read \in Record
        /\ rq[r].read.attempts < MaxAttempts
    BY DEF WrongTry, WriteTry, TypeOK, RequestState, ShapeInv
  <1>2. /\ record \in Record /\ record.ttl # 0
        /\ record.attempts = rq[r].read.attempts + 1
    <2>1. rq[r].read.attempts + 1 \in 0..MaxAttempts
      BY <1>1 DEF Record
    <2> QED
      BY <1>1, <2>1, TriedIsRecord
  <1>3. /\ otp' = [otp EXCEPT ![c] = record]
        /\ tries' = [tries EXCEPT ![c] = IF @ > MaxAttempts THEN @ ELSE @ + 1]
        /\ UNCHANGED <<pointer, mail, unpointed>>
    BY DEF WrongTry, WriteTry
  <1>4. /\ overtaken' \in BOOLEAN
        /\ ~overtaken' => ~overtaken /\ Live(c) /\ otp[c].attempts = rq[r].read.attempts
    BY DEF WrongTry, WriteTry, Changed, TypeOK
  <1>5. /\ rq' \in [Request -> RequestState]
        /\ rq'[r] = Idle
        /\ \A q \in Request : q # r => rq'[q] = rq[q]
    BY DoneShape DEF WrongTry, WriteTry
  <1>6. \A q \in Request : rq[q].stage \in {"pointed", "fresh", "resend", "update"} =>
            rq[q].new # c
    BY <1>1 DEF FreshInv
  <1> HIDE DEF c, record
  <1>7. /\ otp' \in [Code -> Record]
        /\ otp'[c] = record
        /\ \A d \in Code : d # c => otp'[d] = otp[d] /\ tries'[d] = tries[d]
    BY <1>1, <1>2, <1>3 DEF TypeOK
  <1>8. /\ tries' \in [Code -> 0..(MaxAttempts + 1)]
        /\ tries[c] <= MaxAttempts => tries'[c] = tries[c] + 1
    BY <1>1, <1>3 DEF TypeOK
  <1>9. \A d \in Code \cup {NoCode} : d # c => Live(d)' = Live(d)
    BY <1>7 DEF Live
  <1>10. TypeOK'
    BY <1>3, <1>4, <1>5, <1>7, <1>8 DEF TypeOK
  <1>11. ShapeInv'
    BY <1>2, <1>3, <1>5, <1>7, IdleIsRequest DEF ShapeInv
  <1>12. FreshInv'
    BY <1>3, <1>5, <1>6, <1>9, IdleIsRequest DEF FreshInv, ShapeInv, TypeOK, RequestState
  <1>13. SettledInv'
    BY <1>4, <1>5, <1>9, IdleIsRequest DEF SettledInv, TypeOK, RequestState
  <1>14. CountInv'
    <2> SUFFICES ASSUME ~overtaken', NEW d \in Code
                 PROVE  /\ tries'[d] <= otp'[d].attempts
                        /\ Live(d)' => mail[d] # "used"
                        /\ mail[d] # "reused"
      BY <1>3 DEF CountInv
    <2>1. CASE d = c
      <3>1. tries[c] <= rq[r].read.attempts /\ mail[c] \notin {"used", "reused"}
        BY <1>1, <1>4 DEF CountInv
      <3>2. tries[c] \in Nat /\ rq[r].read.attempts \in Nat
        BY <1>1 DEF TypeOK, Record
      <3>3. tries'[c] = tries[c] + 1
        BY <1>1, <1>8, <3>1, <3>2
      <3> QED
        BY <2>1, <3>1, <3>2, <3>3, <1>2, <1>7
    <2>2. CASE d # c
      BY <2>2, <1>4, <1>7, <1>9 DEF CountInv
    <2> QED
      BY <2>1, <2>2
  <1>15. PointInv'
    <2>1. ~overtaken' => \A d \in Code : Live(d)' => Live(d)
      BY <1>4, <1>9
    <2> QED
      BY <2>1, <1>1, <1>3, <1>4, <1>5 DEF PointInv
  <1> QED
    BY <1>10, <1>11, <1>12, <1>13, <1>14, <1>15

\* A code that is consumed unchanged was not used before, and dies.
LEMMA ConsumeKeeps ==
  ASSUME IInv, NEW r \in Request, DeleteOtp(r)
  PROVE  IInv'
  <1> USE DEF IInv
  <1>0. PICK c \in Code : c = rq[r].code
    BY DEF DeleteOtp, TypeOK, RequestState, ShapeInv
  <1>1. rq[r].stage = "right" /\ rq[r].new = NoCode
    BY DEF DeleteOtp, ShapeInv
  <1>2. /\ otp' = [otp EXCEPT ![c] = Gone] /\ tries' = [tries EXCEPT ![c] = 0]
        /\ mail' = [mail EXCEPT ![c] = IF @ \in {"used", "reused"} THEN "reused" ELSE "used"]
        /\ Go(r, "unpoint")
        /\ UNCHANGED <<pointer, unpointed>>
    BY <1>0 DEF DeleteOtp, Delete, Use
  <1>3. /\ overtaken' \in BOOLEAN
        /\ ~overtaken' => ~overtaken /\ Live(c)
    BY <1>0 DEF DeleteOtp, Changed, TypeOK
  <1>4. /\ rq' \in [Request -> RequestState]
        /\ rq'[r].stage = "unpoint" /\ rq'[r].code = c /\ rq'[r].new = NoCode
        /\ rq'[r].read = rq[r].read
        /\ \A q \in Request : q # r => rq'[q] = rq[q]
    BY <1>0, <1>1, <1>2, GoShape DEF Stage
  <1>5. /\ otp' \in [Code -> Record] /\ tries' \in [Code -> 0..(MaxAttempts + 1)]
        /\ otp'[c] = Gone /\ tries'[c] = 0
        /\ \A d \in Code : d # c => otp'[d] = otp[d] /\ tries'[d] = tries[d]
                                    /\ mail'[d] = mail[d]
    BY <1>1, <1>2, GoneIsRecord DEF TypeOK
  <1>6. ~Live(c)' /\ \A d \in Code \cup {NoCode} : Live(d)' => Live(d)
    BY <1>1, <1>5, GoneIsRecord DEF Live
  <1>7. TypeOK'
    <2>1. mail' \in [Code -> {"unsent", "sent", "superseded", "used", "reused"}]
      BY <1>2 DEF TypeOK
    <2>2. /\ pointer' \in [ttl : 0..TTL, code : Code \cup {NoCode}]
          /\ unpointed' \in BOOLEAN
      BY <1>2 DEF TypeOK
    <2> QED
      BY <2>1, <2>2, <1>3, <1>4, <1>5 DEF TypeOK
  <1>8. ShapeInv'
    BY <1>1, <1>2, <1>4, <1>5 DEF ShapeInv
  <1>9. FreshInv'
    <2>1. \A q \in Request : rq'[q].code = rq[q].code /\ rq'[q].new = rq[q].new
      BY <1>0, <1>1, <1>4
    <2>2. \A q \in Request : rq'[q].stage = rq[q].stage \/ rq'[q].stage = "unpoint"
      BY <1>4
    <2>3. \A q \in Request : ~Live(rq[q].new) => ~Live(rq[q].new)'
      BY <2>1, <1>6 DEF TypeOK, RequestState
    <2> QED
      BY <2>1, <2>2, <2>3, <1>2 DEF FreshInv
  <1>10. SettledInv'
    BY <1>3, <1>4, <1>6 DEF SettledInv, TypeOK, RequestState
  <1>11. CountInv'
    <2>1. ~overtaken' => mail'[c] = "used"
      BY <1>1, <1>2, <1>3 DEF CountInv, TypeOK
    <2> QED
      BY <2>1, <1>3, <1>5, <1>6, GoneIsRecord DEF CountInv
  <1>12. PointInv'
    BY <1>1, <1>2, <1>3, <1>4, <1>6 DEF PointInv
  <1> QED
    BY <1>7, <1>8, <1>9, <1>10, <1>11, <1>12

\* The pointer that goes named a dead code, unless a send was overtaken.
LEMMA UnpointKeeps ==
  ASSUME IInv, NEW r \in Request, DeleteOtpByEmailAndPurpose(r)
  PROVE  IInv'
  <1> USE DEF IInv
  <1>1. rq[r].stage = "unpoint" /\ rq[r].new = NoCode
    BY DEF DeleteOtpByEmailAndPurpose, ShapeInv
  <1>2. pointer' = NoPointer /\ UNCHANGED <<otp, tries, mail, unpointed>>
    BY DEF DeleteOtpByEmailAndPurpose
  <1>3. /\ rq' \in [Request -> RequestState]
        /\ rq'[r] = Idle
        /\ \A q \in Request : q # r => rq'[q] = rq[q]
    BY DoneShape DEF DeleteOtpByEmailAndPurpose
  <1>4. /\ overtaken' \in BOOLEAN
        /\ ~overtaken' => ~overtaken /\ Standing \in {NoCode, rq[r].code}
    BY <1>1 DEF DeleteOtpByEmailAndPurpose, Overtake, TypeOK
  <1>5. \A c : Live(c)' = Live(c)
    BY <1>2 DEF Live
  <1>6. TypeOK'
    BY <1>2, <1>3, <1>4 DEF TypeOK, NoPointer
  <1>7. ShapeInv'
    BY <1>2, <1>3, IdleIsRequest DEF ShapeInv, NoPointer
  <1>8. FreshInv'
    BY <1>2, <1>3, <1>5, IdleIsRequest DEF FreshInv, ShapeInv, NoPointer, TypeOK, RequestState
  <1>9. SettledInv' /\ CountInv'
    BY <1>2, <1>3, <1>4, <1>5, IdleIsRequest DEF SettledInv, CountInv
  <1>10. PointInv'
    <2>1. ~overtaken' => ~overtaken /\ ~Live(pointer.code)
      BY <1>1, <1>4 DEF Standing, SettledInv, Live
    <2> QED
      BY <2>1, <1>1, <1>2, <1>3, <1>5 DEF PointInv
  <1> QED
    BY <1>6, <1>7, <1>8, <1>9, <1>10

-----------------------------------------------------------------------------
(* The clock *)

\* A tick ends a record at the end of its lifetime and keeps its counts
\* until then.
LEMMA OlderIsRecord ==
  ASSUME NEW record \in Record
  PROVE  /\ Older(record) \in Record
         /\ Older(record).ttl > 0 <=> record.ttl > 1
         /\ Older(record).ttl = 0 => Older(record) = Gone
         /\ record.ttl > 1 => Older(record).attempts = record.attempts
  <1>1. CASE record.ttl <= 1
    BY <1>1, GoneIsRecord DEF Older, Record
  <1>2. CASE ~(record.ttl <= 1)
    <2> DEFINE older == [record EXCEPT !.ttl = record.ttl - 1, !.wait = Age(record.wait)]
    <2>1. /\ older \in Record /\ older.ttl = record.ttl - 1 /\ older.attempts = record.attempts
      <3>1. record.ttl - 1 \in 0..TTL /\ Age(record.wait) \in 0..Cooldown
        BY <1>2 DEF Record, Age
      <3> QED
        BY ONLY <3>1, record \in Record DEF Record
    <2>2. Older(record) = older
      BY <1>2 DEF Older
    <2> HIDE DEF older
    <2> QED
      BY <1>2, <2>1, <2>2 DEF Record
  <1> QED
    BY <1>1, <1>2

\* Expiry takes the guesses of a record with it: nothing that is gone
\* counts.
LEMMA TickKeeps ==
  ASSUME IInv, Tick
  PROVE  IInv'
  <1> USE DEF IInv
  <1>1. /\ otp' = [c \in Code |-> Older(otp[c])]
        /\ tries' = [c \in Code |-> IF otp[c].ttl > 1 THEN tries[c] ELSE 0]
        /\ pointer' = IF pointer.ttl <= 1 THEN NoPointer ELSE [pointer EXCEPT !.ttl = @ - 1]
        /\ rq' = [r \in Request |-> [rq[r] EXCEPT !.read.wait = Age(@)]]
        /\ UNCHANGED <<mail, overtaken>>
    BY DEF Tick
  <1>2. \A c \in Code :
            /\ otp'[c] \in Record
            /\ Live(c)' <=> otp[c].ttl > 1
            /\ otp'[c].ttl = 0 => otp'[c] = Gone
            /\ otp[c].ttl > 1 => otp'[c].attempts = otp[c].attempts
    BY <1>1, OlderIsRecord DEF Live, TypeOK
  <1>3. \A c \in Code \cup {NoCode} : Live(c)' => Live(c)
    BY <1>2 DEF Live, TypeOK, Record
  <1>4. rq' \in [Request -> RequestState]
        /\ \A r \in Request :
            /\ rq'[r].stage = rq[r].stage /\ rq'[r].code = rq[r].code
            /\ rq'[r].new = rq[r].new
            /\ rq'[r].read.attempts = rq[r].read.attempts
            /\ rq'[r].read.resends = rq[r].read.resends
    <2> DEFINE later(r) == [rq[r] EXCEPT !.read.wait = Age(@)]
    <2>1. ASSUME NEW r \in Request
          PROVE  /\ later(r) \in RequestState
                 /\ later(r).stage = rq[r].stage /\ later(r).code = rq[r].code
                 /\ later(r).new = rq[r].new
                 /\ later(r).read.attempts = rq[r].read.attempts
                 /\ later(r).read.resends = rq[r].read.resends
      <3>1. rq[r] \in RequestState /\ rq[r].read \in Record
        BY DEF TypeOK, RequestState
      <3>2. Age(rq[r].read.wait) \in 0..Cooldown
        BY <3>1 DEF Record, Age
      <3> QED
        BY <3>1, <3>2 DEF RequestState, Record
    <2>2. rq' = [r \in Request |-> later(r)]
      BY <1>1
    <2> HIDE DEF later
    <2> QED
      BY <2>1, <2>2
  <1>5. /\ pointer' \in [ttl : 0..TTL, code : Code \cup {NoCode}]
        /\ pointer.ttl <= 1 => pointer'.code = NoCode /\ pointer'.ttl = 0
        /\ pointer.ttl > 1 => pointer'.code = pointer.code /\ pointer'.ttl > 0
    BY <1>1 DEF TypeOK, NoPointer
  <1>6. TypeOK'
    <2>1. otp' \in [Code -> Record]
      BY <1>1, <1>2
    <2>2. tries' \in [Code -> 0..(MaxAttempts + 1)]
      BY <1>1 DEF TypeOK
    <2>3. unpointed' \in BOOLEAN
      BY DEF Tick, TypeOK
    <2> QED
      BY <2>1, <2>2, <2>3, <1>1, <1>4, <1>5 DEF TypeOK
  <1>7. ShapeInv'
    BY <1>2, <1>4, <1>5 DEF ShapeInv, TypeOK
  <1>8. FreshInv'
    BY <1>3, <1>4, <1>5 DEF FreshInv, ShapeInv, TypeOK, RequestState
  <1>9. SettledInv'
    BY <1>1, <1>3, <1>4 DEF SettledInv, TypeOK, RequestState
  <1>10. CountInv'
    <2> SUFFICES ASSUME ~overtaken, NEW c \in Code
                 PROVE  /\ tries'[c] <= otp'[c].attempts
                        /\ Live(c)' => mail[c] # "used"
                        /\ mail[c] # "reused"
      BY <1>1 DEF CountInv
    <2>1. tries'[c] <= otp'[c].attempts
      BY <1>1, <1>2 DEF CountInv, Record, TypeOK
    <2> QED
      BY <2>1, <1>3 DEF CountInv
  <1>11. PointInv'
    <2> SUFFICES ASSUME ~overtaken, ~unpointed', NEW c \in Code, Live(c)'
                 PROVE  pointer'.code = c
                        \/ \E r \in Request : rq'[r].stage = "point" /\ rq'[r].new = c
      BY <1>1 DEF PointInv
    <2>1. ~unpointed /\ ~(Standing # NoCode /\ pointer.ttl = 1 /\ otp[Standing].ttl > 1)
      BY DEF Tick
    <2>2. Live(c) /\ otp[c].ttl > 1
      BY <1>2, <1>3
    <2>3. CASE pointer.code = c
      <3>1. Standing = c
        BY <2>2, <2>3 DEF Standing
      <3>2. pointer.ttl # 0 /\ pointer.ttl # 1
        BY <2>1, <2>2, <2>3, <3>1 DEF ShapeInv, Live
      <3> QED
        BY <2>3, <3>2, <1>5 DEF TypeOK
    <2>4. CASE \E r \in Request : rq[r].stage = "point" /\ rq[r].new = c
      BY <2>4, <1>4
    <2> QED
      BY <2>1, <2>2, <2>3, <2>4 DEF PointInv
  <1> QED
    BY <1>6, <1>7, <1>8, <1>9, <1>10, <1>11

-----------------------------------------------------------------------------
(* The inductive invariant, and what follows from it *)

\* The invariant holds of the initial states.
LEMMA InitIInv == Init => IInv
  <1> SUFFICES ASSUME Init PROVE IInv
    OBVIOUS
  <1>1. TypeOK
    <2>1. 0 \in 0..(MaxAttempts + 1) /\ NoPointer \in [ttl : 0..TTL, code : Code \cup {NoCode}]
      BY DEF NoPointer
    <2> QED
      BY <2>1, GoneIsRecord, IdleIsRequest DEF Init, TypeOK
  <1>2. ShapeInv /\ FreshInv /\ SettledInv
    BY IdleIsRequest DEF Init, ShapeInv, FreshInv, SettledInv, NoPointer
  <1>3. CountInv /\ PointInv
    BY GoneIsRecord DEF Init, CountInv, PointInv, Live
  <1> QED
    BY <1>1, <1>2, <1>3 DEF IInv

\* Every step keeps the invariant: one case for each action, by the lemma
\* about it.
LEMMA NextKeeps == IInv /\ [Next]_vars => IInv'
  <1> SUFFICES ASSUME IInv, [Next]_vars PROVE IInv'
    OBVIOUS
  <1>1. CASE UNCHANGED vars
    BY <1>1 DEF vars, IInv, TypeOK, ShapeInv, FreshInv, SettledInv, CountInv, PointInv, Live
  <1>2. CASE Next
    <2>1. ASSUME NEW r \in Request, Step(r) PROVE IInv'
      BY <2>1, GetKeeps, SendKeeps, DeleteOldKeeps, PointKeeps, WrongKeeps, ConsumeKeeps,
         UnpointKeeps, FailKeeps DEF Step
    <2> QED
      BY <1>2, <2>1, LookKeeps, VerifyKeeps, TickKeeps DEF Next
  <1> QED
    BY <1>1, <1>2

\* In every reachable state the records count what was tried, a replaced or
\* consumed code stays dead, and a live code is pointed to, until the first
\* overtaking or the first lost pointer.
THEOREM Inductive == Spec => []IInv
  BY InitIInv, NextKeeps, PTL DEF Spec

\* The records keep their shape; in particular, no code is ever stored with
\* more attempts or resends than the limits allow, whatever overlaps.
THEOREM TypeCorrect == Spec => []TypeOK
  <1>1. IInv => TypeOK
    BY DEF IInv
  <1> QED
    BY <1>1, Inductive, PTL

\* The limit of wrong guesses for a code, for any number of requests that do
\* not overwrite one another.
THEOREM GuessesAreBounded == Spec => []TriesBounded
  <1>1. ASSUME IInv, ~overtaken, NEW c \in Code PROVE tries[c] <= MaxAttempts
    <2>1. tries[c] \in Nat /\ otp[c].attempts \in 0..MaxAttempts
      BY <1>1 DEF IInv, TypeOK, Record
    <2>2. tries[c] <= otp[c].attempts
      BY <1>1 DEF IInv, CountInv
    <2> QED
      BY <2>1, <2>2
  <1>2. IInv => TriesBounded
    BY <1>1 DEF TriesBounded
  <1> QED
    BY <1>2, Inductive, PTL

\* A code is consumed once, under the same condition.
THEOREM CodesAreUsedOnce == Spec => []SingleUse
  <1>1. IInv => SingleUse
    BY DEF IInv, CountInv, SingleUse
  <1> QED
    BY <1>1, Inductive, PTL

\* Two live codes have one of the named causes.
THEOREM CodesAreReplaced == Spec => []OneLiveCode
  <1>1. IInv => OneLiveCode
    BY DEF IInv, PointInv, OneLiveCode
  <1> QED
    BY <1>1, Inductive, PTL
=============================================================================
