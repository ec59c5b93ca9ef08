-------------------------- MODULE AuthSessionsProofs --------------------------
(***************************************************************************)
(* Proofs about AuthSessions, for any number of overlapping requests, any  *)
(* lifetime of a session and any bounds of the clock and of the changes.   *)
(***************************************************************************)
EXTENDS AuthSessions, TLAPS

USE SessionBounds, FailAssumption

-----------------------------------------------------------------------------
(* Shapes *)

\* No second is the token of a request that has none; the first second is
\* one.
LEMMA TokensAreSeconds == NoToken \notin Second /\ 1 \in Second
  BY DEF NoToken, Second

\* The state of a free slot is the state of a request.
LEMMA IdleIsRequest ==
  SessionIdle \in SessionRequest /\ SessionIdle.stage = "idle" /\ SessionIdle.token = NoToken
  BY DEF SessionIdle, SessionRequest, SessionStage, Version

\* Ending a request frees its slot and leaves the other slots alone.
LEMMA SessionDoneShape ==
  ASSUME SessionTypeOK, NEW r \in Request, SessionDone(r)
  PROVE  /\ sessionRq' \in [Request -> SessionRequest]
         /\ sessionRq'[r].stage = "idle" /\ sessionRq'[r].token = NoToken
         /\ \A q \in Request : q # r => sessionRq'[q] = sessionRq[q]
  BY IdleIsRequest DEF SessionTypeOK, SessionDone

\* A request that goes on keeps its token; the other slots are left alone.
LEMMA SessionGoShape ==
  ASSUME SessionTypeOK, NEW r \in Request, NEW stage \in SessionStage, SessionGo(r, stage)
  PROVE  /\ sessionRq' \in [Request -> SessionRequest]
         /\ sessionRq'[r].stage = stage /\ sessionRq'[r].token = sessionRq[r].token
         /\ \A q \in Request : q # r => sessionRq'[q] = sessionRq[q]
  <1> DEFINE next == [sessionRq[r] EXCEPT !.stage = stage]
  <1>1. next \in SessionRequest /\ next.stage = stage /\ next.token = sessionRq[r].token
    <2>1. sessionRq[r] \in SessionRequest
      BY DEF SessionTypeOK
    <2> QED
      BY ONLY <2>1, stage \in SessionStage DEF SessionRequest
  <1>2. sessionRq' = [sessionRq EXCEPT ![r] = next]
    BY DEF SessionGo
  <1> HIDE DEF next
  <1> QED
    BY <1>1, <1>2 DEF SessionTypeOK

\* A request starts in a free slot, with the token it was sent.
LEMMA StartShape ==
  ASSUME SessionTypeOK, NEW r \in Request, NEW stage \in SessionStage, NEW token \in Second \cup {NoToken},
         NEW signsIn \in BOOLEAN, Start(r, stage, token, signsIn)
  PROVE  /\ sessionRq[r].stage = "idle"
         /\ sessionRq' \in [Request -> SessionRequest]
         /\ sessionRq'[r].stage = stage /\ sessionRq'[r].token = token
         /\ \A q \in Request : q # r => sessionRq'[q] = sessionRq[q]
  <1> DEFINE version == IF token = NoToken THEN password ELSE session[token].password
             state == [stage |-> stage, token |-> token, signsIn |-> signsIn,
                       password |-> version]
  <1>1. version \in Version
    BY DEF SessionTypeOK, SessionRow
  <1> HIDE DEF version
  <1>2. state \in SessionRequest
    BY <1>1 DEF SessionRequest
  <1>3. sessionRq[r].stage = "idle" /\ sessionRq' = [sessionRq EXCEPT ![r] = state]
    BY DEF Start, version
  <1> QED
    BY <1>2, <1>3 DEF SessionTypeOK

\* Rows that are revoked keep everything else.
LEMMA RevokedRow ==
  ASSUME NEW row \in SessionRow
  PROVE  /\ [row EXCEPT !.status = "revoked"] \in SessionRow
         /\ [row EXCEPT !.status = "revoked"].status = "revoked"
         /\ [row EXCEPT !.status = "revoked"].password = row.password
         /\ [row EXCEPT !.status = "revoked"].late = row.late
         /\ [row EXCEPT !.status = "revoked"].heirs = row.heirs
  BY DEF SessionRow

-----------------------------------------------------------------------------
(* Steps that write no session *)

\* A request moves on; the rows, the password and the history stay.
LEMMA MoveKeeps ==
  ASSUME SessionIInv, NEW r \in Request,
         sessionRq' \in [Request -> SessionRequest],
         \A q \in Request : q # r => sessionRq'[q] = sessionRq[q],
         now' \in Second, active' \in BOOLEAN,
         UNCHANGED <<password, session, twice>>,
         lost' \in BOOLEAN, lost => lost',
         sessionRq[r].stage = "written" => lost',
         sessionRq'[r].stage \in {"found", "leaving"} => sessionRq'[r].token \in Second
                                                 /\ session[sessionRq'[r].token].status # "none",
         sessionRq'[r].stage \notin {"found", "leaving"} => sessionRq'[r].token = NoToken,
         sessionRq'[r].stage \in {"idle", "checked", "changing", "found", "leaving"},
         sessionRq'[r].stage = "found" /\ ~twice =>
             /\ LiveSession(sessionRq'[r].token)
             /\ \A q \in Request \ {r} : sessionRq[q].stage = "found" => sessionRq[q].token # sessionRq'[r].token
  PROVE  SessionIInv'
  <1> USE DEF SessionIInv
  <1>1. SessionTypeOK'
    BY DEF SessionTypeOK
  <1>2. SessionShapeInv'
    BY TokensAreSeconds DEF SessionShapeInv
  <1>3. HeirInv'
    <2> SUFFICES ASSUME ~twice PROVE HeirInv'
      BY DEF HeirInv
    <2>1. \A q \in Request : sessionRq'[q].stage = "rotated" => q # r
      OBVIOUS
    <2>2. sessionRq'[r].stage = "found" => \A q \in Request \ {r} :
              sessionRq[q].stage \in {"found", "rotated"} => sessionRq[q].token # sessionRq'[r].token
      BY DEF HeirInv
    <2> QED
      BY <2>1, <2>2 DEF HeirInv, LiveSession
  <1>4. OldSessionHasCause'
    BY DEF OldSessionHasCause, LiveSession
  <1> QED
    BY <1>1, <1>2, <1>3, <1>4

\* Checks, reads and requests that end move their own slot alone.
LEMMA ReadKeeps ==
  ASSUME SessionIInv, NEW r \in Request,
         \/ LoginCheck(r) \/ ChangeStart(r) \/ SessionFail(r)
         \/ \E t \in Second : Logout(r, t) \/ RevokeFind(r, t)
  PROVE  SessionIInv'
  <1> USE DEF SessionIInv
  <1>1. CASE LoginCheck(r)
    BY <1>1, StartShape, MoveKeeps, TokensAreSeconds DEF LoginCheck, SessionStage, SessionTypeOK
  <1>2. CASE ChangeStart(r)
    <2>1. PICK signsIn \in BOOLEAN : Start(r, "changing", NoToken, signsIn)
      BY <1>2 DEF ChangeStart
    <2> QED
      BY <1>2, <2>1, StartShape, MoveKeeps, TokensAreSeconds DEF ChangeStart, SessionStage, SessionTypeOK
  <1>3. CASE SessionFail(r)
    <2>1. lost' \in BOOLEAN /\ (lost => lost') /\ (sessionRq[r].stage = "written" => lost')
      BY <1>3 DEF SessionFail, SessionTypeOK
    <2> QED
      BY <1>3, <2>1, SessionDoneShape, MoveKeeps DEF SessionFail, SessionTypeOK
  <1>4. CASE \E t \in Second : Logout(r, t) \/ RevokeFind(r, t)
    <2>1. PICK t \in Second : Logout(r, t) \/ RevokeFind(r, t)
      BY <1>4
    <2>2. /\ sessionRq[r].stage = "idle" /\ sessionRq' \in [Request -> SessionRequest]
          /\ sessionRq'[r].stage = "leaving" /\ sessionRq'[r].token = t
          /\ \A q \in Request : q # r => sessionRq'[q] = sessionRq[q]
      BY <2>1, StartShape DEF Logout, RevokeFind, SessionStage
    <2>3. /\ session[t].status # "none" /\ t # NoToken
          /\ UNCHANGED <<now, active, password, session, lost, twice>>
      BY <2>1, TokensAreSeconds DEF Logout, RevokeFind, LiveSession
    <2> QED
      BY <2>2, <2>3, MoveKeeps DEF SessionTypeOK
  <1> QED
    BY <1>1, <1>2, <1>3, <1>4

\* A refresh finds its session: nobody else holds the token, or the step says so.
LEMMA FindKeeps ==
  ASSUME SessionIInv, NEW r \in Request, NEW t \in Second, RefreshFind(r, t)
  PROVE  SessionIInv'
  <1> USE DEF SessionIInv
  <1>1. /\ LiveSession(t) /\ sessionRq[r].stage = "idle"
        /\ sessionRq' \in [Request -> SessionRequest]
        /\ sessionRq'[r].stage = "found" /\ sessionRq'[r].token = t
        /\ \A q \in Request : q # r => sessionRq'[q] = sessionRq[q]
        /\ UNCHANGED <<now, active, password, session, lost>>
    BY StartShape DEF RefreshFind, SessionStage
  <1>2. /\ twice' \in BOOLEAN
        /\ ~twice' => ~twice /\ \A q \in Request : sessionRq[q].stage = "found" => sessionRq[q].token # t
    BY DEF RefreshFind, SessionTypeOK
  <1>3. SessionTypeOK'
    BY <1>1, <1>2 DEF SessionTypeOK
  <1>4. SessionShapeInv'
    BY <1>1, TokensAreSeconds DEF SessionShapeInv, LiveSession
  <1>5. HeirInv'
    <2> SUFFICES ASSUME ~twice' PROVE HeirInv'
      BY DEF HeirInv
    <2>1. \A q \in Request : sessionRq[q].stage \in {"found", "rotated"} => sessionRq[q].token # t
      BY <1>1, <1>2 DEF HeirInv
    <2>2. session[t].heirs = "none"
      BY <1>1, <1>2 DEF HeirInv
    <2> QED
      BY <2>1, <2>2, <1>1, <1>2 DEF HeirInv, LiveSession
  <1>6. OldSessionHasCause'
    BY <1>1 DEF OldSessionHasCause, LiveSession
  <1> QED
    BY <1>3, <1>4, <1>5, <1>6

\* The clock and isActive bear on no invariant.
LEMMA WorldKeeps ==
  ASSUME SessionIInv, SetActive \/ SessionTick
  PROVE  SessionIInv'
  <1> USE DEF SessionIInv
  <1>1. /\ UNCHANGED <<password, session, sessionRq, lost, twice>>
        /\ now' \in Second /\ active' \in BOOLEAN
    <2>1. CASE SetActive
      BY <2>1 DEF SetActive, SessionTypeOK
    <2>2. CASE SessionTick
      BY <2>2 DEF SessionTick, SessionTypeOK, Second
    <2> QED
      BY <2>1, <2>2
  <1>2. SessionTypeOK'
    BY <1>1 DEF SessionTypeOK
  <1>3. SessionShapeInv' /\ HeirInv' /\ OldSessionHasCause'
    BY <1>1 DEF SessionShapeInv, HeirInv, OldSessionHasCause, LiveSession
  <1> QED
    BY <1>2, <1>3

\* A profile that brings a password leaves the sessions and the requests alone,
\* and is a cause itself.
LEMMA ProfileKeeps ==
  ASSUME SessionIInv, UpdateProfile
  PROVE  SessionIInv'
  <1> USE DEF SessionIInv
  <1>1. /\ UNCHANGED <<now, active, session, sessionRq, twice>>
        /\ password' \in Version /\ lost' = TRUE
    BY DEF UpdateProfile, SessionTypeOK, Version
  <1>2. SessionTypeOK'
    BY <1>1 DEF SessionTypeOK
  <1>3. SessionShapeInv' /\ HeirInv' /\ OldSessionHasCause'
    BY <1>1 DEF SessionShapeInv, HeirInv, OldSessionHasCause, LiveSession
  <1> QED
    BY <1>2, <1>3

\* The UPDATE of the password makes every live session an old one; the
\* request that wrote it is the cause.
LEMMA ChangeWriteKeeps ==
  ASSUME SessionIInv, NEW r \in Request, ChangeWrite(r)
  PROVE  SessionIInv'
  <1> USE DEF SessionIInv
  <1> DEFINE next == [sessionRq[r] EXCEPT !.stage = "written", !.password = password + 1]
  <1>1. password + 1 \in Version
    BY DEF ChangeWrite, SessionTypeOK, Version
  <1>2. next \in SessionRequest /\ next.stage = "written" /\ next.token = sessionRq[r].token
    <2>1. sessionRq[r] \in SessionRequest
      BY DEF SessionTypeOK
    <2> QED
      BY ONLY <1>1, <2>1 DEF SessionRequest, SessionStage
  <1>3. /\ sessionRq[r].stage = "changing" /\ sessionRq' = [sessionRq EXCEPT ![r] = next]
        /\ password' = password + 1
        /\ UNCHANGED <<now, active, session, lost, twice>>
    BY DEF ChangeWrite
  <1> HIDE DEF next
  <1>4. /\ sessionRq' \in [Request -> SessionRequest]
        /\ sessionRq'[r].stage = "written" /\ sessionRq'[r].token = sessionRq[r].token
        /\ \A q \in Request : q # r => sessionRq'[q] = sessionRq[q]
    BY <1>2, <1>3 DEF SessionTypeOK
  <1>5. SessionTypeOK'
    BY <1>1, <1>3, <1>4 DEF SessionTypeOK
  <1>6. SessionShapeInv'
    BY <1>3, <1>4 DEF SessionShapeInv
  <1>7. HeirInv'
    BY <1>3, <1>4 DEF HeirInv, LiveSession
  <1>8. OldSessionHasCause'
    BY <1>4 DEF OldSessionHasCause
  <1> QED
    BY <1>5, <1>6, <1>7, <1>8

-----------------------------------------------------------------------------
(* Steps that write sessions *)

\* Some rows are revoked, and the request that does it moves on.
LEMMA RevokingKeeps ==
  ASSUME SessionIInv, NEW r \in Request,
         sessionRq' \in [Request -> SessionRequest],
         \A q \in Request : q # r => sessionRq'[q] = sessionRq[q],
         session' \in [Second -> SessionRow],
         \A t \in Second :
             /\ session'[t].password = session[t].password
             /\ session'[t].late = session[t].late /\ session'[t].heirs = session[t].heirs
             /\ session'[t].status = session[t].status
                \/ (session[t].status # "none" /\ session'[t].status = "revoked"),
         UNCHANGED <<now, active, password, lost, twice>>,
         \/ sessionRq'[r].stage = "idle" /\ sessionRq'[r].token = NoToken
         \/ sessionRq'[r].stage = "ended" /\ sessionRq'[r].token = NoToken
         \/ sessionRq[r].stage = "found" /\ sessionRq'[r].stage = "rotated" /\ sessionRq'[r].token = sessionRq[r].token
            /\ session'[sessionRq[r].token].status = "revoked",
         sessionRq[r].stage = "written" => \A t \in Second : ~LiveSession(t)'
  PROVE  SessionIInv'
  <1> USE DEF SessionIInv
  <1>1. SessionTypeOK'
    BY DEF SessionTypeOK
  <1>2. \A q \in Request : sessionRq[q].token # NoToken => sessionRq[q].token \in Second
    BY DEF SessionTypeOK, SessionRequest
  <1>3. SessionShapeInv'
    BY <1>2 DEF SessionShapeInv
  <1>4. \A t \in Second : LiveSession(t)' => LiveSession(t)
    BY DEF LiveSession
  <1>5. HeirInv'
    <2> SUFFICES ASSUME ~twice PROVE HeirInv'
      BY DEF HeirInv
    <2>1. \A q \in Request : sessionRq'[q].stage \in {"found", "rotated"} =>
              /\ sessionRq[q].stage \in {"found", "rotated"} /\ sessionRq'[q].token = sessionRq[q].token
              /\ sessionRq[q].token \in Second
      BY <1>2 DEF SessionShapeInv
    <2>2. ASSUME NEW q \in Request, sessionRq'[q].stage = "rotated"
          PROVE  session'[sessionRq'[q].token].status # "live"
      BY <2>1, <2>2, <1>4 DEF HeirInv, LiveSession
    <2>3. ASSUME NEW q \in Request, sessionRq'[q].stage \in {"found", "rotated"}
          PROVE  /\ session'[sessionRq'[q].token].heirs = "none"
                 /\ \A p \in Request \ {q} : sessionRq'[p].stage \in {"found", "rotated"} =>
                        sessionRq'[p].token # sessionRq'[q].token
      BY <2>1, <2>3 DEF HeirInv
    <2>4. ASSUME NEW t \in Second
          PROVE  /\ LiveSession(t)' => session'[t].heirs = "none"
                 /\ session'[t].status = "none" => session'[t].heirs = "none"
                 /\ session'[t].heirs # "more"
      BY <1>4 DEF HeirInv
    <2> QED
      BY <2>2, <2>3, <2>4 DEF HeirInv, LiveSession
  <1>6. OldSessionHasCause'
    BY <1>4 DEF OldSessionHasCause
  <1> QED
    BY <1>1, <1>3, <1>5, <1>6

\* Revoking a session ends that one, and rewrites no history of any.
LEMMA RevokeShape ==
  ASSUME SessionTypeOK, NEW t \in Second, session[t].status # "none", Revoke(t)
  PROVE  /\ session' \in [Second -> SessionRow]
         /\ session'[t].status = "revoked"
         /\ \A u \in Second :
                /\ session'[u].password = session[u].password
                /\ session'[u].late = session[u].late /\ session'[u].heirs = session[u].heirs
                /\ session'[u].status = session[u].status
                   \/ (session[u].status # "none" /\ session'[u].status = "revoked")
  <1> DEFINE revoked == [session[t] EXCEPT !.status = "revoked"]
  <1>1. /\ revoked \in SessionRow /\ revoked.status = "revoked"
        /\ revoked.password = session[t].password /\ revoked.late = session[t].late
        /\ revoked.heirs = session[t].heirs
    BY RevokedRow DEF SessionTypeOK
  <1>2. session' = [session EXCEPT ![t] = revoked]
    BY DEF Revoke
  <1> HIDE DEF revoked
  <1> QED
    BY <1>1, <1>2 DEF SessionTypeOK

\* refresh and logout revoke the session they found, whatever became of it
\* since.
LEMMA RevokeKeeps ==
  ASSUME SessionIInv, NEW r \in Request, RefreshRevoke(r) \/ RevokeSession(r)
  PROVE  SessionIInv'
  <1> USE DEF SessionIInv
  <1>1. PICK t \in Second : t = sessionRq[r].token /\ session[t].status # "none"
    BY DEF RefreshRevoke, RevokeSession, SessionShapeInv, SessionTypeOK, SessionRequest
  <1>2. CASE RefreshRevoke(r)
    BY <1>1, <1>2, RevokeShape, SessionGoShape, RevokingKeeps DEF RefreshRevoke, SessionStage
  <1>3. CASE RevokeSession(r)
    BY <1>1, <1>3, RevokeShape, SessionDoneShape, RevokingKeeps DEF RevokeSession
  <1> QED
    BY <1>2, <1>3

\* Ending the sessions of the user leaves none live.
LEMMA InvalidateKeeps ==
  ASSUME SessionIInv, NEW r \in Request, InvalidateUserSessions(r)
  PROVE  SessionIInv'
  <1> USE DEF SessionIInv
  <1>1. /\ sessionRq[r].stage = "written" /\ sessionRq[r].token = NoToken
        /\ session' = [t \in Second |-> IF LiveSession(t) THEN [session[t] EXCEPT !.status = "revoked"]
                                                  ELSE session[t]]
        /\ SessionGo(r, "ended") \/ SessionDone(r)
        /\ UNCHANGED <<now, active, password, lost, twice>>
    BY DEF InvalidateUserSessions, SessionShapeInv
  <1>2. ASSUME NEW t \in Second
        PROVE  /\ session'[t] \in SessionRow /\ session'[t].status # "live"
               /\ session'[t].password = session[t].password
               /\ session'[t].late = session[t].late /\ session'[t].heirs = session[t].heirs
               /\ session'[t].status = session[t].status
                  \/ (session[t].status # "none" /\ session'[t].status = "revoked")
    <2>1. session[t] \in SessionRow
      BY DEF SessionTypeOK
    <2>2. CASE LiveSession(t)
      <3>1. session'[t] = [session[t] EXCEPT !.status = "revoked"]
        BY <1>1, <2>2
      <3> QED
        BY <2>1, <2>2, <3>1, RevokedRow DEF LiveSession
    <2>3. CASE ~LiveSession(t)
      BY <1>1, <2>1, <2>3 DEF LiveSession
    <2> QED
      BY <2>2, <2>3
  <1>3. session' \in [Second -> SessionRow] /\ \A t \in Second : ~LiveSession(t)'
    BY <1>1, <1>2 DEF LiveSession
  <1>4. /\ sessionRq' \in [Request -> SessionRequest]
        /\ sessionRq'[r].stage \in {"idle", "ended"} /\ sessionRq'[r].token = NoToken
        /\ \A q \in Request : q # r => sessionRq'[q] = sessionRq[q]
    BY <1>1, SessionDoneShape, SessionGoShape DEF SessionStage
  <1> QED
    BY <1>1, <1>2, <1>3, <1>4, RevokingKeeps

\* A session is created, or its second is taken: the refresh that made it has
\* revoked the one it came from, and is its only heir.
LEMMA CreateKeeps ==
  ASSUME SessionIInv, NEW r \in Request, LoginCreate(r) \/ RefreshCreate(r) \/ ChangeCreate(r)
  PROVE  SessionIInv'
  <1> USE DEF SessionIInv
  <1>1. sessionRq[r].stage \in {"checked", "rotated", "ended"} /\ SignAndCreate(r)
    BY DEF LoginCreate, RefreshCreate, ChangeCreate
  <1>2. /\ sessionRq' \in [Request -> SessionRequest]
        /\ sessionRq'[r].stage = "idle" /\ sessionRq'[r].token = NoToken
        /\ \A q \in Request : q # r => sessionRq'[q] = sessionRq[q]
        /\ UNCHANGED <<now, active, password, lost, twice>>
    BY <1>1, SessionDoneShape DEF SignAndCreate
  <1>3. CASE UNCHANGED session
    <2>1. session' \in [Second -> SessionRow] /\ \A t \in Second : session'[t] = session[t]
      BY <1>3 DEF SessionTypeOK
    <2> QED
      BY <1>1, <1>2, <2>1, RevokingKeeps
  <1>4. CASE session[now].status = "none"
    <2> DEFINE new == [status |-> "live", password |-> sessionRq[r].password,
                       late |-> sessionRq[r].password # password, heirs |-> "none"]
               heir(t) == [session[t] EXCEPT !.heirs = More(@)]
    <2>1. session' = [t \in Second |-> IF t = now THEN new
                                       ELSE IF t = sessionRq[r].token THEN heir(t) ELSE session[t]]
      BY <1>1, <1>4 DEF SignAndCreate
    <2>2. /\ now \in Second /\ now # sessionRq[r].token /\ \A q \in Request : sessionRq[q].token # now
      BY <1>4, TokensAreSeconds DEF SessionTypeOK, SessionShapeInv
    <2>3. /\ new \in SessionRow /\ new.status = "live" /\ new.heirs = "none"
          /\ new.password = sessionRq[r].password /\ (new.late <=> sessionRq[r].password # password)
      <3>1. sessionRq[r].password \in Version
        BY DEF SessionTypeOK, SessionRequest
      <3> QED
        BY <3>1 DEF SessionRow
    <2>4. ASSUME NEW t \in Second
          PROVE  /\ heir(t) \in SessionRow /\ heir(t).status = session[t].status
                 /\ heir(t).password = session[t].password /\ heir(t).late = session[t].late
                 /\ session[t].heirs = "none" => heir(t).heirs = "one"
      BY DEF SessionTypeOK, SessionRow, More
    <2> HIDE DEF new, heir
    <2>5. /\ session' \in [Second -> SessionRow]
          /\ session'[now] = new
          /\ \A t \in Second : t # now =>
                /\ session'[t].status = session[t].status
                /\ session'[t].password = session[t].password
                /\ session'[t].late = session[t].late
                /\ t # sessionRq[r].token => session'[t] = session[t]
                /\ t = sessionRq[r].token /\ session[t].heirs = "none" => session'[t].heirs = "one"
      BY <2>1, <2>2, <2>3, <2>4 DEF SessionTypeOK
    <2>6. SessionTypeOK'
      BY <1>2, <2>5 DEF SessionTypeOK
    <2>7. \A q \in Request : sessionRq[q].token # NoToken =>
              sessionRq[q].token \in Second /\ sessionRq[q].token # now
      BY <2>2 DEF SessionTypeOK, SessionRequest
    <2>8. SessionShapeInv'
      BY <1>2, <2>5, <2>7 DEF SessionShapeInv
    <2>9. HeirInv'
      <3> SUFFICES ASSUME ~twice PROVE HeirInv'
        BY <1>2 DEF HeirInv
      <3>1. sessionRq[r].token \in Second => /\ sessionRq[r].stage = "rotated"
                                      /\ ~LiveSession(sessionRq[r].token)
                                      /\ session[sessionRq[r].token].heirs = "none"
                                      /\ session[sessionRq[r].token].status # "none"
        BY <1>1, TokensAreSeconds DEF HeirInv, SessionShapeInv
      <3>2. \A q \in Request \ {r} : sessionRq[q].stage \in {"found", "rotated"} =>
                /\ sessionRq[q].token \in Second /\ sessionRq[q].token # now
                /\ sessionRq[q].token # sessionRq[r].token
        BY <1>1, <2>7, TokensAreSeconds DEF HeirInv, SessionShapeInv
      <3>3. ASSUME NEW q \in Request, sessionRq'[q].stage \in {"found", "rotated"}
            PROVE  /\ sessionRq'[q].stage = "rotated" => session'[sessionRq'[q].token].status # "live"
                   /\ session'[sessionRq'[q].token].heirs = "none"
                   /\ \A p \in Request \ {q} : sessionRq'[p].stage \in {"found", "rotated"} =>
                          sessionRq'[p].token # sessionRq'[q].token
        <4>1. q # r /\ sessionRq'[q] = sessionRq[q]
          BY <1>2, <3>3
        <4> QED
          BY <1>2, <2>5, <3>2, <3>3, <4>1 DEF HeirInv, LiveSession
      <3>4. ASSUME NEW t \in Second
            PROVE  /\ session'[t].status = "live" => session'[t].heirs = "none"
                   /\ session'[t].status = "none" => session'[t].heirs = "none"
                   /\ session'[t].heirs # "more"
        <4>1. CASE t = now
          BY <2>3, <2>5, <4>1
        <4>2. CASE t # now /\ t = sessionRq[r].token
          BY <2>5, <3>1, <4>2 DEF LiveSession
        <4>3. CASE t # now /\ t # sessionRq[r].token
          BY <2>5, <4>3 DEF HeirInv, LiveSession
        <4> QED
          BY <4>1, <4>2, <4>3
      <3> QED
        BY <1>2, <3>3, <3>4 DEF HeirInv, LiveSession
    <2>10. OldSessionHasCause'
      BY <1>1, <1>2, <2>3, <2>5 DEF OldSessionHasCause, LiveSession
    <2> QED
      BY <2>6, <2>8, <2>9, <2>10
  <1> QED
    BY <1>1, <1>3, <1>4 DEF SignAndCreate

-----------------------------------------------------------------------------
(* The inductive invariant, and what follows from it *)

\* The invariant holds of the initial states.
LEMMA InitIInv == SessionInit => SessionIInv
  <1> SUFFICES ASSUME SessionInit PROVE SessionIInv
    OBVIOUS
  <1>1. NoSession \in SessionRow
    BY DEF NoSession, SessionRow, Version
  <1>2. SessionTypeOK
    <2>1. now \in Second /\ password \in Version
      BY TokensAreSeconds DEF SessionInit, Version
    <2>2. session \in [Second -> SessionRow] /\ sessionRq \in [Request -> SessionRequest]
      BY <1>1, IdleIsRequest DEF SessionInit
    <2> QED
      BY <2>1, <2>2 DEF SessionInit, SessionTypeOK
  <1>3. SessionShapeInv /\ HeirInv /\ OldSessionHasCause
    BY IdleIsRequest DEF SessionInit, SessionShapeInv, HeirInv, OldSessionHasCause, LiveSession, NoSession
  <1> QED
    BY <1>2, <1>3 DEF SessionIInv

\* Every step keeps the invariant: one case for each action, by the lemma
\* about it.
LEMMA NextKeeps == SessionIInv /\ [SessionNext]_sessionVars => SessionIInv'
  <1> SUFFICES ASSUME SessionIInv, [SessionNext]_sessionVars PROVE SessionIInv'
    OBVIOUS
  <1>1. CASE UNCHANGED sessionVars
    BY <1>1 DEF sessionVars, SessionIInv, SessionTypeOK, SessionShapeInv, HeirInv, OldSessionHasCause, LiveSession
  <1>2. ASSUME NEW r \in Request, SessionStep(r) PROVE SessionIInv'
    BY <1>2, ReadKeeps, FindKeeps, RevokeKeeps, CreateKeeps, ChangeWriteKeeps,
       InvalidateKeeps DEF SessionStep, LoginWithEmailPassword, LoginWithOtp, GoogleLogin
  <1> QED
    BY <1>1, <1>2, WorldKeeps, ProfileKeeps DEF SessionNext

\* In every reachable state a refresh holds its token alone until the first
\* overlap of two, and every session of an older password has its cause.
THEOREM Inductive == SessionSpec => []SessionIInv
  BY InitIInv, NextKeeps, PTL DEF SessionSpec

\* The rows and the requests keep their shape.
THEOREM TypeCorrect == SessionSpec => []SessionTypeOK
  <1>1. SessionIInv => SessionTypeOK
    BY DEF SessionIInv
  <1> QED
    BY <1>1, Inductive, PTL

\* For any number of overlapping requests, a session that outlives a change of
\* the password was inserted late by a request that had started before, or the
\* change was cut short or came with a profile.
THEOREM ChangeEndsSessions == SessionSpec => []OldSessionHasCause
  <1>1. SessionIInv => OldSessionHasCause
    BY DEF SessionIInv
  <1> QED
    BY <1>1, Inductive, PTL

\* A token has at most one heir unless two refreshes held it together.
THEOREM RotationIsLinear == SessionSpec => []OneHeir
  <1>1. SessionIInv => OneHeir
    BY DEF SessionIInv, HeirInv, OneHeir
  <1> QED
    BY <1>1, Inductive, PTL
=============================================================================
