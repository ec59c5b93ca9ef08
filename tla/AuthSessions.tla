----------------------------- MODULE AuthSessions -----------------------------
(***************************************************************************)
(* The sessions of one user: login, refresh, logout, revocation and the    *)
(* change of the password (src/modules/auth, src/modules/users).           *)
(*                                                                         *)
(* A refresh token is a JWT of the user and the second it was signed in,   *)
(* so two tokens of one second are the same string.  AuthSession rows are  *)
(* unique by the hash of their token: a row stands for the second its      *)
(* token was signed in, and a second row of that second is refused.        *)
(* Signing and the INSERT that follows it are one step.                    *)
(***************************************************************************)
EXTENDS Naturals, Handlers

CONSTANTS
    MaxTime,       \* bound of the clock, in seconds
    MaxPassword,   \* bound of the number of password changes
    Life           \* REFRESH_TOKEN_COOKIE_MAX_AGE, in seconds

ASSUME SessionBounds ==
    /\ MaxTime \in Nat \ {0}
    /\ MaxPassword \in Nat
    /\ Life \in Nat \ {0}

Second == 1..MaxTime
NoToken == 0
Version == 0..MaxPassword

VARIABLES
    now,        \* the clock
    active,     \* User.isActive
    password,   \* User.password, as the number of changes so far; 0 when none was ever set
    session,    \* AuthSession rows by the second of their token
    sessionRq,         \* the requests under way
    lost,       \* history: a password was written without the UPDATE of the sessions
    twice       \* history: a token was found by a refresh while another refresh held it

sessionVars == <<now, active, password, session, sessionRq, lost, twice>>

\* password: the password that opened the session, or the one its ancestor was
\* opened with; late: it was an old one already when the row was inserted.
\* heirs: history, the sessions that were made from this one's token.
SessionRow == [status : {"none", "live", "revoked"}, password : Version, late : BOOLEAN,
               heirs : {"none", "one", "more"}]
NoSession == [status |-> "none", password |-> 0, late |-> FALSE, heirs |-> "none"]

\* "checked": the user was read by a login; "found", "rotated": a refresh
\* before and after it revoked its own session; "leaving": logout and revocation
\* past their read; "changing", "written", "ended": change of the password.
SessionStage == {"idle", "checked", "found", "rotated", "leaving",
          "changing", "written", "ended"}
SessionRequest == [stage : SessionStage, token : Second \cup {NoToken}, password : Version,
                 signsIn : BOOLEAN]
SessionIdle == [stage |-> "idle", token |-> NoToken, password |-> 0, signsIn |-> FALSE]

SessionTypeOK ==
    /\ now \in Second
    /\ active \in BOOLEAN
    /\ password \in Version
    /\ session \in [Second -> SessionRow]
    /\ sessionRq \in [Request -> SessionRequest]
    /\ lost \in BOOLEAN
    /\ twice \in BOOLEAN

SessionInit ==
    /\ now = 1
    /\ active = TRUE
    /\ password \in Version
    /\ session = [t \in Second |-> NoSession]
    /\ sessionRq = [r \in Request |-> SessionIdle]
    /\ lost = FALSE
    /\ twice = FALSE

-----------------------------------------------------------------------------
LiveSession(t) == session[t].status = "live"
Expired(t) == now >= t + Life

Start(r, stage, token, signsIn) ==
    /\ sessionRq[r].stage = "idle"
    /\ sessionRq' = [sessionRq EXCEPT ![r] = [stage |-> stage, token |-> token, signsIn |-> signsIn,
                                password |-> IF token = NoToken THEN password
                                                                ELSE session[token].password]]
SessionGo(r, stage) == sessionRq' = [sessionRq EXCEPT ![r] = [@ EXCEPT !.stage = stage]]
SessionDone(r) == sessionRq' = [sessionRq EXCEPT ![r] = SessionIdle]

More(heirs) == IF heirs = "none" THEN "one" ELSE "more"

\* generateAuthToken and createAuthSession: the unique index refuses a second
\* row for a second, and the request fails.
SignAndCreate(r) ==
    /\ IF session[now].status = "none"
       THEN session' = [t \in Second |->
                IF t = now THEN [status |-> "live", password |-> sessionRq[r].password,
                                 late |-> sessionRq[r].password # password, heirs |-> "none"]
                ELSE IF t = sessionRq[r].token THEN [session[t] EXCEPT !.heirs = More(@)]
                ELSE session[t]]
       ELSE UNCHANGED session
    /\ SessionDone(r)
    /\ UNCHANGED <<now, active, password, lost, twice>>

-----------------------------------------------------------------------------
(* login.service.js, google.service.js: the user is read and found active,  *)
(* and what signs the session comes after it.                               *)

LoginCheck(r) ==
    /\ Start(r, "checked", NoToken, TRUE)
    /\ UNCHANGED <<now, active, password, session, lost, twice>>

\* Accounts that use Google or codes have no password to log in with.
LoginWithEmailPassword(r) == active /\ password # 0 /\ LoginCheck(r)

\* The code was consumed before the user is read.
LoginWithOtp(r) == active /\ LoginCheck(r)

\* The user comes with the ticket, as it was when Google called back: it was active
\* at some time before, which every user was.
GoogleLogin(r) == LoginCheck(r)

LoginCreate(r) == sessionRq[r].stage = "checked" /\ SignAndCreate(r)

-----------------------------------------------------------------------------
(* session.service.js *)

RefreshFind(r, t) ==
    /\ LiveSession(t) /\ ~Expired(t) /\ active
    /\ Start(r, "found", t, TRUE)
    /\ twice' = (twice \/ \E q \in Request : sessionRq[q].stage = "found" /\ sessionRq[q].token = t)
    /\ UNCHANGED <<now, active, password, session, lost>>

Revoke(t) == session' = [session EXCEPT ![t] = [@ EXCEPT !.status = "revoked"]]

\* Mutant: the session stays live.
RefreshRevoke_Skipped(r) ==
    /\ sessionRq[r].stage = "found"
    /\ SessionGo(r, "rotated")
    /\ UNCHANGED <<now, active, password, session, lost, twice>>

RefreshRevoke(r) ==
    /\ sessionRq[r].stage = "found"
    /\ Revoke(sessionRq[r].token)
    /\ SessionGo(r, "rotated")
    /\ UNCHANGED <<now, active, password, lost, twice>>

RefreshCreate(r) == sessionRq[r].stage = "rotated" /\ SignAndCreate(r)

-----------------------------------------------------------------------------
(* logout.service.js, which finds the session unless it is revoked;         *)
(* revokeUserSession and revokeUserSessionByAdmin, which find any session.  *)

Logout(r, t) ==
    /\ LiveSession(t)
    /\ Start(r, "leaving", t, FALSE)
    /\ UNCHANGED <<now, active, password, session, lost, twice>>

RevokeFind(r, t) ==
    /\ session[t].status # "none"
    /\ Start(r, "leaving", t, FALSE)
    /\ UNCHANGED <<now, active, password, session, lost, twice>>

\* Mutant: the row is deleted.
RevokeSession_Deletes(r) ==
    /\ sessionRq[r].stage = "leaving"
    /\ session' = [session EXCEPT ![sessionRq[r].token] = [@ EXCEPT !.status = "deleted"]]
    /\ SessionDone(r)
    /\ UNCHANGED <<now, active, password, lost, twice>>

RevokeSession(r) ==
    /\ sessionRq[r].stage = "leaving"
    /\ Revoke(sessionRq[r].token)
    /\ SessionDone(r)
    /\ UNCHANGED <<now, active, password, lost, twice>>

-----------------------------------------------------------------------------
(* password.service.js.  validatePasswordAction is not awaited: the change  *)
(* goes on whatever it says of the old password, unless its rejection has   *)
(* stopped the process (Fail).  A forgotten password signs no one in.       *)

ChangeStart(r) ==
    /\ \E signsIn \in BOOLEAN : Start(r, "changing", NoToken, signsIn)
    /\ UNCHANGED <<now, active, password, session, lost, twice>>

\* Mutant: the sessions are ended for a user who is signed in, but not when a
\* forgotten password is set.
ChangeWrite_ForgotKeeps(r) ==
    /\ sessionRq[r].stage = "changing"
    /\ password < MaxPassword
    /\ password' = password + 1
    /\ sessionRq' = [sessionRq EXCEPT ![r] = IF sessionRq[r].signsIn
                               THEN [@ EXCEPT !.stage = "written", !.password = password + 1]
                               ELSE SessionIdle]
    /\ UNCHANGED <<now, active, session, lost, twice>>

ChangeWrite(r) ==
    /\ sessionRq[r].stage = "changing"
    /\ password < MaxPassword
    /\ password' = password + 1
    /\ sessionRq' = [sessionRq EXCEPT ![r] = [@ EXCEPT !.stage = "written", !.password = password + 1]]
    /\ UNCHANGED <<now, active, session, lost, twice>>

InvalidateUserSessions(r) ==
    /\ sessionRq[r].stage = "written"
    /\ session' = [t \in Second |-> IF LiveSession(t) THEN [session[t] EXCEPT !.status = "revoked"]
                                              ELSE session[t]]
    /\ IF sessionRq[r].signsIn THEN SessionGo(r, "ended") ELSE SessionDone(r)
    /\ UNCHANGED <<now, active, password, lost, twice>>

ChangeCreate(r) == sessionRq[r].stage = "ended" /\ SignAndCreate(r)

-----------------------------------------------------------------------------
\* updateProfile writes whatever columns the body names, the password among
\* them, and ends no session.
UpdateProfile ==
    /\ password < MaxPassword
    /\ password' = password + 1
    /\ lost' = TRUE
    /\ UNCHANGED <<now, active, session, sessionRq, twice>>

\* updateUserByAdmin sets isActive and leaves the sessions alone; so may
\* updateProfile.
SetActive ==
    /\ active' = ~active
    /\ UNCHANGED <<now, password, session, sessionRq, lost, twice>>

\* A request ends between two statements: a database error or a crash.
SessionFail(r) ==
    /\ MayFail
    /\ sessionRq[r].stage # "idle"
    /\ lost' = (lost \/ sessionRq[r].stage = "written")
    /\ SessionDone(r)
    /\ UNCHANGED <<now, active, password, session, twice>>

SessionTick ==
    /\ now < MaxTime
    /\ now' = now + 1
    /\ UNCHANGED <<active, password, session, sessionRq, lost, twice>>

SessionStep(r) ==
    \/ LoginWithEmailPassword(r) \/ LoginWithOtp(r) \/ GoogleLogin(r) \/ LoginCreate(r)
    \/ \E t \in Second : RefreshFind(r, t) \/ Logout(r, t) \/ RevokeFind(r, t)
    \/ RefreshRevoke(r) \/ RefreshCreate(r) \/ RevokeSession(r)
    \/ ChangeStart(r) \/ ChangeWrite(r) \/ InvalidateUserSessions(r) \/ ChangeCreate(r)
    \/ SessionFail(r)

SessionNext == (\E r \in Request : SessionStep(r)) \/ UpdateProfile \/ SetActive \/ SessionTick

SessionSpec == SessionInit /\ [][SessionNext]_sessionVars
-----------------------------------------------------------------------------
(* Properties *)

\* A change of the password ends every session that goes back to an older
\* password, but for the ones a request that had started before inserts
\* afterwards, and unless the change itself was cut short in between or came
\* with a profile.
OldSessionHasCause ==
    \A t \in Second :
        LiveSession(t) /\ session[t].password # password =>
            session[t].late \/ lost \/ \E r \in Request : sessionRq[r].stage = "written"

\* A refresh token is exchanged for at most one other, whatever the clock,
\* logouts and failures do, unless two refreshes held it together.
OneHeir == ~twice => \A t \in Second : session[t].heirs # "more"

\* What the API documentation of /auth/refresh says: a refresh that has
\* revoked its session "issues a new" one.
RefreshIssues ==
    [][\A r \in Request : sessionRq[r].stage = "rotated" /\ sessionRq'[r].stage = "idle" =>
            \E t \in Second : LiveSession(t)' /\ ~LiveSession(t)]_sessionVars
-----------------------------------------------------------------------------
(* The inductive invariant behind OldSessionHasCause and OneHeir.            *)

\* Requests keep their shape, and no session is of a later password.
SessionShapeInv ==
    /\ \A r \in Request :
        /\ sessionRq[r].stage \in {"found", "rotated", "leaving"} => sessionRq[r].token # NoToken
        /\ sessionRq[r].stage \in {"checked", "changing", "written", "ended"} =>
                sessionRq[r].token = NoToken
        /\ sessionRq[r].token # NoToken => session[sessionRq[r].token].status # "none"

\* The token of a refresh that has revoked it is dead, and has one holder.
HeirInv ==
    ~twice =>
        /\ \A r \in Request : sessionRq[r].stage = "rotated" => ~LiveSession(sessionRq[r].token)
        /\ \A r \in Request : sessionRq[r].stage \in {"found", "rotated"} =>
                /\ session[sessionRq[r].token].heirs = "none"
                /\ \A q \in Request \ {r} : sessionRq[q].stage \in {"found", "rotated"} =>
                        sessionRq[q].token # sessionRq[r].token
        /\ \A t \in Second :
            /\ LiveSession(t) => session[t].heirs = "none"
            /\ session[t].status = "none" => session[t].heirs = "none"
            /\ session[t].heirs # "more"

SessionIInv == SessionTypeOK /\ SessionShapeInv /\ HeirInv /\ OldSessionHasCause
=============================================================================
