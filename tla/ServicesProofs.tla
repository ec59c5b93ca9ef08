---------------------------- MODULE ServicesProofs ----------------------------
(***************************************************************************)
(* Proofs about ContentCache, TenantSettings and Background, for any keys, *)
(* events and number of overlapping requests, and about the three of them side*)
(* by side (MCServices).                                                   *)
(***************************************************************************)
EXTENDS MCServices, TLAPS

USE FailAssumption

-----------------------------------------------------------------------------
(***************************************************************************)
(* ContentCache                                                            *)
(***************************************************************************)

-----------------------------------------------------------------------------
(* Shapes *)

\* The state of a free slot is the state of a request.
LEMMA CacheIdleIsRequest ==
  CacheIdle \in CacheRequest /\ CacheIdle.stage = "idle" /\ CacheIdle.left = {}
  BY DEF CacheIdle, CacheRequest

Reader(c, o) == [stage |-> "loaded", copy |-> c, left |-> {}, old |-> o]
Writer(s, l) == [stage |-> s, copy |-> "profile", left |-> l, old |-> {}]

\* A request that has written nothing has nothing to delete.
LEMMA CacheRequestShape ==
  ASSUME NEW q \in CacheRequest
  PROVE  /\ q.copy \in Copy /\ q.left \subseteq Copy /\ q.old \subseteq Fact
         /\ q.stage \in {"idle", "loaded"} => q.left = {}
         /\ q.stage \in {"written", "found"} => q = Writer(q.stage, q.left)
         /\ q.stage = "loaded" => q = Reader(q.copy, q.old)
  <1>1. CASE q \in [stage : {"idle"}, copy : {"profile"}, left : {{}}, old : {{}}]
    BY <1>1 DEF Copy
  <1>2. CASE q \in [stage : {"loaded"}, copy : Copy, left : {{}}, old : SUBSET Fact]
    BY <1>2 DEF Reader
  <1>3. CASE q \in [stage : {"written", "found"}, copy : {"profile"}, left : SUBSET Copy,
                    old : {{}}]
    BY <1>3 DEF Copy, Writer
  <1> QED
    BY <1>1, <1>2, <1>3 DEF CacheRequest

\* What may be made of them.
LEMMA CacheRequestMade ==
  /\ \A c \in Copy, o \in SUBSET Fact : Reader(c, o) \in CacheRequest /\ Reader(c, o).left = {}
  /\ \A s \in {"written", "found"}, l \in SUBSET Copy :
        Writer(s, l) \in CacheRequest /\ Writer(s, l).left = l
  BY DEF Reader, Writer, CacheRequest

\* A step of one request leaves the other slots alone.
LEMMA CacheOneMoves ==
  ASSUME CacheTypeOK, NEW r \in Request, NEW q \in CacheRequest,
         cacheRq' = [cacheRq EXCEPT ![r] = q]
  PROVE  /\ cacheRq' \in [Request -> CacheRequest]
         /\ cacheRq'[r] = q
         /\ \A x \in Request : x # r => cacheRq'[x] = cacheRq[x]
  BY DEF CacheTypeOK

\* A writer deletes known copies, and one kind of list at most.
LEMMA DeletesShape ==
  /\ \A f \in Fact : Deletes[f] \subseteq Copy
  /\ \A f \in Fact : \A c, d \in Deletes[f] \cap List : c = d
  BY DEF Fact, Deletes, Copy, List, InvalidateProject, InvalidateTask, InvalidateUser

-----------------------------------------------------------------------------
(* The steps *)

\* A request that has nothing to delete, or after the step has: no copy but one that is
\* stored has changed.
LEMMA LoadKeeps ==
  ASSUME CacheIInv, NEW r \in Request, NEW c \in Copy, Load(r, c)
  PROVE  CacheIInv'
  <1> DEFINE q == [CacheIdle EXCEPT !.stage = "loaded", !.copy = c]
  <1>1. /\ cacheRq[r].stage = "idle" /\ cacheRq' = [cacheRq EXCEPT ![r] = q]
        /\ UNCHANGED <<cached, old, missed, raced>>
    BY DEF Load
  <1>2. q \in CacheRequest /\ q.left = {}
    BY DEF CacheIdle, CacheRequest
  <1> HIDE DEF q
  <1>3. /\ cacheRq' \in [Request -> CacheRequest] /\ cacheRq'[r] = q
        /\ \A x \in Request : x # r => cacheRq'[x] = cacheRq[x]
    BY <1>1, <1>2, CacheOneMoves DEF CacheIInv
  <1>4. cacheRq[r].left = {}
    BY <1>1, CacheRequestShape DEF CacheIInv, CacheTypeOK
  <1>5. \A x \in Request : cacheRq'[x].left = cacheRq[x].left
    BY <1>2, <1>3, <1>4
  <1> QED
    BY <1>1, <1>3, <1>5 DEF CacheIInv, CacheTypeOK, LeftInv, StaleCopyHasCause

\* A reader stores what it loaded, and what was spoilt since was recorded as
\* a race.
LEMMA SetCachedKeeps ==
  ASSUME CacheIInv, NEW r \in Request, SetCached(r)
  PROVE  CacheIInv'
  <1>1. PICK q \in CacheRequest : q = cacheRq[r]
    BY DEF CacheIInv, CacheTypeOK
  <1>2. /\ q.stage = "loaded"
        /\ cached' = cached \cup {q.copy}
        /\ old' = [old EXCEPT ![q.copy] = q.old]
        /\ missed' = missed \ {q.copy}
        /\ raced' = IF q.old = {} THEN raced \ {q.copy} ELSE raced \cup {q.copy}
        /\ cacheRq' = [cacheRq EXCEPT ![r] = CacheIdle]
    BY <1>1 DEF SetCached
  <1>3. /\ cacheRq' \in [Request -> CacheRequest] /\ cacheRq'[r] = CacheIdle
        /\ \A x \in Request : x # r => cacheRq'[x] = cacheRq[x]
    BY <1>2, CacheIdleIsRequest, CacheOneMoves DEF CacheIInv
  <1>4. \A x \in Request : cacheRq'[x].left = cacheRq[x].left
    BY <1>1, <1>2, <1>3, CacheIdleIsRequest, CacheRequestShape
  <1>5. /\ q.copy \in Copy /\ q.old \in SUBSET Fact
        /\ cached \subseteq Copy /\ old \in [Copy -> SUBSET Fact]
        /\ missed \subseteq Copy /\ raced \subseteq Copy
    BY CacheRequestShape DEF CacheIInv, CacheTypeOK
  <1>6. /\ old' \in [Copy -> SUBSET Fact] /\ old'[q.copy] = q.old
        /\ \A c \in Copy \ {q.copy} : old'[c] = old[c]
    BY <1>2, <1>5
  <1>7. CacheTypeOK'
    BY <1>2, <1>3, <1>5, <1>6 DEF CacheTypeOK
  <1>8. LeftInv'
    BY <1>4 DEF LeftInv, CacheIInv
  <1>9. StaleCopyHasCause'
    BY <1>2, <1>4, <1>5, <1>6 DEF CacheIInv, StaleCopyHasCause
  <1> QED
    BY <1>7, <1>8, <1>9 DEF CacheIInv

\* A write spoils the copies that show the row; its writer has their
\* deletion before it.
LEMMA WriteFactKeeps ==
  ASSUME CacheIInv, NEW r \in Request, NEW f \in Fact, WriteFact(r, f)
  PROVE  CacheIInv'
  <1> DEFINE writer == [CacheIdle EXCEPT !.stage = "written", !.left = Deletes[f]]
             reader(q) == [cacheRq[q] EXCEPT !.old = @ \cup {f}]
             held(q) == cacheRq[q].stage = "loaded" /\ f \in Shows[cacheRq[q].copy]
             now(c) == IF c \in cached /\ f \in Shows[c] THEN old[c] \cup {f} ELSE old[c]
  <1>1. /\ cacheRq[r].stage = "idle"
        /\ old' = [c \in Copy |-> now(c)]
        /\ cacheRq' = [q \in Request |-> IF q = r /\ Deletes[f] # {} THEN writer
                                         ELSE IF held(q) THEN reader(q) ELSE cacheRq[q]]
        /\ UNCHANGED <<cached, missed, raced>>
    BY DEF WriteFact
  <1>2. writer \in CacheRequest /\ writer.left = Deletes[f]
    BY DeletesShape DEF CacheIdle, CacheRequest
  <1>3. cacheRq \in [Request -> CacheRequest] /\ cacheRq[r].left = {} /\ ~held(r)
    BY <1>1, CacheRequestShape DEF CacheIInv, CacheTypeOK
  <1>4. ASSUME NEW q \in Request, held(q)
        PROVE  reader(q) \in CacheRequest /\ reader(q).left = cacheRq[q].left
    <2>1. cacheRq[q] \in CacheRequest /\ cacheRq[q].stage = "loaded"
      BY <1>3, <1>4
    <2>2. PICK c, o : cacheRq[q] = Reader(c, o) /\ c = cacheRq[q].copy /\ o = cacheRq[q].old
      BY <2>1, CacheRequestShape
    <2>3. reader(q) = Reader(c, o \cup {f})
      BY <2>2 DEF Reader
    <2>4. c \in Copy /\ o \cup {f} \in SUBSET Fact /\ cacheRq[q].left = {}
      BY <2>1, <2>2, CacheRequestShape
    <2> QED
      BY <2>3, <2>4, CacheRequestMade
  <1> HIDE DEF writer, reader, held
  <1>5. cacheRq' \in [Request -> CacheRequest]
    BY <1>1, <1>2, <1>3, <1>4
  <1>6. /\ \A q \in Request \ {r} : cacheRq'[q].left = cacheRq[q].left
        /\ cacheRq'[r].left = Deletes[f]
    BY <1>1, <1>2, <1>3, <1>4
  <1>7. old \in [Copy -> SUBSET Fact]
    BY DEF CacheIInv, CacheTypeOK
  <1>8. old' \in [Copy -> SUBSET Fact]
    BY <1>1, <1>7
  <1>9. \A c \in Copy : old'[c] \subseteq old[c] \cup {f}
    BY <1>1
  <1>10. CacheTypeOK'
    BY <1>1, <1>5, <1>8 DEF CacheIInv, CacheTypeOK
  <1>11. LeftInv'
    BY <1>6 DEF CacheIInv, LeftInv
  <1>12. StaleCopyHasCause'
    <2> SUFFICES ASSUME NEW c \in cached, NEW g \in old'[c], c \in Deletes[g],
                        c \notin missed \cup raced
                 PROVE  \E q \in Request : c \in cacheRq'[q].left
      BY <1>1 DEF StaleCopyHasCause
    <2>1. c \in Copy
      BY DEF CacheIInv, CacheTypeOK
    <2>2. CASE g = f
      BY <1>6, <2>2
    <2>3. CASE g # f
      <3>1. g \in old[c]
        BY <1>9, <2>1, <2>3
      <3>2. PICK q \in Request : c \in cacheRq[q].left
        BY <3>1 DEF CacheIInv, StaleCopyHasCause
      <3> QED
        BY <1>3, <1>6, <3>2
    <2> QED
      BY <2>2, <2>3
  <1> QED
    BY <1>10, <1>11, <1>12 DEF CacheIInv

\* Copies go, and no request but r stops to have them before it, except for these.
LEMMA GoneKeeps ==
  ASSUME CacheIInv, NEW gone \in SUBSET Copy, Gone(gone),
         cacheRq' \in [Request -> CacheRequest],
         \A x \in Request : /\ cacheRq'[x].left \subseteq cacheRq[x].left
                            /\ cacheRq[x].left \subseteq cacheRq'[x].left \cup gone
  PROVE  CacheIInv'
  <1>1. /\ cached' = cached \ gone /\ missed' = missed \ gone /\ raced' = raced \ gone
        /\ old' = [c \in Copy |-> IF c \in gone THEN {} ELSE old[c]]
    BY DEF Gone
  <1>2. /\ cached \subseteq Copy /\ old \in [Copy -> SUBSET Fact]
        /\ missed \subseteq Copy /\ raced \subseteq Copy
    BY DEF CacheIInv, CacheTypeOK
  <1>3. CacheTypeOK'
    BY <1>1, <1>2 DEF CacheTypeOK
  <1>4. LeftInv'
    BY DEF CacheIInv, LeftInv
  <1>5. StaleCopyHasCause'
    BY <1>1, <1>2 DEF CacheIInv, StaleCopyHasCause
  <1> QED
    BY <1>3, <1>4, <1>5 DEF CacheIInv

\* A copy that is deleted is out of date no longer.
LEMMA CacheDeleteCopyKeeps ==
  ASSUME CacheIInv, NEW r \in Request, NEW c \in Copy, DeleteCopy(r, c)
  PROVE  CacheIInv'
  <1>1. PICK q \in CacheRequest : q = cacheRq[r]
    BY DEF CacheIInv, CacheTypeOK
  <1> DEFINE w == IF q.left = {c} THEN CacheIdle ELSE [q EXCEPT !.left = q.left \ {c}]
  <1>2. /\ q.stage = "written" /\ c \in q.left /\ Gone({c})
        /\ cacheRq' = [cacheRq EXCEPT ![r] = w]
    BY <1>1 DEF DeleteCopy
  <1>3. w \in CacheRequest /\ w.left = q.left \ {c}
    <2>1. PICK l \in SUBSET Copy : q = Writer("written", l) /\ l = q.left
      BY <1>2, CacheRequestShape
    <2>2. [q EXCEPT !.left = l \ {c}] = Writer("written", l \ {c})
      BY <2>1 DEF Writer
    <2> QED
      BY <2>1, <2>2, CacheIdleIsRequest, CacheRequestMade
  <1> HIDE DEF w
  <1>4. /\ cacheRq' \in [Request -> CacheRequest] /\ cacheRq'[r] = w
        /\ \A x \in Request : x # r => cacheRq'[x] = cacheRq[x]
    BY <1>2, <1>3, CacheOneMoves DEF CacheIInv
  <1> QED
    BY <1>1, <1>2, <1>3, <1>4, GoneKeeps

\* So is a list.
LEMMA DeleteListsKeeps ==
  ASSUME CacheIInv, NEW r \in Request, DeleteLists(r)
  PROVE  CacheIInv'
  <1>1. Gone(cacheRq[r].left) /\ cacheRq' = [cacheRq EXCEPT ![r] = CacheIdle]
    BY DEF DeleteLists
  <1>2. /\ cacheRq' \in [Request -> CacheRequest] /\ cacheRq'[r] = CacheIdle
        /\ \A x \in Request : x # r => cacheRq'[x] = cacheRq[x]
    BY <1>1, CacheIdleIsRequest, CacheOneMoves DEF CacheIInv
  <1>3. cacheRq[r].left \in SUBSET Copy
    BY CacheRequestShape DEF CacheIInv, CacheTypeOK
  <1> QED
    BY <1>1, <1>2, <1>3, CacheIdleIsRequest, GoneKeeps

\* A copy whose lifetime ends is gone.
LEMMA ExpireKeeps ==
  ASSUME CacheIInv, NEW c \in Copy, Expire(c)
  PROVE  CacheIInv'
  BY GoneKeeps DEF Expire, CacheIInv, CacheTypeOK

\* KEYS finds nothing only when the list that was to be deleted is not there.
LEMMA FindListsKeeps ==
  ASSUME CacheIInv, NEW r \in Request, FindLists(r)
  PROVE  CacheIInv'
  <1>1. PICK q \in CacheRequest : q = cacheRq[r]
    BY DEF CacheIInv, CacheTypeOK
  <1> DEFINE w == IF q.left \subseteq cached THEN [q EXCEPT !.stage = "found"] ELSE CacheIdle
  <1>2. /\ q.stage = "written" /\ q.left # {} /\ q.left \subseteq List
        /\ cacheRq' = [cacheRq EXCEPT ![r] = w]
        /\ UNCHANGED <<cached, old, missed, raced>>
    BY <1>1 DEF FindLists
  <1>3. w \in CacheRequest /\ w.left = IF q.left \subseteq cached THEN q.left ELSE {}
    <2>1. PICK l \in SUBSET Copy : q = Writer("written", l) /\ l = q.left
      BY <1>2, CacheRequestShape
    <2>2. [q EXCEPT !.stage = "found"] = Writer("found", l)
      BY <2>1 DEF Writer
    <2> QED
      BY <2>1, <2>2, CacheIdleIsRequest, CacheRequestMade
  <1> HIDE DEF w
  <1>4. /\ cacheRq' \in [Request -> CacheRequest] /\ cacheRq'[r] = w
        /\ \A x \in Request : x # r => cacheRq'[x] = cacheRq[x]
    BY <1>2, <1>3, CacheOneMoves DEF CacheIInv
  <1>5. \A x \in Request : /\ cacheRq'[x].left \subseteq cacheRq[x].left
                           /\ cacheRq[x].left \cap cached \subseteq cacheRq'[x].left
    <2>1. \A c, d \in q.left : c = d
      BY <1>1, <1>2, DeletesShape DEF CacheIInv, LeftInv
    <2>2. ~(q.left \subseteq cached) => q.left \cap cached = {}
      BY <2>1
    <2> QED
      BY <1>1, <1>3, <1>4, <2>2
  <1>6. CacheTypeOK' /\ LeftInv'
    BY <1>2, <1>4, <1>5 DEF CacheIInv, CacheTypeOK, LeftInv
  <1>7. StaleCopyHasCause'
    BY <1>2, <1>5 DEF CacheIInv, StaleCopyHasCause
  <1> QED
    BY <1>6, <1>7 DEF CacheIInv

\* A writer that stops with copies left to delete is recorded.
LEMMA CacheFailKeeps ==
  ASSUME CacheIInv, NEW r \in Request, CacheFail(r)
  PROVE  CacheIInv'
  <1>1. /\ missed' = missed \cup (cacheRq[r].left \cap cached)
        /\ cacheRq' = [cacheRq EXCEPT ![r] = CacheIdle]
        /\ UNCHANGED <<cached, old, raced>>
    BY DEF CacheFail
  <1>2. /\ cacheRq' \in [Request -> CacheRequest] /\ cacheRq'[r] = CacheIdle
        /\ \A x \in Request : x # r => cacheRq'[x] = cacheRq[x]
    BY <1>1, CacheIdleIsRequest, CacheOneMoves DEF CacheIInv
  <1>3. CacheTypeOK' /\ LeftInv'
    BY <1>1, <1>2, CacheIdleIsRequest DEF CacheIInv, CacheTypeOK, LeftInv
  <1>4. StaleCopyHasCause'
    BY <1>1, <1>2 DEF CacheIInv, StaleCopyHasCause
  <1> QED
    BY <1>3, <1>4 DEF CacheIInv

-----------------------------------------------------------------------------
(* The theorems *)

\* The invariant of the copies holds of an empty cache.
LEMMA CacheInitIInv == CacheInit => CacheIInv
  BY CacheIdleIsRequest DEF CacheInit, CacheIInv, CacheTypeOK, LeftInv, StaleCopyHasCause, Fact

\* Every step on the copies keeps their invariant.
LEMMA CacheNextKeeps == CacheIInv /\ [CacheNext]_cacheVars => CacheIInv'
  <1> SUFFICES ASSUME CacheIInv, [CacheNext]_cacheVars PROVE CacheIInv'
    OBVIOUS
  <1>1. ASSUME NEW r \in Request,
               \/ GetProject(r) \/ ListProjects(r) \/ GetTask(r) \/ ListTasks(r)
               \/ GetUserProfile(r)
        PROVE  CacheIInv'
    BY <1>1, LoadKeeps DEF GetProject, ListProjects, GetTask, ListTasks, GetUserProfile, Copy
  <1>2. ASSUME NEW r \in Request,
               \/ UpdateProject(r) \/ UpdateTask(r) \/ UpdateProfile(r)
               \/ UpdateDepartment(r) \/ UpdateLastLogin(r)
        PROVE  CacheIInv'
    BY <1>2, WriteFactKeeps DEF UpdateProject, UpdateTask, UpdateProfile, UpdateDepartment,
       UpdateLastLogin, Fact
  <1>3. CASE CacheNext
    BY <1>1, <1>2, <1>3, SetCachedKeeps, CacheDeleteCopyKeeps, FindListsKeeps, DeleteListsKeeps,
       CacheFailKeeps, ExpireKeeps DEF CacheNext
  <1>4. CASE UNCHANGED cacheVars
    BY <1>4 DEF cacheVars, CacheIInv, CacheTypeOK, LeftInv, StaleCopyHasCause
  <1> QED
    BY <1>3, <1>4

\* The invariant of the copies and the requests that load and delete them, for any number
\* of requests.
THEOREM CacheInductive == CacheSpec => []CacheIInv
  BY CacheInitIInv, CacheNextKeeps, PTL DEF CacheSpec

\* A copy out of date in what its own writers changed is about to be deleted, or one of
\* them failed to, or a reader stored what it had loaded before the write.
THEOREM StaleHasCause == CacheSpec => []StaleCopyHasCause
  <1>1. CacheIInv => StaleCopyHasCause
    BY DEF CacheIInv
  <1> QED
    BY <1>1, CacheInductive, PTL

-----------------------------------------------------------------------------
(***************************************************************************)
(* TenantSettings                                                          *)
(***************************************************************************)
USE NothingAssumption

-----------------------------------------------------------------------------
(* Shapes *)

\* The state of a free slot is the state of a request.
LEMMA SettingsIdleIsRequest == SettingsIdle \in SettingsRequest /\ SettingsIdle.stage = "idle"
  BY DEF SettingsIdle, SettingsRequest, Settings

\* No set of keys is the mark of a missing row or copy.
LEMMA AbsentIsNoSettings == Absent \notin Settings
  BY DEF Absent, Settings

\* What a read answers is a set of settings.
LEMMA ContentIsSettings ==
  ASSUME SettingsTypeOK
  PROVE  Content \in Settings
  BY DEF SettingsTypeOK, Content, Settings

\* What a request that is alone has to hold at its stage.
Holds(q) ==
    /\ q.stage \in {"loaded", "written", "deleted"} => q.holds = Content
    /\ q.stage = "written" => q.key \in q.holds
    /\ q.stage = "merge" => owed \subseteq q.holds
    /\ q.stage = "merge" /\ ~broken => q.holds = Content
    /\ q.stage = "deleted" => owed = {} /\ settings = Absent

\* The other requests are idle.
Only(r) == \A q \in Request \ {r} : settingsRq[q].stage = "idle"

\* A request that is not idle is alone, as long as none began beside another.
LEMMA SettingsAlone ==
  ASSUME SettingsIInv, ~crossing, NEW r \in Request, settingsRq[r].stage # "idle"
  PROVE  Only(r) /\ Holds(settingsRq[r])
  BY DEF SettingsIInv, OneAtATime, HeldInv, Only, Holds

\* A step of the only request: it is still alone, and holds what it should.
LEMMA SettingsStaysAlone ==
  ASSUME SettingsTypeOK, NEW r \in Request, NEW w \in SettingsRequest, Only(r),
         settingsRq' = [settingsRq EXCEPT ![r] = w],
         w.stage # "idle" => Holds(w)'
  PROVE  OneAtATime' /\ HeldInv'
  <1>1. settingsRq'[r] = w /\ \A q \in Request \ {r} : settingsRq'[q].stage = "idle"
    BY DEF SettingsTypeOK, Only
  <1>2. OneAtATime'
    BY <1>1 DEF OneAtATime
  <1>3. ASSUME NEW q \in Request
        PROVE  /\ settingsRq'[q].stage \in {"loaded", "written", "deleted"}
                    => settingsRq'[q].holds = Content'
               /\ settingsRq'[q].stage = "written" => settingsRq'[q].key \in settingsRq'[q].holds
               /\ settingsRq'[q].stage = "merge" => owed' \subseteq settingsRq'[q].holds
               /\ settingsRq'[q].stage = "merge" /\ ~broken' => settingsRq'[q].holds = Content'
               /\ settingsRq'[q].stage = "deleted" => owed' = {} /\ settings' = Absent
    BY <1>1 DEF Holds
  <1>4. HeldInv'
    BY <1>3 DEF HeldInv
  <1> QED
    BY <1>2, <1>4
-----------------------------------------------------------------------------
(* Steps *)

\* A step of a request under way preserves the invariant, if what it leaves behind
\* is right where it was alone.
LEMMA SettingsStepKeeps ==
  ASSUME SettingsIInv, NEW r \in Request, settingsRq[r].stage # "idle",
         NEW w \in SettingsRequest, settingsRq' = [settingsRq EXCEPT ![r] = w],
         crossing' = crossing,
         settings' \in Settings \cup {Absent}, copy' \in Settings \cup {Absent},
         owed' \in Settings, broken' \in BOOLEAN,
         ~crossing /\ Holds(settingsRq[r]) =>
            /\ w.stage # "idle" => Holds(w)'
            /\ owed' \subseteq Content'
            /\ copy' # Absent => owed' \subseteq copy'
            /\ ~broken' /\ w.stage \notin {"written", "deleted"} => copy' \in {Absent, Content'}
  PROVE  SettingsIInv'
  <1>1. SettingsTypeOK /\ settingsRq'[r] = w
    BY DEF SettingsIInv, SettingsTypeOK
  <1>2. SettingsTypeOK'
    BY <1>1 DEF SettingsTypeOK
  <1>3. ASSUME ~crossing'
        PROVE  /\ OneAtATime' /\ HeldInv'
               /\ owed' \subseteq Content'
               /\ copy' # Absent => owed' \subseteq copy'
               /\ ~broken' /\ (\A q \in Request : settingsRq'[q].stage \notin {"written", "deleted"})
                    => copy' \in {Absent, Content'}
    <2>1. Only(r) /\ Holds(settingsRq[r])
      BY <1>3, SettingsAlone
    <2>2. OneAtATime' /\ HeldInv'
      BY <1>1, <1>3, <2>1, SettingsStaysAlone
    <2> QED
      BY <1>1, <1>3, <2>1, <2>2
  <1> QED
    BY <1>2, <1>3 DEF SettingsIInv

\* What the invariant says of the storage while nobody is between two writes.
LEMMA SettingsStored ==
  ASSUME SettingsIInv, ~crossing, NEW r \in Request, settingsRq[r].stage # "idle"
  PROVE  /\ owed \subseteq Content
         /\ copy # Absent => owed \subseteq copy
         /\ ~broken /\ settingsRq[r].stage \notin {"written", "deleted"}
                => copy \in {Absent, Content}
  BY DEF SettingsIInv, OneAtATime

\* The invariant of the settings holds before there are any.
LEMMA SettingsInitIInv == SettingsInit => SettingsIInv
  <1> SUFFICES ASSUME SettingsInit PROVE SettingsIInv
    OBVIOUS
  <1>1. \A r \in Request : settingsRq[r] = SettingsIdle
    BY DEF SettingsInit
  <1>2. SettingsTypeOK
    BY SettingsIdleIsRequest DEF SettingsInit, SettingsTypeOK, Settings
  <1>3. OneAtATime /\ HeldInv
    BY <1>1, SettingsIdleIsRequest DEF OneAtATime, HeldInv
  <1>4. owed \subseteq Content /\ copy = Absent
    BY DEF SettingsInit
  <1> QED
    BY <1>2, <1>3, <1>4 DEF SettingsIInv

\* A request that begins alone finds the storage as its predecessor left it.
LEMMA SettingsBeginKeeps ==
  ASSUME SettingsIInv, NEW r \in Request, NEW key \in Key \cup {Nothing},
         NEW stage \in {"read", "deleting"}, SettingsBegin(r, stage, key)
  PROVE  SettingsIInv'
  <1> DEFINE w == [stage |-> stage, key |-> key, holds |-> {}]
  <1>1. w \in SettingsRequest /\ w.stage = stage
    BY DEF SettingsRequest, Settings
  <1>2. /\ settingsRq[r].stage = "idle"
        /\ settingsRq' = [settingsRq EXCEPT ![r] = w]
        /\ crossing' = (crossing \/ \E q \in Request \ {r} : settingsRq[q].stage # "idle")
        /\ UNCHANGED <<settings, copy, owed, broken>>
    BY DEF SettingsBegin
  <1>3. SettingsTypeOK /\ settingsRq'[r] = w
    BY <1>2 DEF SettingsIInv, SettingsTypeOK
  <1>4. crossing' \in BOOLEAN
    BY <1>2
  <1> HIDE DEF w
  <1>5. SettingsTypeOK'
    BY <1>1, <1>2, <1>3, <1>4 DEF SettingsTypeOK
  <1>6. ASSUME ~crossing'
        PROVE  ~crossing /\ Only(r)
    BY <1>2, <1>3, <1>6 DEF Only, SettingsTypeOK
  <1>7. Content' = Content
    BY <1>2 DEF Content
  <1>8. ASSUME ~crossing'
        PROVE  OneAtATime' /\ HeldInv'
    BY <1>1, <1>2, <1>3, <1>6, <1>8, SettingsStaysAlone DEF Holds
  <1>9. ASSUME ~crossing'
        PROVE  \A q \in Request : settingsRq[q].stage \notin {"written", "deleted"}
    BY <1>2, <1>6, <1>9 DEF Only
  <1> QED
    BY <1>2, <1>5, <1>6, <1>7, <1>8, <1>9 DEF SettingsIInv

\* readSettings has an answer: a getSettings ends with it, an update goes on to merge.
LEMMA SettingsGivenSlot ==
  ASSUME SettingsTypeOK, NEW r \in Request, NEW holds \in Settings, Given(r, holds)
  PROVE  \E w \in SettingsRequest :
            /\ settingsRq' = [settingsRq EXCEPT ![r] = w]
            /\ w.stage # "idle" => w.stage = "merge" /\ w.holds = holds
            /\ w.stage \in {"idle", "merge"}
  <1>1. settingsRq[r] \in SettingsRequest
    BY DEF SettingsTypeOK
  <1>2. CASE settingsRq[r].key = Nothing
    BY <1>2, SettingsIdleIsRequest DEF Given, SettingsDone
  <1>3. CASE settingsRq[r].key # Nothing
    <2> DEFINE w == [stage |-> "merge", key |-> settingsRq[r].key, holds |-> holds]
    <2>1. settingsRq' = [settingsRq EXCEPT ![r] = w]
      BY <1>3 DEF Given, SettingsGo, SettingsTypeOK
    <2>2. w \in SettingsRequest
      BY <1>1, <1>3 DEF SettingsRequest
    <2> QED
      BY <2>1, <2>2
  <1> QED
    BY <1>2, <1>3

\* A step that moves the slot on to a stage, holding something.
LEMMA SettingsGoSlot ==
  ASSUME SettingsTypeOK, NEW r \in Request, NEW holds \in Settings,
         NEW stage \in {"loaded", "written", "deleted"},
         stage = "written" => settingsRq[r].key \in Key,
         SettingsGo(r, stage, holds)
  PROVE  \E w \in SettingsRequest :
            /\ settingsRq' = [settingsRq EXCEPT ![r] = w]
            /\ w.stage = stage /\ w.holds = holds /\ w.key = settingsRq[r].key
  <1> DEFINE w == [stage |-> stage, key |-> settingsRq[r].key, holds |-> holds]
  <1>1. settingsRq' = [settingsRq EXCEPT ![r] = w]
    BY DEF SettingsGo, SettingsTypeOK
  <1>2. settingsRq[r] \in SettingsRequest
    BY DEF SettingsTypeOK
  <1>3. w \in SettingsRequest
    BY <1>2 DEF SettingsRequest
  <1> QED
    BY <1>1, <1>3

\* A read holds what is owed: the copy, or the row when there is no copy,
\* has it.
LEMMA SettingsReadKeeps ==
  ASSUME SettingsIInv, NEW r \in Request, ReadSettings(r)
  PROVE  SettingsIInv'
  <1>1. /\ settingsRq[r].stage = "read"
        /\ UNCHANGED <<settings, copy, owed, crossing, broken>>
        /\ Content' = Content
    BY DEF ReadSettings, Content
  <1>2. SettingsTypeOK /\ Content \in Settings
    BY ContentIsSettings DEF SettingsIInv
  <1>3. \E w \in SettingsRequest :
          /\ settingsRq' = [settingsRq EXCEPT ![r] = w]
          /\ \/ w.stage = "idle"
             \/ copy # Absent /\ w.stage = "merge" /\ w.holds = copy
             \/ w.stage = "loaded" /\ w.holds = Content
    <2>1. CASE copy # Absent
      <3>1. copy \in Settings /\ Given(r, copy)
        BY <1>2, <2>1 DEF ReadSettings, SettingsTypeOK
      <3> QED
        BY <1>2, <2>1, <3>1, SettingsGivenSlot
    <2>2. CASE copy = Absent
      <3>1. SettingsGo(r, "loaded", Content)
        BY <2>2 DEF ReadSettings
      <3> QED
        BY <1>2, <3>1, SettingsGoSlot
    <2> QED
      BY <2>1, <2>2
  <1>4. PICK w \in SettingsRequest :
          /\ settingsRq' = [settingsRq EXCEPT ![r] = w]
          /\ \/ w.stage = "idle"
             \/ copy # Absent /\ w.stage = "merge" /\ w.holds = copy
             \/ w.stage = "loaded" /\ w.holds = Content
    BY <1>3
  <1>5. ASSUME ~crossing
        PROVE  /\ owed \subseteq Content
               /\ copy # Absent => owed \subseteq copy
               /\ ~broken => copy \in {Absent, Content}
    BY <1>1, <1>5, SettingsStored
  <1>6. ASSUME ~crossing, w.stage # "idle"
        PROVE  Holds(w)'
    BY <1>1, <1>4, <1>5, <1>6 DEF Holds
  <1> QED
    BY <1>1, <1>2, <1>4, <1>5, <1>6, SettingsStepKeeps DEF SettingsTypeOK

\* The row that becomes the copy has what is owed.
LEMMA SettingsFillKeeps ==
  ASSUME SettingsIInv, NEW r \in Request, FillSettings(r)
  PROVE  SettingsIInv'
  <1> DEFINE held == settingsRq[r].holds
  <1>1. /\ settingsRq[r].stage = "loaded" /\ copy' = held /\ Given(r, held)
        /\ UNCHANGED <<settings, owed, crossing, broken>>
        /\ Content' = Content
    BY DEF FillSettings, Content
  <1>2. SettingsTypeOK /\ held \in Settings
    BY DEF SettingsIInv, SettingsTypeOK, SettingsRequest
  <1>3. PICK w \in SettingsRequest :
          /\ settingsRq' = [settingsRq EXCEPT ![r] = w]
          /\ w.stage # "idle" => w.stage = "merge" /\ w.holds = held
          /\ w.stage \in {"idle", "merge"}
    BY <1>1, <1>2, SettingsGivenSlot
  <1>4. ASSUME ~crossing, Holds(settingsRq[r])
        PROVE  owed \subseteq Content /\ held = Content
    BY <1>1, <1>4, SettingsStored DEF Holds
  <1>5. ASSUME ~crossing, Holds(settingsRq[r]), w.stage # "idle"
        PROVE  Holds(w)'
    BY <1>1, <1>3, <1>4, <1>5 DEF Holds
  <1> QED
    BY <1>1, <1>2, <1>3, <1>4, <1>5, SettingsStepKeeps DEF SettingsTypeOK

\* The merge of what was read has what is owed, and the key of the update.
LEMMA SettingsUpsertKeeps ==
  ASSUME SettingsIInv, NEW r \in Request, UpsertSettings(r)
  PROVE  SettingsIInv'
  <1> DEFINE merged == Merge(r)
  <1>1. /\ settingsRq[r].stage = "merge" /\ settings' = merged
        /\ SettingsGo(r, "written", merged)
        /\ UNCHANGED <<copy, owed, crossing, broken>>
    BY DEF UpsertSettings
  <1>2. SettingsTypeOK /\ settingsRq[r].key \in Key
    BY <1>1 DEF SettingsIInv, SettingsTypeOK, SettingsRequest
  <1>3. merged \in Settings /\ settingsRq[r].holds \subseteq merged /\ settingsRq[r].key \in merged
    BY <1>2 DEF SettingsTypeOK, SettingsRequest, Settings, Merge
  <1> HIDE DEF merged
  <1>4. Content' = merged
    BY <1>1, <1>3, AbsentIsNoSettings DEF Content
  <1>5. PICK w \in SettingsRequest :
          settingsRq' = [settingsRq EXCEPT ![r] = w] /\ w.stage = "written" /\ w.holds = merged
          /\ w.key = settingsRq[r].key
    BY <1>1, <1>2, <1>3, SettingsGoSlot
  <1>6. ASSUME ~crossing, Holds(settingsRq[r])
        PROVE  owed \subseteq merged /\ (copy # Absent => owed \subseteq copy)
    BY <1>1, <1>3, <1>6, SettingsStored DEF Holds
  <1>7. Holds(w)'
    BY <1>1, <1>3, <1>4, <1>5 DEF Holds
  <1> QED
    BY <1>1, <1>2, <1>3, <1>4, <1>5, <1>6, <1>7, SettingsStepKeeps DEF SettingsTypeOK

\* With the copy written, the key of the update is owed too.
LEMMA SettingsCopyKeeps ==
  ASSUME SettingsIInv, NEW r \in Request, CopySettings(r)
  PROVE  SettingsIInv'
  <1>1. /\ settingsRq[r].stage = "written" /\ copy' = settingsRq[r].holds
        /\ owed' = owed \cup {settingsRq[r].key}
        /\ settingsRq' = [settingsRq EXCEPT ![r] = SettingsIdle]
        /\ UNCHANGED <<settings, crossing, broken>>
        /\ Content' = Content
    BY DEF CopySettings, SettingsDone, Content
  <1>2. SettingsTypeOK /\ settingsRq[r].key \in Key /\ settingsRq[r].holds \in Settings
    BY <1>1 DEF SettingsIInv, SettingsTypeOK, SettingsRequest
  <1>3. owed' \in Settings /\ copy' \in Settings
    BY <1>1, <1>2 DEF SettingsTypeOK, Settings
  <1>4. ASSUME ~crossing, Holds(settingsRq[r])
        PROVE  owed' \subseteq Content' /\ copy' = Content'
    BY <1>1, <1>4, SettingsStored DEF Holds
  <1> QED
    BY <1>1, <1>2, <1>3, <1>4, SettingsIdleIsRequest, SettingsStepKeeps DEF SettingsTypeOK

\* Once the row is deleted nothing is owed.
LEMMA SettingsDeleteRowKeeps ==
  ASSUME SettingsIInv, NEW r \in Request, DeleteSettingsRow(r)
  PROVE  SettingsIInv'
  <1>1. /\ settingsRq[r].stage = "deleting" /\ settings' = Absent /\ Content' = {}
        /\ UNCHANGED <<copy, crossing, broken>>
    BY DEF DeleteSettingsRow, Content
  <1>2. SettingsTypeOK /\ {} \in Settings
    BY DEF SettingsIInv, Settings
  <1>3. CASE settings = Absent
    <2>1. settingsRq' = [settingsRq EXCEPT ![r] = SettingsIdle] /\ owed' = owed
      BY <1>3 DEF DeleteSettingsRow, SettingsDone
    <2>2. Content' = Content
      BY <1>1, <1>3 DEF Content
    <2> QED
      BY <1>1, <1>2, <2>1, <2>2, SettingsIdleIsRequest, SettingsStored, SettingsStepKeeps DEF SettingsTypeOK
  <1>4. CASE settings # Absent
    <2>1. SettingsGo(r, "deleted", {}) /\ owed' = {}
      BY <1>4 DEF DeleteSettingsRow
    <2>2. PICK w \in SettingsRequest :
            settingsRq' = [settingsRq EXCEPT ![r] = w] /\ w.stage = "deleted" /\ w.holds = {}
      BY <1>2, <2>1, SettingsGoSlot
    <2>3. Holds(w)'
      BY <1>1, <2>1, <2>2 DEF Holds
    <2> QED
      BY <1>1, <1>2, <2>1, <2>2, <2>3, SettingsStepKeeps DEF SettingsTypeOK
  <1> QED
    BY <1>3, <1>4

\* Once the copy is deleted nothing outlives the row.
LEMMA SettingsDeleteCopyKeeps ==
  ASSUME SettingsIInv, NEW r \in Request, DeleteSettingsCopy(r)
  PROVE  SettingsIInv'
  <1>1. /\ settingsRq[r].stage = "deleted" /\ copy' = Absent
        /\ settingsRq' = [settingsRq EXCEPT ![r] = SettingsIdle]
        /\ UNCHANGED <<settings, owed, crossing, broken>>
        /\ Content' = Content
    BY DEF DeleteSettingsCopy, SettingsDone, Content
  <1>2. SettingsTypeOK
    BY DEF SettingsIInv
  <1> QED
    BY <1>1, <1>2, SettingsIdleIsRequest, SettingsStored, SettingsStepKeeps DEF SettingsTypeOK

\* A request that ends between its two writes leaves more in the copy than in the
\* row, or less, but nothing that is owed is lost.
LEMMA SettingsFailKeeps ==
  ASSUME SettingsIInv, NEW r \in Request, SettingsFail(r)
  PROVE  SettingsIInv'
  <1>1. /\ settingsRq[r].stage # "idle"
        /\ broken' = (broken \/ settingsRq[r].stage \in {"written", "deleted"})
        /\ settingsRq' = [settingsRq EXCEPT ![r] = SettingsIdle]
        /\ UNCHANGED <<settings, copy, owed, crossing>>
        /\ Content' = Content
    BY DEF SettingsFail, SettingsDone, Content
  <1>2. SettingsTypeOK
    BY DEF SettingsIInv
  <1>3. broken' \in BOOLEAN
    BY <1>1
  <1>4. ~broken' => ~broken /\ settingsRq[r].stage \notin {"written", "deleted"}
    BY <1>1, <1>2 DEF SettingsTypeOK
  <1> QED
    BY <1>1, <1>2, <1>3, <1>4, SettingsIdleIsRequest, SettingsStored, SettingsStepKeeps DEF SettingsTypeOK

\* Every step on the settings keeps their invariant.
LEMMA SettingsNextKeeps == SettingsIInv /\ [SettingsNext]_settingsVars => SettingsIInv'
  <1> SUFFICES ASSUME SettingsIInv, [SettingsNext]_settingsVars
               PROVE  SettingsIInv'
    OBVIOUS
  <1>1. CASE UNCHANGED settingsVars
    BY <1>1 DEF settingsVars, SettingsIInv, SettingsTypeOK, OneAtATime, HeldInv, Content
  <1>2. ASSUME SettingsNext
        PROVE  SettingsIInv'
    <2>1. PICK r \in Request :
            \/ GetSettings(r) \/ DeleteSettings(r) \/ \E key \in Key : UpdateSettings(r, key)
            \/ ReadSettings(r) \/ FillSettings(r) \/ UpsertSettings(r) \/ CopySettings(r)
            \/ DeleteSettingsRow(r) \/ DeleteSettingsCopy(r) \/ SettingsFail(r)
      BY <1>2 DEF SettingsNext
    <2>2. CASE GetSettings(r) \/ DeleteSettings(r) \/ \E key \in Key : UpdateSettings(r, key)
      BY <2>2, SettingsBeginKeeps DEF GetSettings, DeleteSettings, UpdateSettings
    <2> QED
      BY <2>1, <2>2, SettingsReadKeeps, SettingsFillKeeps, SettingsUpsertKeeps, SettingsCopyKeeps, SettingsDeleteRowKeeps,
         SettingsDeleteCopyKeeps, SettingsFailKeeps
  <1> QED
    BY <1>1, <1>2

-----------------------------------------------------------------------------
(* Theorems *)

\* The inductive invariant holds in every reachable state.
THEOREM SettingsInductive == SettingsSpec => []SettingsIInv
  BY SettingsInitIInv, SettingsNextKeeps, PTL DEF SettingsSpec

\* For any keys, and whatever failed: requests that do not overlap lose no setting,
\* and give out what is stored unless one ended between its two writes.
THEOREM SettingsKept == SettingsSpec => []SettingsAreKept
  <1>1. SettingsIInv => SettingsAreKept
    BY DEF SettingsIInv, SettingsAreKept
  <1> QED
    BY <1>1, SettingsInductive, PTL

HIDE NothingAssumption

-----------------------------------------------------------------------------
(***************************************************************************)
(* Background                                                              *)
(***************************************************************************)
USE EventAssumption, DisturbanceAssumption

-----------------------------------------------------------------------------
(* Shapes *)

JobStage == {"none", "waiting", "stalled", "done", "failed"} \cup Running
Job == [stage : JobStage, made : 0 .. 3, stalls : 0 .. MaxStalls]
EventStage == {"new"} \cup InFlight \cup Over

\* A queue makes two or three attempts.
LEMMA AttemptsShape ==
  \A e \in Event : Attempts[e] \in {2, 3}
  BY DEF Attempts

\* The handlers that are left after one more was taken.
LEMMA HandlerTail ==
  ASSUME NEW h \in {Handler, Tail(Handler), <<"workers">>, <<>>}, h # <<>>
  PROVE  Tail(h) \in {Handler, Tail(Handler), <<"workers">>, <<>>}
  <1>1. Handler = <<"prisma", "redis", "workers">>
    BY DEF Handler
  <1>2. Tail(Handler) = <<"redis", "workers">>
    BY <1>1
  <1>3. Tail(<<"redis", "workers">>) = <<"workers">>
    OBVIOUS
  <1>4. Tail(<<"workers">>) = <<>>
    OBVIOUS
  <1> QED
    BY <1>2, <1>3, <1>4

-----------------------------------------------------------------------------
(* One event *)

\* What the invariants say of an event in one state, its request at s, its job j, n
\* entries, those doubted.
OfEvent(e, s, j, n, doubts) ==
    /\ s \in EventStage /\ j \in Job /\ n \in Nat /\ j.made <= Attempts[e]
    /\ s \in {"new", "creating", "adding"} => j.stage = "none"
    /\ j.stage = "none" => j.made = 0
    /\ j.stage \in {"waiting", "stalled"} \cup Running => j.made < Attempts[e]
    /\ s = "creating" => e = "notification"
    /\ s = "direct" => e = "audit"
    /\ s \in {"new", "creating"} => n = 0
    /\ e \notin doubts =>
        /\ n <= 1
        /\ s = "direct" => j.stage = "none"
        /\ e # "notification" /\ (\/ s \in {"adding", "direct"}
                                 \/ j.stage \in {"waiting", "active", "stalled"}) => n = 0
    /\ n <= IF e = "notification" THEN 1
            ELSE j.made + j.stalls
                    + (IF j.stage \in {"wrote", "stalled", "done", "failed"} THEN 1 ELSE 0)
                    + (IF s = "ended" THEN 1 ELSE 0)

\* The invariant is one of the process and one of each event by itself.
LEMMA OfEachEvent ==
  BgIInv <=>
    /\ process \in {"starting", "serving", "closing", "draining", "exited", "dead"}
    /\ told \in 0 .. 2
    /\ handlers \in {Handler, Tail(Handler), <<"workers">>, <<>>}
    /\ doubtful \subseteq Event
    /\ disturbances \in 0 .. MaxDisturbances
    /\ DOMAIN event = Event /\ event = [e \in Event |-> event[e]]
    /\ job = [e \in Event |-> job[e]] /\ entries = [e \in Event |-> entries[e]]
    /\ ServedInv
    /\ \A e \in Event : OfEvent(e, event[e], job[e], entries[e], doubtful)
  <1>1. ASSUME BgIInv
        PROVE  \A e \in Event : OfEvent(e, event[e], job[e], entries[e], doubtful)
    BY <1>1 DEF BgIInv, BgTypeOK, JobInv, UnwrittenInv, WrittenInv, AtMost, OfEvent,
                Job, JobStage, EventStage
  <1>2. ASSUME \A e \in Event : OfEvent(e, event[e], job[e], entries[e], doubtful)
        PROVE  JobInv /\ UnwrittenInv /\ WrittenInv
    BY <1>2 DEF JobInv, UnwrittenInv, WrittenInv, AtMost, OfEvent
  <1>3. ASSUME \A e \in Event : OfEvent(e, event[e], job[e], entries[e], doubtful)
        PROVE  \A e \in Event : /\ event[e] \in EventStage /\ job[e] \in Job
                                /\ job[e].made <= Attempts[e] /\ entries[e] \in 0 .. 6
    BY <1>3, AttemptsShape DEF OfEvent, Job, MaxStalls
  <1> QED
    BY <1>1, <1>2, <1>3 DEF BgIInv, BgTypeOK, Job, JobStage, EventStage

\* A step of the event e, its request and its job.
LEMMA EventMoves ==
  ASSUME BgIInv, NEW e \in Event, UNCHANGED <<process, told, handlers, disturbances>>,
         event' \in [Event -> EventStage], job' \in [Event -> Job], entries' \in [Event -> Nat],
         \A x \in Event \ {e} : /\ event'[x] = event[x] /\ job'[x] = job[x]
                                /\ entries'[x] = entries[x],
         doubtful \subseteq doubtful', doubtful' \subseteq doubtful \cup {e},
         event'[e] \in InFlight => process \in {"serving", "closing"},
         OfEvent(e, event'[e], job'[e], entries'[e], doubtful')
  PROVE  BgIInv'
  <1>1. /\ process \in {"starting", "serving", "closing", "draining", "exited", "dead"}
        /\ told \in 0 .. 2
        /\ handlers \in {Handler, Tail(Handler), <<"workers">>, <<>>}
        /\ doubtful \subseteq Event
        /\ disturbances \in 0 .. MaxDisturbances
        /\ ServedInv
    BY OfEachEvent
  <1>2. \A x \in Event : OfEvent(x, event[x], job[x], entries[x], doubtful)
    BY OfEachEvent
  <1>3. \A x \in Event : OfEvent(x, event'[x], job'[x], entries'[x], doubtful')
    <2> TAKE x \in Event
    <2>1. CASE x = e
      BY <2>1
    <2>2. CASE x # e
      <3>1. OfEvent(x, event'[x], job'[x], entries'[x], doubtful)
        BY <1>2, <2>2
      <3> QED
        BY <2>2, <3>1 DEF OfEvent
    <2> QED
      BY <2>1, <2>2
  <1>4. JobInv' /\ UnwrittenInv' /\ WrittenInv'
    BY <1>3 DEF JobInv, UnwrittenInv, WrittenInv, AtMost, OfEvent
  <1>5. ServedInv'
    BY <1>1 DEF ServedInv
  <1>6. BgTypeOK'
    <2>1. \A x \in Event : job'[x].made <= Attempts[x] /\ entries'[x] \in 0 .. 6
      BY <1>3, AttemptsShape DEF OfEvent, Job, MaxStalls
    <2>2. entries' \in [Event -> 0 .. 6]
      BY <2>1
    <2> QED
      BY <1>1, <2>1, <2>2 DEF BgTypeOK, Job, JobStage, EventStage
  <1> QED
    BY <1>4, <1>5, <1>6 DEF BgIInv

\* What it starts from.
LEMMA EventFacts ==
  ASSUME BgIInv, NEW e \in Event
  PROVE  /\ event \in [Event -> EventStage] /\ job \in [Event -> Job]
         /\ entries \in [Event -> Nat]
         /\ OfEvent(e, event[e], job[e], entries[e], doubtful)
         /\ event[e] \in InFlight => process \in {"serving", "closing"}
  <1>1. OfEvent(e, event[e], job[e], entries[e], doubtful)
    BY OfEachEvent
  <1>2. event[e] \in InFlight => process \in {"serving", "closing"}
    BY DEF BgIInv, ServedInv
  <1> QED
    BY <1>1, <1>2 DEF BgIInv, BgTypeOK, EventStage, Job, JobStage

\* A step of one event leaves the others where they are.
LEMMA EventGoes ==
  ASSUME BgIInv, NEW e \in Event, NEW s \in EventStage, Goes(e, s)
  PROVE  /\ event' \in [Event -> EventStage] /\ event'[e] = s
         /\ \A x \in Event \ {e} : event'[x] = event[x]
  BY EventFacts DEF Goes

\* A job that goes on keeps its counts; the other jobs are left alone.
LEMMA JobMoves ==
  ASSUME BgIInv, NEW e \in Event, NEW s \in JobStage, JobGoes(e, s)
  PROVE  /\ job' \in [Event -> Job] /\ job'[e].stage = s
         /\ job'[e].made = job[e].made /\ job'[e].stalls = job[e].stalls
         /\ \A x \in Event \ {e} : job'[x] = job[x]
  <1>1. job \in [Event -> Job]
    BY EventFacts
  <1> QED
    BY <1>1 DEF JobGoes, Job

\* An entry is one more for its event.
LEMMA Enters ==
  ASSUME BgIInv, NEW e \in Event, Enter(e)
  PROVE  /\ entries' \in [Event -> Nat] /\ entries'[e] = entries[e] + 1
         /\ \A x \in Event \ {e} : entries'[x] = entries[x]
  <1>1. entries \in [Event -> Nat]
    BY EventFacts
  <1> QED
    BY <1>1 DEF Enter

-----------------------------------------------------------------------------
(* The request *)

\* An event starts with no job and no entry.
LEMMA EmitKeeps ==
  ASSUME BgIInv, NEW e \in Event, Emit(e)
  PROVE  BgIInv'
  <1> DEFINE s == IF e = "notification" THEN "creating" ELSE "adding"
  <1>1. /\ process = "serving" /\ event[e] = "new" /\ Goes(e, s)
        /\ UNCHANGED <<process, told, handlers, job, entries, doubtful, disturbances>>
    BY DEF Emit
  <1>2. /\ s \in {"creating", "adding"} /\ (s = "creating" => e = "notification")
        /\ (s = "adding" => e # "notification")
    OBVIOUS
  <1> HIDE DEF s
  <1>3. /\ event' \in [Event -> EventStage] /\ event'[e] = s
        /\ \A x \in Event \ {e} : event'[x] = event[x]
    BY <1>1, <1>2, EventGoes DEF EventStage, InFlight
  <1>4. OfEvent(e, s, job[e], entries[e], doubtful)
    BY <1>1, <1>2, EventFacts DEF OfEvent, EventStage, InFlight, Over
  <1> QED
    BY <1>1, <1>3, <1>4, EventFacts, EventMoves

\* The row of a notification is written once, before its job.
LEMMA CreateNotificationKeeps ==
  ASSUME BgIInv, NEW e \in Event, CreateNotification(e)
  PROVE  BgIInv'
  <1>1. /\ event[e] = "creating"
        /\ UNCHANGED <<process, told, handlers, job, doubtful, disturbances>>
    BY DEF CreateNotification
  <1>2. e = "notification" /\ process \in {"serving", "closing"}
    BY <1>1, EventFacts DEF OfEvent, InFlight
  <1>3. CASE Goes(e, "adding") /\ Enter(e)
    <2>1. /\ event' \in [Event -> EventStage] /\ event'[e] = "adding"
          /\ \A x \in Event \ {e} : event'[x] = event[x]
      BY <1>3, EventGoes DEF EventStage, InFlight
    <2>2. OfEvent(e, "adding", job[e], entries[e] + 1, doubtful)
      BY <1>1, <1>2, EventFacts DEF OfEvent, EventStage, InFlight, Over
    <2> QED
      BY <1>1, <1>2, <1>3, <2>1, <2>2, Enters, EventFacts, EventMoves
  <1>4. CASE Goes(e, "givenUp") /\ UNCHANGED entries
    <2>1. /\ event' \in [Event -> EventStage] /\ event'[e] = "givenUp"
          /\ \A x \in Event \ {e} : event'[x] = event[x]
      BY <1>4, EventGoes DEF EventStage, Over
    <2>2. OfEvent(e, "givenUp", job[e], entries[e], doubtful)
      BY <1>1, <1>2, EventFacts DEF OfEvent, EventStage, InFlight, Over
    <2> QED
      BY <1>1, <1>2, <1>4, <2>1, <2>2, EventFacts, EventMoves
  <1> QED
    BY <1>3, <1>4 DEF CreateNotification

\* A job that was added is the only one of its event.
LEMMA EnqueueKeeps ==
  ASSUME BgIInv, NEW e \in Event, Enqueue(e)
  PROVE  BgIInv'
  <1>1. /\ event[e] = "adding" /\ Goes(e, "ended") /\ JobGoes(e, "waiting")
        /\ UNCHANGED <<process, told, handlers, entries, doubtful, disturbances>>
    BY DEF Enqueue
  <1>2. /\ event' \in [Event -> EventStage] /\ event'[e] = "ended"
        /\ \A x \in Event \ {e} : event'[x] = event[x]
    BY <1>1, EventGoes DEF EventStage, Over
  <1>3. /\ job' \in [Event -> Job] /\ job'[e].stage = "waiting" /\ job'[e].made = job[e].made
        /\ job'[e].stalls = job[e].stalls /\ \A x \in Event \ {e} : job'[x] = job[x]
    BY <1>1, JobMoves DEF JobStage
  <1>4. OfEvent(e, "ended", job'[e], entries[e], doubtful)
    BY <1>1, <1>3, EventFacts, AttemptsShape
    DEF OfEvent, EventStage, InFlight, Over, Running, Job, MaxStalls
  <1> QED
    BY <1>1, <1>2, <1>3, <1>4, EventFacts, EventMoves DEF InFlight

\* A job hidden behind an error makes its event doubtful.
LEMMA EnqueueFailsKeeps ==
  ASSUME BgIInv, NEW e \in Event, EnqueueFails(e)
  PROVE  BgIInv'
  <1> DEFINE s == AfterError(e)
  <1>1. /\ event[e] = "adding" /\ Goes(e, s)
        /\ \/ UNCHANGED <<job, doubtful>>
           \/ JobGoes(e, "waiting") /\ Doubt(e)
        /\ UNCHANGED <<process, told, handlers, entries, disturbances>>
    BY DEF EnqueueFails
  <1>2. s \in {"direct", "refused", "ended"} /\ (s = "direct" => e = "audit")
    BY DEF AfterError
  <1> HIDE DEF s
  <1>3. /\ event' \in [Event -> EventStage] /\ event'[e] = s
        /\ \A x \in Event \ {e} : event'[x] = event[x]
    BY <1>1, <1>2, EventGoes DEF EventStage, InFlight, Over
  <1>4. process \in {"serving", "closing"}
    BY <1>1, EventFacts DEF InFlight
  <1>5. CASE UNCHANGED <<job, doubtful>>
    <2>1. OfEvent(e, s, job[e], entries[e], doubtful)
      BY <1>1, <1>2, EventFacts DEF OfEvent, EventStage, InFlight, Over, Running, Job, MaxStalls
    <2> QED
      BY <1>1, <1>3, <1>4, <1>5, <2>1, EventFacts, EventMoves
  <1>6. CASE JobGoes(e, "waiting") /\ Doubt(e)
    <2>1. /\ job' \in [Event -> Job] /\ job'[e].stage = "waiting"
          /\ job'[e].made = job[e].made /\ job'[e].stalls = job[e].stalls
          /\ \A x \in Event \ {e} : job'[x] = job[x]
      BY <1>6, JobMoves DEF JobStage
    <2>2. doubtful' = doubtful \cup {e}
      BY <1>6 DEF Doubt
    <2>3. OfEvent(e, s, job'[e], entries[e], doubtful')
      BY <1>1, <1>2, <2>1, <2>2, EventFacts, AttemptsShape
      DEF OfEvent, EventStage, InFlight, Over, Running, Job, MaxStalls
    <2> QED
      BY <1>1, <1>3, <1>4, <2>1, <2>2, <2>3, EventFacts, EventMoves
  <1> QED
    BY <1>1, <1>5, <1>6

\* The direct write is the only entry, unless a hidden job makes another.
LEMMA WriteDirectKeeps ==
  ASSUME BgIInv, NEW e \in Event, WriteDirect(e)
  PROVE  BgIInv'
  <1>1. /\ event[e] = "direct"
        /\ UNCHANGED <<process, told, handlers, job, doubtful, disturbances>>
    BY DEF WriteDirect
  <1>2. CASE Goes(e, "ended") /\ Enter(e)
    <2>1. /\ event' \in [Event -> EventStage] /\ event'[e] = "ended"
          /\ \A x \in Event \ {e} : event'[x] = event[x]
      BY <1>2, EventGoes DEF EventStage, Over
    <2>2. OfEvent(e, "ended", job[e], entries[e] + 1, doubtful)
      BY <1>1, EventFacts DEF OfEvent, EventStage, InFlight, Over, Running, Job, MaxStalls
    <2> QED
      BY <1>1, <1>2, <2>1, <2>2, Enters, EventFacts, EventMoves DEF InFlight
  <1>3. CASE Goes(e, "givenUp") /\ UNCHANGED entries
    <2>1. /\ event' \in [Event -> EventStage] /\ event'[e] = "givenUp"
          /\ \A x \in Event \ {e} : event'[x] = event[x]
      BY <1>3, EventGoes DEF EventStage, Over
    <2>2. OfEvent(e, "givenUp", job[e], entries[e], doubtful)
      BY <1>1, EventFacts DEF OfEvent, EventStage, InFlight, Over
    <2> QED
      BY <1>1, <1>3, <2>1, <2>2, EventFacts, EventMoves DEF InFlight
  <1> QED
    BY <1>2, <1>3 DEF WriteDirect

-----------------------------------------------------------------------------
(* The job *)

\* A worker takes a job without entering anything.
LEMMA TakeJobKeeps ==
  ASSUME BgIInv, NEW e \in Event, TakeJob(e)
  PROVE  BgIInv'
  <1>1. /\ job[e].stage = "waiting" /\ JobGoes(e, "active")
        /\ UNCHANGED <<process, told, handlers, event, entries, doubtful, disturbances>>
    BY DEF TakeJob
  <1>2. /\ job' \in [Event -> Job] /\ job'[e].stage = "active" /\ job'[e].made = job[e].made
        /\ job'[e].stalls = job[e].stalls /\ \A x \in Event \ {e} : job'[x] = job[x]
    BY <1>1, JobMoves DEF JobStage, Running
  <1>3. OfEvent(e, event[e], job'[e], entries[e], doubtful)
    BY <1>1, <1>2, EventFacts DEF OfEvent, Running, Job, MaxStalls
  <1> QED
    BY <1>1, <1>2, <1>3, EventFacts, EventMoves

\* A worker enters the event of its job, which had no entry unless in doubt.
LEMMA ProcessKeeps ==
  ASSUME BgIInv, NEW e \in Event, Process(e),
         IF e = "notification" THEN UNCHANGED entries ELSE Enter(e)
  PROVE  BgIInv'
  <1>1. /\ job[e].stage = "active" /\ JobGoes(e, "wrote")
        /\ UNCHANGED <<process, told, handlers, event, doubtful, disturbances>>
    BY DEF Process
  <1>2. /\ job' \in [Event -> Job] /\ job'[e].stage = "wrote" /\ job'[e].made = job[e].made
        /\ job'[e].stalls = job[e].stalls /\ \A x \in Event \ {e} : job'[x] = job[x]
    BY <1>1, JobMoves DEF JobStage, Running
  <1>3. CASE e = "notification"
    <2>1. OfEvent(e, event[e], job'[e], entries[e], doubtful)
      BY <1>1, <1>2, <1>3, EventFacts DEF OfEvent, Running, Job, MaxStalls
    <2> QED
      BY <1>1, <1>2, <1>3, <2>1, EventFacts, EventMoves
  <1>4. CASE e # "notification"
    <2>1. OfEvent(e, event[e], job'[e], entries[e] + 1, doubtful)
      BY <1>1, <1>2, <1>4, EventFacts DEF OfEvent, Running, Job, MaxStalls
    <2>2. /\ entries' \in [Event -> Nat] /\ entries'[e] = entries[e] + 1
          /\ \A x \in Event \ {e} : entries'[x] = entries[x]
      BY <1>4, Enters
    <2>3. /\ event' \in [Event -> EventStage]
          /\ event'[e] \in InFlight => process \in {"serving", "closing"}
      BY <1>1, EventFacts
    <2>4. OfEvent(e, event'[e], job'[e], entries'[e], doubtful')
      BY <1>1, <2>1, <2>2
    <2> QED
      BY <1>1, <1>2, <2>2, <2>3, <2>4, EventMoves
  <1> QED
    BY <1>3, <1>4

\* A job that is completed is over.
LEMMA CompleteKeeps ==
  ASSUME BgIInv, NEW e \in Event, Complete(e)
  PROVE  BgIInv'
  <1>1. /\ job[e].stage = "wrote" /\ JobGoes(e, "done")
        /\ UNCHANGED <<process, told, handlers, event, entries, doubtful, disturbances>>
    BY DEF Complete
  <1>2. /\ job' \in [Event -> Job] /\ job'[e].stage = "done" /\ job'[e].made = job[e].made
        /\ job'[e].stalls = job[e].stalls /\ \A x \in Event \ {e} : job'[x] = job[x]
    BY <1>1, JobMoves DEF JobStage
  <1>3. OfEvent(e, event[e], job'[e], entries[e], doubtful)
    BY <1>1, <1>2, EventFacts DEF OfEvent, Running, Job, MaxStalls
  <1> QED
    BY <1>1, <1>2, <1>3, EventFacts, EventMoves

\* An attempt that fails may have written the entry, and then it is doubtful.
LEMMA ProcessFailsKeeps ==
  ASSUME BgIInv, NEW e \in Event, ProcessFails(e)
  PROVE  BgIInv'
  <1> DEFINE made == job[e].made + 1
             stage == IF Again(e, made) THEN "waiting" ELSE "failed"
  <1>1. /\ e # "notification" /\ job[e].stage = "active"
        /\ job' = [job EXCEPT ![e].made = made, ![e].stage = stage]
        /\ \/ UNCHANGED <<entries, doubtful>>
           \/ Enter(e) /\ Doubt(e)
        /\ UNCHANGED <<process, told, handlers, event, disturbances>>
    BY DEF ProcessFails
  <1>2. job \in [Event -> Job] /\ job[e].made < Attempts[e] /\ Attempts[e] \in {2, 3}
    BY <1>1, EventFacts, AttemptsShape DEF OfEvent, Running
  <1>3. /\ made \in 0 .. 3 /\ made <= Attempts[e] /\ stage \in {"waiting", "failed"}
        /\ (stage = "waiting" => made < Attempts[e]) /\ made = job[e].made + 1
    BY <1>2 DEF Again, Job
  <1> HIDE DEF made, stage
  <1>4. /\ job' \in [Event -> Job] /\ job'[e].stage = stage /\ job'[e].made = made
        /\ job'[e].stalls = job[e].stalls /\ \A x \in Event \ {e} : job'[x] = job[x]
    BY <1>1, <1>2, <1>3 DEF Job, JobStage
  <1>5. CASE UNCHANGED <<entries, doubtful>>
    <2>1. OfEvent(e, event[e], job'[e], entries[e], doubtful)
      BY <1>1, <1>3, <1>4, EventFacts DEF OfEvent, Running, Job, MaxStalls
    <2> QED
      BY <1>1, <1>4, <1>5, <2>1, EventFacts, EventMoves
  <1>6. CASE Enter(e) /\ Doubt(e)
    <2>1. doubtful' = doubtful \cup {e}
      BY <1>6 DEF Doubt
    <2>2. OfEvent(e, event[e], job'[e], entries[e] + 1, doubtful')
      BY <1>1, <1>3, <1>4, <2>1, EventFacts DEF OfEvent, Running, Job, MaxStalls
    <2>3. /\ entries' \in [Event -> Nat] /\ entries'[e] = entries[e] + 1
          /\ \A x \in Event \ {e} : entries'[x] = entries[x]
      BY <1>6, Enters
    <2>4. /\ event' \in [Event -> EventStage]
          /\ event'[e] \in InFlight => process \in {"serving", "closing"}
      BY <1>1, EventFacts
    <2>5. OfEvent(e, event'[e], job'[e], entries'[e], doubtful')
      BY <1>1, <2>2, <2>3
    <2> QED
      BY <1>1, <1>4, <2>1, <2>3, <2>4, <2>5, EventMoves
  <1> QED
    BY <1>1, <1>5, <1>6

\* A stalled job waits again or fails, with its attempts as they were.
LEMMA RecoverStalledKeeps ==
  ASSUME BgIInv, NEW e \in Event, RecoverStalled(e)
  PROVE  BgIInv'
  <1>1. PICK j \in Job : j = job[e]
    BY EventFacts
  <1> DEFINE w == IF j.stalls < MaxStalls THEN [j EXCEPT !.stage = "waiting", !.stalls = @ + 1]
                  ELSE [j EXCEPT !.stage = "failed"]
  <1>2. /\ j.stage = "stalled" /\ job' = [job EXCEPT ![e] = w]
        /\ UNCHANGED <<process, told, handlers, event, entries, doubtful, disturbances>>
    BY <1>1 DEF RecoverStalled
  <1>3. /\ w \in Job /\ w.made = j.made
        /\ \/ w.stage = "waiting" /\ w.stalls = j.stalls + 1
           \/ w.stage = "failed" /\ w.stalls = j.stalls
    <2>1. CASE j.stalls < MaxStalls
      <3>1. j.stalls + 1 \in 0 .. MaxStalls
        BY <2>1 DEF Job, MaxStalls
      <3>2. w = [j EXCEPT !.stage = "waiting", !.stalls = j.stalls + 1]
        BY <2>1
      <3> QED
        BY <3>1, <3>2 DEF Job, JobStage
    <2>2. CASE ~(j.stalls < MaxStalls)
      BY <2>2 DEF Job, JobStage
    <2> QED
      BY <2>1, <2>2
  <1> HIDE DEF w
  <1>4. /\ job' \in [Event -> Job] /\ job'[e] = w
        /\ \A x \in Event \ {e} : job'[x] = job[x]
    BY <1>2, <1>3, EventFacts
  <1>5. OfEvent(e, event[e], j, entries[e], doubtful)
    BY <1>1, EventFacts
  <1>6. OfEvent(e, event[e], w, entries[e], doubtful)
    BY <1>2, <1>3, <1>5 DEF OfEvent, Running, Job, MaxStalls
  <1> QED
    BY <1>2, <1>4, <1>6, EventFacts, EventMoves

\* The steps of request and worker on one event keep the invariant.
LEMMA WorkKeeps ==
  ASSUME BgIInv, NEW e \in Event, Work(e)
  PROVE  BgIInv'
  <1>1. CASE ProcessAudit(e) \/ ProcessEmail(e) \/ ProcessNotification(e)
    BY <1>1, ProcessKeeps DEF ProcessAudit, ProcessEmail, ProcessNotification
  <1> QED
    BY <1>1, CreateNotificationKeeps, EnqueueKeeps, EnqueueFailsKeeps, WriteDirectKeeps,
       TakeJobKeeps, ProcessFailsKeeps, CompleteKeeps, RecoverStalledKeeps DEF Work

-----------------------------------------------------------------------------
(* The process *)

\* The end of the process leaves no request under way, stalls the jobs, and makes what
\* was written but not said so doubtful.
LEMMA CutKeeps ==
  ASSUME BgIInv, Cut, UNCHANGED <<told, handlers, entries>>, process' \in {"dead", "exited"},
         disturbances' \in 0 .. MaxDisturbances
  PROVE  BgIInv'
  <1> DEFINE s(e) == IF event[e] \in InFlight THEN "cut" ELSE event[e]
             j(e) == IF job[e].stage \in Running THEN [job[e] EXCEPT !.stage = "stalled"]
                     ELSE job[e]
  <1>1. /\ event' = [e \in Event |-> s(e)] /\ job' = [e \in Event |-> j(e)]
        /\ doubtful' = doubtful \cup {e \in Event : job[e].stage = "wrote"}
    BY DEF Cut
  <1>2. ASSUME NEW e \in Event
        PROVE  /\ s(e) \in EventStage \ InFlight /\ j(e) \in Job
               /\ OfEvent(e, s(e), j(e), entries[e], doubtful')
    <2>1. /\ event[e] \in EventStage /\ job[e] \in Job /\ entries[e] \in Nat
          /\ OfEvent(e, event[e], job[e], entries[e], doubtful)
      BY EventFacts
    <2>2. /\ s(e) \in EventStage \ InFlight
          /\ s(e) = event[e] \/ (s(e) = "cut" /\ event[e] \in InFlight)
      BY <2>1 DEF EventStage, InFlight, Over
    <2>3. /\ j(e) \in Job /\ j(e).made = job[e].made /\ j(e).stalls = job[e].stalls
          /\ j(e).stage = IF job[e].stage \in Running THEN "stalled" ELSE job[e].stage
      BY <2>1 DEF Job, JobStage
    <2>4. /\ e \notin doubtful' => e \notin doubtful /\ job[e].stage # "wrote"
      BY <1>1
    <2> HIDE DEF s, j
    <2>5. OfEvent(e, s(e), j(e), entries[e], doubtful')
      BY <2>1, <2>2, <2>3, <2>4 DEF OfEvent, InFlight, EventStage, Over, Running, Job, MaxStalls
    <2> QED
      BY <2>2, <2>3, <2>5
  <1> HIDE DEF s, j
  <1>3. /\ event' \in [Event -> EventStage] /\ job' \in [Event -> Job]
        /\ \A e \in Event : event'[e] \notin InFlight
        /\ \A e \in Event : OfEvent(e, event'[e], job'[e], entries'[e], doubtful')
    BY <1>1, <1>2
  <1>4. JobInv' /\ UnwrittenInv' /\ WrittenInv'
    BY <1>3 DEF JobInv, UnwrittenInv, WrittenInv, AtMost, OfEvent
  <1>5. ServedInv'
    BY <1>3 DEF ServedInv
  <1>6. BgTypeOK'
    <2>1. \A e \in Event : job'[e].made <= Attempts[e]
      BY <1>3 DEF OfEvent
    <2>2. doubtful' \subseteq Event
      BY <1>1 DEF BgIInv, BgTypeOK
    <2> QED
      BY <1>3, <2>1, <2>2 DEF BgIInv, BgTypeOK, Job, JobStage, EventStage
  <1> QED
    BY <1>4, <1>5, <1>6 DEF BgIInv

\* The process goes on, or starts again, without a word to the requests and the jobs.
LEMMA ProcessGoes ==
  ASSUME BgIInv, UNCHANGED <<event, job, entries, doubtful>>,
         process' \in {"starting", "serving", "closing", "draining"},
         process' \notin {"serving", "closing"} => \A e \in Event : event[e] \notin InFlight,
         told' \in 0 .. 2, disturbances' \in 0 .. MaxDisturbances,
         handlers' \in {Handler, Tail(Handler), <<"workers">>, <<>>}
  PROVE  BgIInv'
  BY DEF BgIInv, BgTypeOK, ServedInv, JobInv, UnwrittenInv, WrittenInv, AtMost

\* The process leaves "serving" by close alone, after the last request, and
\* runs its handlers in order.
LEMMA AdvanceKeeps ==
  ASSUME BgIInv, Advance
  PROVE  BgIInv'
  <1>1. /\ told \in 0 .. 2 /\ disturbances \in 0 .. MaxDisturbances
        /\ handlers \in {Handler, Tail(Handler), <<"workers">>, <<>>}
        /\ process \notin {"serving", "closing"} => \A e \in Event : event[e] \notin InFlight
    BY DEF BgIInv, BgTypeOK, ServedInv
  <1>2. CASE Serve
    BY <1>1, <1>2, ProcessGoes DEF Serve
  <1>3. CASE ServerCloses
    BY <1>1, <1>3, ProcessGoes DEF ServerCloses
  <1>4. CASE RunHandler
    BY <1>1, <1>4, ProcessGoes, HandlerTail DEF RunHandler
  <1>5. CASE Exit
    BY <1>1, <1>5, CutKeeps DEF Exit
  <1>6. CASE Restart
    BY <1>1, <1>6, ProcessGoes DEF Restart, Alive
  <1> QED
    BY <1>2, <1>3, <1>4, <1>5, <1>6 DEF Advance

\* A signal closes the server; a second one, or a death, cuts off what runs.
LEMMA DisturbanceKeeps ==
  ASSUME BgIInv, Die \/ Signal
  PROVE  BgIInv'
  <1>1. /\ told \in 0 .. 2 /\ disturbances \in 0 .. MaxDisturbances
        /\ handlers \in {Handler, Tail(Handler), <<"workers">>, <<>>}
        /\ process \notin {"serving", "closing"} => \A e \in Event : event[e] \notin InFlight
    BY DEF BgIInv, BgTypeOK, ServedInv
  <1>2. CASE Die
    BY <1>1, <1>2, CutKeeps DEF Die
  <1>3. CASE Signal
    BY <1>1, <1>3, ProcessGoes DEF Signal
  <1> QED
    BY <1>2, <1>3

-----------------------------------------------------------------------------
(* The theorems *)

\* The invariant of queues and process holds before the start.
LEMMA BgInitIInv == BgInit => BgIInv
  <1> SUFFICES ASSUME BgInit PROVE BgIInv
    OBVIOUS
  <1>1. BgTypeOK
    BY AttemptsShape DEF BgInit, BgTypeOK, MaxStalls
  <1>2. ServedInv /\ UnwrittenInv
    BY DEF BgInit, ServedInv, UnwrittenInv, InFlight
  <1>3. JobInv /\ WrittenInv
    BY DEF BgInit, JobInv, WrittenInv, AtMost, Running
  <1> QED
    BY <1>1, <1>2, <1>3 DEF BgIInv

\* Every step of events, jobs and process keeps the invariant.
LEMMA BgNextKeeps == BgIInv /\ [BgNext]_bgVars => BgIInv'
  <1> SUFFICES ASSUME BgIInv, [BgNext]_bgVars PROVE BgIInv'
    OBVIOUS
  <1>1. CASE BgNext
    BY <1>1, AdvanceKeeps, DisturbanceKeeps, EmitKeeps, WorkKeeps DEF BgNext
  <1>2. CASE UNCHANGED bgVars
    BY <1>2 DEF bgVars, BgIInv, BgTypeOK, ServedInv, JobInv, UnwrittenInv, WrittenInv, AtMost
  <1> QED
    BY <1>1, <1>2

\* The invariant of events, jobs and the process, for any number of signals and crashes.
THEOREM BgInductive == BgSpec => []BgIInv
  BY BgInitIInv, BgNextKeeps, PTL DEF BgSpec

\* Retries, restarts and the direct write leave an event with one entry, unless a step
\* that wrote it, or added its job, did not live to say so.
THEOREM OneEntry == BgSpec => []AtMostOneEntry
  <1>1. BgIInv => AtMostOneEntry
    BY DEF BgIInv, UnwrittenInv, AtMostOneEntry
  <1> QED
    BY <1>1, BgInductive, PTL

\* A shutdown leaves no request half served and closes the Redis client after the last of
\* them, and the jobs under way are finished unless it is told twice.
THEOREM ExitIsDrained == BgSpec => DrainedExit
  <1> DEFINE A == /\ process' = "exited" /\ process # "exited" =>
                        /\ \A e \in Event : event[e] \notin InFlight
                        /\ told < 2 => \A e \in Event : job[e].stage \notin Running
                  /\ process' = process /\ handlers' # handlers =>
                        \A e \in Event : event[e] \notin InFlight
  <1>1. ASSUME BgIInv, BgNext PROVE A
    <2>1. process = "draining" => \A e \in Event : event[e] \notin InFlight
      BY <1>1 DEF BgIInv, ServedInv
    <2>2. told \in 0 .. 2
      BY <1>1 DEF BgIInv, BgTypeOK
    <2>3. CASE Advance
      BY <2>1, <2>2, <2>3 DEF Advance, Serve, ServerCloses, RunHandler, Exit, Restart, Alive
    <2>4. CASE Die \/ Signal
      BY <2>4 DEF Die, Signal
    <2>5. ASSUME NEW e \in Event, Emit(e) \/ Work(e)
          PROVE  UNCHANGED <<process, handlers>>
      BY <2>5 DEF Emit, Work, CreateNotification, Enqueue, EnqueueFails, WriteDirect, TakeJob,
                  ProcessAudit, ProcessEmail, ProcessNotification, Process, ProcessFails,
                  Complete, RecoverStalled
    <2> QED
      BY <1>1, <2>3, <2>4, <2>5 DEF BgNext
  <1>2. BgIInv /\ [BgNext]_bgVars => [A]_bgVars
    BY <1>1
  <1> QED
    BY <1>2, BgInductive, PTL DEF BgSpec, DrainedExit

HIDE EventAssumption
HIDE DisturbanceAssumption

-----------------------------------------------------------------------------
(***************************************************************************)
(* MCServices: the three side by side                                      *)
(***************************************************************************)

\* A behaviour of the three side by side, in whatever slice, takes the steps of each of
\* them.  (That it is as fair as each of them is left to the model checker.)
THEOREM ServicesImplement ==
  MCSpec => /\ CacheInit /\ [][CacheNext]_cacheVars
            /\ SettingsSpec
            /\ BgInit /\ [][BgNext]_bgVars
  <1>1. MCInit => CacheInit /\ SettingsInit /\ BgInit
    BY DEF MCInit
  <1>2. [MCNext]_<<service, cacheVars, settingsVars, bgVars>>
            => [CacheNext]_cacheVars /\ [SettingsNext]_settingsVars /\ [BgNext]_bgVars
    BY DEF MCNext
  <1> QED
    BY <1>1, <1>2, PTL DEF MCSpec, SettingsSpec

\* The copies, the rows, the jobs, the slots and the histories of the three keep their
\* types.
THEOREM ServicesTypes == MCSpec => []TypesOK
  <1>1. CacheIInv /\ SettingsIInv /\ BgIInv => TypesOK
    BY DEF TypesOK, CacheIInv, SettingsIInv, BgIInv
  <1> QED
    BY <1>1, ServicesImplement, SettingsInductive, CacheInitIInv, CacheNextKeeps, BgInitIInv,
       BgNextKeeps, PTL
===============================================================================
