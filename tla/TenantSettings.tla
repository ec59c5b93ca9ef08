--------------------------- MODULE TenantSettings ---------------------------
(***************************************************************************)
(* The settings of one tenant: a row of the database and its copy in Redis *)
(* (src/modules/tenant/services/tenant-settings.service.js).               *)
(*                                                                         *)
(* The copy has no lifetime.  An update merges what it was sent into what  *)
(* readSettings gave it, the copy if there is one, and writes the row and  *)
(* then the copy; a deletion deletes the row and then the copy.  Errors of *)
(* Redis end the request.                                                  *)
(*                                                                         *)
(* Settings are the set of the keys that are set; an update sets one.  The *)
(* checks that precede the storage read other tables and are left out.     *)
(***************************************************************************)
EXTENDS Handlers

CONSTANTS
    Key,
    Nothing    \* no key

ASSUME NothingAssumption == Nothing \notin Key

Settings == SUBSET Key
Absent == {Nothing}    \* no row; no copy

VARIABLES
    settings,   \* TenantSettings.settings
    copy,       \* the copy in Redis
    settingsRq, \* the requests under way
    owed,       \* history: keys whose update was answered with success, not deleted since
    crossing,   \* history: a request began while another was under way
    broken      \* history: a request ended between its two writes

settingsVars == <<settings, copy, settingsRq, owed, crossing, broken>>

\* key: Nothing for a getSettings.  holds: what readSettings loaded, or gives.
SettingsRequest ==
    [stage : {"idle", "read", "loaded", "deleting", "deleted"}, key : Key \cup {Nothing},
     holds : Settings]
        \cup [stage : {"merge", "written"}, key : Key, holds : Settings]
SettingsIdle == [stage |-> "idle", key |-> Nothing, holds |-> {}]

SettingsTypeOK ==
    /\ settings \in Settings \cup {Absent}
    /\ copy \in Settings \cup {Absent}
    /\ settingsRq \in [Request -> SettingsRequest]
    /\ owed \in Settings
    /\ crossing \in BOOLEAN
    /\ broken \in BOOLEAN

SettingsInit ==
    /\ settings = Absent
    /\ copy = Absent
    /\ settingsRq = [r \in Request |-> SettingsIdle]
    /\ owed = {}
    /\ crossing = FALSE
    /\ broken = FALSE

Content == IF settings = Absent THEN {} ELSE settings

-----------------------------------------------------------------------------
SettingsGo(r, stage, holds) ==
    settingsRq' = [settingsRq EXCEPT ![r] = [stage |-> stage, key |-> @.key, holds |-> holds]]
SettingsDone(r) == settingsRq' = [settingsRq EXCEPT ![r] = SettingsIdle]

SettingsBegin(r, stage, key) ==
    /\ settingsRq[r].stage = "idle"
    /\ settingsRq' = [settingsRq EXCEPT ![r] = [stage |-> stage, key |-> key, holds |-> {}]]
    /\ crossing' = (crossing \/ \E q \in Request \ {r} : settingsRq[q].stage # "idle")
    /\ UNCHANGED <<settings, copy, owed, broken>>

GetSettings(r) == SettingsBegin(r, "read", Nothing)
UpdateSettings(r, key) == SettingsBegin(r, "read", key)
DeleteSettings(r) == SettingsBegin(r, "deleting", Nothing)

\* What readSettings gives: the end of a getSettings, the base of an update.
Given(r, holds) ==
    IF settingsRq[r].key = Nothing THEN SettingsDone(r) ELSE SettingsGo(r, "merge", holds)

\* readSettings: the copy, or else the row ...
ReadSettings(r) ==
    /\ settingsRq[r].stage = "read"
    /\ IF copy # Absent THEN Given(r, copy) ELSE SettingsGo(r, "loaded", Content)
    /\ UNCHANGED <<settings, copy, owed, crossing, broken>>

\* ... which becomes the copy.
FillSettings(r) ==
    /\ settingsRq[r].stage = "loaded"
    /\ copy' = settingsRq[r].holds
    /\ Given(r, settingsRq[r].holds)
    /\ UNCHANGED <<settings, owed, crossing, broken>>

\* Mutant: the update replaces what was there.
Merge_Replace(r) == {settingsRq[r].key}

Merge(r) == settingsRq[r].holds \cup {settingsRq[r].key}

\* writeSettings: the row, ...
UpsertSettings(r) ==
    /\ settingsRq[r].stage = "merge"
    /\ settings' = Merge(r)
    /\ SettingsGo(r, "written", Merge(r))
    /\ UNCHANGED <<copy, owed, crossing, broken>>

\* ... then the copy.
CopySettings(r) ==
    /\ settingsRq[r].stage = "written"
    /\ copy' = settingsRq[r].holds
    /\ owed' = owed \cup {settingsRq[r].key}
    /\ SettingsDone(r)
    /\ UNCHANGED <<settings, crossing, broken>>

\* The row; without one the deletion fails.
DeleteSettingsRow(r) ==
    /\ settingsRq[r].stage = "deleting"
    /\ settings' = Absent
    /\ IF settings = Absent THEN SettingsDone(r) /\ UNCHANGED owed
       ELSE SettingsGo(r, "deleted", {}) /\ owed' = {}
    /\ UNCHANGED <<copy, crossing, broken>>

DeleteSettingsCopy(r) ==
    /\ settingsRq[r].stage = "deleted"
    /\ copy' = Absent
    /\ SettingsDone(r)
    /\ UNCHANGED <<settings, owed, crossing, broken>>

SettingsFail(r) ==
    /\ MayFail
    /\ settingsRq[r].stage # "idle"
    /\ broken' = (broken \/ settingsRq[r].stage \in {"written", "deleted"})
    /\ SettingsDone(r)
    /\ UNCHANGED <<settings, copy, owed, crossing>>

SettingsNext == \E r \in Request :
    \/ GetSettings(r) \/ DeleteSettings(r) \/ \E key \in Key : UpdateSettings(r, key)
    \/ ReadSettings(r) \/ FillSettings(r) \/ UpsertSettings(r) \/ CopySettings(r)
    \/ DeleteSettingsRow(r) \/ DeleteSettingsCopy(r) \/ SettingsFail(r)

SettingsSpec == SettingsInit /\ [][SettingsNext]_settingsVars
-----------------------------------------------------------------------------
(* Properties *)

\* Requests that do not overlap lose no setting whose update was answered with
\* success, although an update starts from a copy that an earlier one may have
\* failed to write; and unless one did fail there, what is given out between
\* requests is what is stored.
SettingsAreKept ==
    ~crossing =>
        /\ owed \subseteq Content
        /\ ~broken /\ (\A r \in Request : settingsRq[r].stage = "idle") =>
                copy \in {Absent, Content}
-----------------------------------------------------------------------------
(* The inductive invariant behind it.                                        *)

\* What each request that is alone has to hold for its writes to keep what is owed.
HeldInv == \A r \in Request :
    LET q == settingsRq[r] IN
    /\ q.stage \in {"loaded", "written", "deleted"} => q.holds = Content
    /\ q.stage = "written" => q.key \in q.holds
    /\ q.stage = "merge" => owed \subseteq q.holds
    /\ q.stage = "merge" /\ ~broken => q.holds = Content
    /\ q.stage = "deleted" => owed = {} /\ settings = Absent

OneAtATime == \A r, q \in Request :
    settingsRq[r].stage # "idle" /\ settingsRq[q].stage # "idle" => r = q

SettingsIInv ==
    /\ SettingsTypeOK
    /\ ~crossing =>
        /\ OneAtATime
        /\ HeldInv
        /\ owed \subseteq Content
        /\ copy # Absent => owed \subseteq copy
        /\ ~broken /\ (\A r \in Request : settingsRq[r].stage \notin {"written", "deleted"}) =>
                copy \in {Absent, Content}
=============================================================================
