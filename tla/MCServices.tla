----------------------------- MODULE MCServices -----------------------------
(***************************************************************************)
(* ContentCache, TenantSettings and Background in one run.  They share no  *)
(* variable and no statement, so a behaviour takes the steps of one of     *)
(* them.  ContentCache comes in a slice for each kind of entity, whose     *)
(* copies are stored and deleted without a look at the others, and         *)
(* Background in one with mails and one without.                           *)
(***************************************************************************)
EXTENDS ContentCache, TenantSettings, Background

VARIABLE service

Kind == [projectCopies |-> {"project", "projects"}, taskCopies |-> {"task", "tasks"},
         profileCopies |-> {"profile"}]
Source == [mails |-> {"email"}, entries |-> {"audit", "notification"}]

Cache == DOMAIN Kind
Queues == DOMAIN Source

MCInit ==
    /\ service \in {"settings"} \cup Cache \cup Queues
    /\ CacheInit /\ SettingsInit /\ BgInit

MCNext ==
    /\ UNCHANGED service
    /\ \/ /\ service \in Cache
          /\ CacheNext
          /\ cached' \subseteq Kind[service]
          /\ \A r \in Request : cacheRq'[r].stage = "loaded" => cacheRq'[r].copy \in Kind[service]
          /\ UNCHANGED <<settingsVars, bgVars>>
       \/ service = "settings" /\ SettingsNext /\ UNCHANGED <<cacheVars, bgVars>>
       \/ /\ service \in Queues
          /\ BgNext
          /\ \A e \in Event \ Source[service] : event'[e] = "new"
          /\ UNCHANGED <<cacheVars, settingsVars>>

\* The fairness of the two, where it is their turn.
MCFairness ==
    /\ CacheFairness
    /\ WF_bgVars(service \in Queues /\ Advance)
    /\ \A e \in Event : WF_bgVars(service \in Queues /\ Work(e))

MCSpec ==
    /\ MCInit
    /\ [][MCNext]_<<service, cacheVars, settingsVars, bgVars>>
    /\ MCFairness

TypesOK == CacheTypeOK /\ SettingsTypeOK /\ BgTypeOK
=============================================================================
