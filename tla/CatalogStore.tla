------------------------------ MODULE CatalogStore ------------------------------
(***************************************************************************)
(* The catalog and its copy in SQLite (persistStorageState,                *)
(* restoreCatalogState in internal/server/server.go, ReplaceCatalog in     *)
(* internal/storage/sqlite.go).  A snapshot of the catalog is taken, the   *)
(* process goes on, and the snapshot replaces the stored one in a single   *)
(* transaction.  The process may stop at any time; a new one builds the    *)
(* catalog from its configuration, opens the database (module Migration)   *)
(* and restores the stored state.  CLI commands that probe models store    *)
(* rows of their own.                                                      *)
(***************************************************************************)
EXTENDS Catalog, Migration

CONSTANTS NoSnapshot,
  Server  \* the opener that serves; the others are CLI commands

ASSUME ServerAssumption == Server \in Openers

(* Bound: the failures of a model that are counted, of a command's too. *)
ASSUME StoreAssumption == MaxFailures # 0

VARIABLES
  serving,   \* the server has restored its catalog
  snapshot,  \* what the server's persistStorageState has read, or NoSnapshot
  stored,    \* the model_catalog table
  lapsed     \* history: suspects just restored from the row of an expired cooldown

(* The rows, and as history the suspects when they were read. *)
Table == [rows : [Ids -> Entry \cup {Absent}], suspect : SUBSET Ids]

storage   == <<snapshot, stored>>
storeVars == <<vars, storage, lapsed, serving, schema>>

StoreTypeOK ==
  /\ TypeOK /\ SchemaTypeOK
  /\ serving \in BOOLEAN
  /\ snapshot \in Table \cup {NoSnapshot}
  /\ stored \in Table
  /\ lapsed \in SUBSET Ids

StoreInit ==
  /\ Init /\ SchemaInit
  /\ serving = FALSE
  /\ snapshot = NoSnapshot
  /\ stored = [rows |-> models, suspect |-> {}]
  /\ lapsed = {}
-----------------------------------------------------------------------------
(* GetAllModels refreshes the expired cooldowns before it copies. *)
Snapshot ==
  /\ serving /\ snapshot = NoSnapshot
  /\ ~\E id \in Ids : Expired(id)
  /\ snapshot' = [rows |-> models, suspect |-> suspect]
  /\ UNCHANGED <<vars, stored, lapsed, serving, schema>>

(* ReplaceCatalog: the transaction that deletes and writes every row. *)
ReplaceCatalog ==
  /\ snapshot # NoSnapshot
  /\ stored' = snapshot
  /\ snapshot' = NoSnapshot
  /\ UNCHANGED <<vars, lapsed, serving, schema>>

\* Mutant: the stored status is restored and an expired cooldown with it.
RestoreModelState_Verbatim(m, record) ==
  IF m = Absent \/ record = Absent THEN m
  ELSE IF now < record.until
       THEN [m EXCEPT !.failures = record.failures, !.status = "cooldown",
                      !.until = record.until]
  ELSE [m EXCEPT !.failures = record.failures,
                 !.status = IF record.status = "cooldown" THEN m.status
                                                          ELSE record.status]

(* The entry of the new process after RestoreModelState.  A row that says  *)
(* "unknown" leaves the status the configuration gave, and only a cooldown *)
(* touches the expiry.                                                     *)
RestoreModelState(m, record) ==
  LET counted == [m EXCEPT !.failures = record.failures]
  IN  IF m = Absent \/ record = Absent THEN m
      ELSE IF now < record.until
           THEN [counted EXCEPT !.status = "cooldown", !.until = record.until]
      ELSE IF record.status = "cooldown"
           THEN [counted EXCEPT !.status = "unknown", !.until = 0]
      ELSE IF record.status # "unknown"
           THEN [counted EXCEPT !.status = record.status]
      ELSE counted

(* The entry of a model a CLI command has probed.  A model in cooldown is  *)
(* not asked.                                                              *)
Probed(m, works) ==
  IF now < m.until THEN m
  ELSE IF works THEN [m EXCEPT !.status = "healthy", !.until = 0, !.failures = 0]
  ELSE Failed(m, 0)

Listings == {f \in [Providers -> SUBSET Ids] : \A p \in Providers : f[p] \subseteq Offers[p]}
Listed(ids) == UNION {ids[p] : p \in Providers}
Registered(ids, fresh, id) ==
  Merge(CHOOSE p \in Providers : id \in ids[p], Absent, fresh[id])

(* ghrouter probe and verify-models: a process with a catalog of its own,  *)
(* which it builds from the configuration and never restores, probes some  *)
(* models and replaces the rows of all.  Bound: it runs while the server   *)
(* serves, and finds nothing to migrate; what it stores while the server   *)
(* is down it might have stored just before, and what it stores between a  *)
(* snapshot and ReplaceCatalog is lost.                                    *)
PersistCurrentState(ids, fresh, tested, working) ==
  /\ serving /\ snapshot = NoSnapshot
  /\ LET entries == [id \in Listed(ids) |->
           IF id \in tested THEN Probed(Registered(ids, fresh, id), id \in working)
                            ELSE Registered(ids, fresh, id)]
         asked   == {id \in tested : ~(now < Registered(ids, fresh, id).until)}
         failing == IF policy.enabled THEN asked \ working ELSE {}
     IN  stored' = [rows |-> [id \in Ids |-> IF id \in Listed(ids) THEN entries[id] ELSE Absent],
                    suspect |-> (stored.suspect \ (asked \cap working)) \cup failing]
  /\ UNCHANGED <<vars, snapshot, lapsed, serving, schema>>

(* The process stops, with all it had in memory. *)
Stop ==
  /\ CloseDatabase(Server)
  /\ models' = [id \in Ids |-> Absent]
  /\ byProvider' = [p \in Providers |-> {}]
  /\ bySlot' = [s \in Slots |-> None]
  /\ suspect' = {} /\ quarantined' = {} /\ lapsed' = {}
  /\ snapshot' = NoSnapshot
  /\ serving' = FALSE
  /\ UNCHANGED <<policy, now, stored>>

(* A new one has registered the models of the configuration (newServer)    *)
(* and opened the database; ListenAndServe restores the rows and writes    *)
(* them back before it serves.  Bound: CLI commands that migrate have      *)
(* finished by then.                                                       *)
Restore(ids, fresh) ==
  LET kept      == stored.suspect \cap Listed(ids)
      unknown   == {id \in kept : stored.rows[id].status = "unknown"}
      forgotten == {id \in kept : stored.rows[id].status \in {"healthy", "absent"}}
  IN  /\ ~serving /\ opener[Server].at = "open"
      /\ \A o \in Openers \ {Server} : opener[o].at = "closed"
      /\ models' = [id \in Ids |->
           IF id \in Listed(ids)
           THEN RestoreModelState(Registered(ids, fresh, id), stored.rows[id])
           ELSE Absent]
      /\ byProvider' = ids
      /\ RebuildSlots
      /\ suspect' = kept \ (unknown \cup forgotten)
      /\ stored' = [rows |-> models', suspect |-> suspect']
      /\ lapsed' = {id \in unknown : stored.rows[id].until = 0}
      /\ serving' = TRUE
      /\ UNCHANGED <<quarantined, policy, now, snapshot, schema>>

Opening ==
  /\ ~serving
  /\ \/ \E o \in Openers : OpenStep(o)
     \/ \E o \in Openers \ {Server} : CloseDatabase(o)
  /\ UNCHANGED <<vars, storage, lapsed, serving>>

StoreNext ==
  \/ serving /\ Operation /\ lapsed' = {} /\ UNCHANGED <<storage, serving, schema>>
  \/ Tick /\ lapsed' = {} /\ UNCHANGED <<storage, serving, schema>>
  \/ Snapshot \/ ReplaceCatalog
  \/ Stop \/ Opening
  \/ \E ids \in Listings : \E fresh \in [Listed(ids) -> FreshStates] :
       \/ Restore(ids, fresh)
       \/ \E tested \in SUBSET Listed(ids) : \E working \in SUBSET tested :
            PersistCurrentState(ids, fresh, tested, working)

StoreSpec == StoreInit /\ [][StoreNext]_storeVars
-----------------------------------------------------------------------------
(* NoUnprobedRevival of the catalog now spans restarts: a model that had   *)
(* failed and not worked since when its row was stored is not healthy      *)
(* after any number of restarts, even when the cooldown expired while the  *)
(* process was down and the configuration calls the model healthy, and     *)
(* when CLI commands have probed it.  Restore takes two kinds out of       *)
(* suspect, of which the next two properties tell: those whose row says    *)
(* "unknown", and those whose row a CLI command has lost.                  *)
SuspicionSurvivesRestart == NoUnprobedRevival

(* docs/gap-analysis.md:13: "expired cooldowns remain excluded until a     *)
(* successful fresh probe".  The cooldown that expired before the process  *)
(* stopped is such a cooldown.                                             *)
ExpiredStaysExcluded ==
  \A id \in lapsed : Sole(id) => models[id].status # "healthy"

(* docs/implementation-status.md:16: ghrouter "persists real verification  *)
(* state in model_info and SQLite, restores that evidence across restart". *)
(* A command that probes one model writes what the configuration says over *)
(* what the server had stored of the others.                               *)
FailureKept == \A id \in stored.suspect : stored.rows[id].status # "healthy"
=============================================================================
