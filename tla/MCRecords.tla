------------------------------ MODULE MCRecords -----------------------------
(*****************************************************************************)
(* What must survive: the lease by which one region publishes, with the      *)
(* records that are only appended (Records), the databases and their copies  *)
(* (Persistence) and the keys, tokens and quotas of the API (ApiAccess).     *)
(*                                                                           *)
(* A behaviour is about one component, named by focus; the others keep the   *)
(* value they start with.                                                    *)
(*****************************************************************************)
EXTENDS SubmissionLease, ApiAccess, Integers, Sequences, FiniteSets

CONSTANT Focus  \* the components whose behaviours a run explores

VARIABLES
    focus,  \* the component a behaviour is about
    auditRows, auditPc, seen, raced, edited, edits, made, eventPc, eventPrev,
    altered, eventOverlapped, queue, worker, run, emitted, dropped, lost,
    events, models, proc, faults, trades, manifest, file, exp, exportOverlapped,
    alone, complete, runs, crashes,
    done, applying, schemaVersion, schemaProc, schemaCrashes, source, dest,
    txn, plan, step, verified, writes, copyRuns, retainedClock, stamp,
    retainedHot, warm, retainedCold, archive, retainedJob, purge,
    retainedQuery, retainedCrashes, table, rows, nextId, resultClock, client,
    redis, fallback, lru, storeClock, got, newest, storeDropped, day,
    recorded, pair, archiveHot, archiveCold, archiveJob, archiveQuery,
    archiveCrashes

MCInputs == [a |-> {"d1"}, b |-> {"d1", "d2"}]
MCOutputs == [a |-> {"d2"}, b |-> {"d3"}]
MCJobOf == [a |-> "train", b |-> "train"]
MCLike == [d1 |-> {"d1", "d2"}, d2 |-> {"d2"}, d3 |-> {"d3"}]

Records == INSTANCE Records WITH
    Writers <- {"api", "worker"}, MaxRows <- 3, MaxEdits <- 2,
    MaxEvents <- 4, MaxPending <- 2, ReplayLimit <- 3, MaxAltered <- 2,
    Runs <- {"a", "b"}, Inputs <- MCInputs, Outputs <- MCOutputs,
    JobOf <- MCJobOf, Like <- MCLike,
    MaxSize <- 2, MaxFaults <- 1, Parts <- 1 .. 2, KeyOf <- <<1, 2>>,
    Exporters <- {"x1"}, MaxTrades <- 3, MaxRuns <- 2, MaxCrashes <- 1

Persistence == INSTANCE Persistence WITH
    Procs <- {"p1", "p2"}, SchemaMaxCrashes <- 1, CopyTables <- {1, 2},
    CopyRows <- {1}, Contents <- {1, 2}, MaxWrites <- 2, MaxRuns <- 2,
    HotDays <- 0, WarmDays <- 1, RetainedTTL <- 1, RetainedMaxRows <- 1,
    RetainedMaxTime <- 2, RetainedMaxCrashes <- 1, ResultMaxRows <- 4,
    ResultMaxTime <- 2, PageSize <- 2, ResultTTL <- 1, Keys <- {"k1", "k2"},
    MaxFallback <- 1, MaxUpdates <- 4, Archivers <- {"a1", "a2"},
    CutoffDays <- 1, ArchiveMaxRows <- 2, MaxDay <- 3,
    ArchiveMaxCrashes <- 1, version <- schemaVersion, proc <- schemaProc,
    runs <- copyRuns, dropped <- storeDropped

(* The variables of each component, and their value while another one runs. *)
auditLogVars == <<auditRows, auditPc, seen, raced, edited, edits>>
auditLogOff == auditRows = 0 /\ auditPc = 0 /\ seen = 0 /\ raced = 0 /\
               edited = 0 /\ edits = 0
scoringEventsVars == <<made, eventPc, eventPrev, altered, eventOverlapped>>
scoringEventsOff == made = 0 /\ eventPc = 0 /\ eventPrev = 0 /\
                    altered = 0 /\ eventOverlapped = 0
lineageLogVars == <<queue, worker, run, emitted, dropped, lost, events, models, proc,
                    faults>>
lineageLogOff == queue = 0 /\ worker = 0 /\ run = 0 /\ emitted = 0 /\ dropped = 0 /\
                 lost = 0 /\ events = 0 /\ models = 0 /\ proc = 0 /\
                 faults = 0
parquetExportVars == <<trades, manifest, file, exp, exportOverlapped, alone,
                       complete, runs, crashes>>
parquetExportOff == trades = 0 /\ manifest = 0 /\ file = 0 /\ exp = 0 /\
                    exportOverlapped = 0 /\ alone = 0 /\ complete = 0 /\
                    runs = 0 /\ crashes = 0
schemaMigrationVars == <<done, applying, schemaVersion, schemaProc,
                         schemaCrashes>>
schemaMigrationOff == done = 0 /\ applying = 0 /\ schemaVersion = 0 /\
                      schemaProc = 0 /\ schemaCrashes = 0
postgresMigrationVars == <<source, dest, txn, plan, step, verified, writes,
                           copyRuns>>
postgresMigrationOff == source = 0 /\ dest = 0 /\ txn = 0 /\ plan = 0 /\
                        step = 0 /\ verified = 0 /\ writes = 0 /\
                        copyRuns = 0
tieredRetentionVars == <<retainedClock, stamp, retainedHot, warm,
                         retainedCold, archive, retainedJob, purge,
                         retainedQuery, retainedCrashes>>
tieredRetentionOff == retainedClock = 0 /\ stamp = 0 /\ retainedHot = 0 /\
                      warm = 0 /\ retainedCold = 0 /\ archive = 0 /\
                      retainedJob = 0 /\ purge = 0 /\ retainedQuery = 0 /\
                      retainedCrashes = 0
resultStoreVars == <<table, rows, nextId, resultClock, client>>
resultStoreOff == table = 0 /\ rows = 0 /\ nextId = 0 /\ resultClock = 0 /\
                  client = 0
featureStoreVars == <<redis, fallback, lru, storeClock, got, newest,
                      storeDropped>>
featureStoreOff == redis = 0 /\ fallback = 0 /\ lru = 0 /\ storeClock = 0 /\
                   got = 0 /\ newest = 0 /\ storeDropped = 0
featureArchiveVars == <<day, recorded, pair, archiveHot, archiveCold,
                        archiveJob, archiveQuery, archiveCrashes>>
featureArchiveOff == day = 0 /\ recorded = 0 /\ pair = 0 /\ archiveHot = 0 /\
                     archiveCold = 0 /\ archiveJob = 0 /\ archiveQuery = 0 /\
                     archiveCrashes = 0
recordsVars == <<auditLogVars, scoringEventsVars, lineageLogVars,
                 parquetExportVars>>
persistenceVars == <<schemaMigrationVars, postgresMigrationVars,
                     tieredRetentionVars, resultStoreVars, featureStoreVars,
                     featureArchiveVars>>
apiAccessVars == <<gatewayVars, tokenVars, namespaceVars>>
suiteVars ==
    <<focus, vars, recordsVars, persistenceVars, apiAccessVars>>

SuiteInit ==
    /\ focus \in Focus
    /\ Init /\ (focus # "SubmissionLease" => ~exists)
    /\ IF focus = "AuditLog" THEN Records!AuditInit ELSE auditLogOff
    /\ IF focus = "ScoringEvents" THEN Records!EventInit ELSE scoringEventsOff
    /\ IF focus = "LineageLog" THEN Records!LineageInit ELSE lineageLogOff
    /\ IF focus = "ParquetExport" THEN Records!ExportInit ELSE parquetExportOff
    /\ IF focus = "SchemaMigration" THEN Persistence!SchemaInit ELSE schemaMigrationOff
    /\ IF focus = "PostgresMigration" THEN Persistence!CopyInit ELSE postgresMigrationOff
    /\ IF focus = "TieredRetention" THEN Persistence!RetainedInit ELSE tieredRetentionOff
    /\ IF focus = "ResultStore" THEN Persistence!ResultInit ELSE resultStoreOff
    /\ IF focus = "FeatureStore" THEN Persistence!StoreInit ELSE featureStoreOff
    /\ IF focus = "FeatureArchive" THEN Persistence!ArchiveInit ELSE featureArchiveOff
    /\ GatewayInit /\ TokenInit /\ NamespaceInit

HostNext ==
    /\ focus = "SubmissionLease" /\ Next
    /\ UNCHANGED <<focus, recordsVars, persistenceVars, apiAccessVars>>

AuditLogNext ==
    /\ focus = "AuditLog" /\ Records!AuditNext
    /\ UNCHANGED <<focus, vars, persistenceVars, apiAccessVars,
                    scoringEventsVars, lineageLogVars, parquetExportVars>>

ScoringEventsNext ==
    /\ focus = "ScoringEvents" /\ Records!EventNext
    /\ UNCHANGED <<focus, vars, persistenceVars, apiAccessVars,
                    auditLogVars, lineageLogVars, parquetExportVars>>

LineageLogNext ==
    /\ focus = "LineageLog" /\ Records!LineageNext
    /\ UNCHANGED <<focus, vars, persistenceVars, apiAccessVars,
                    auditLogVars, scoringEventsVars, parquetExportVars>>

ParquetExportNext ==
    /\ focus = "ParquetExport" /\ Records!ExportNext
    /\ UNCHANGED <<focus, vars, persistenceVars, apiAccessVars,
                    auditLogVars, scoringEventsVars, lineageLogVars>>

SchemaMigrationNext ==
    /\ focus = "SchemaMigration" /\ Persistence!SchemaNext
    /\ UNCHANGED <<focus, vars, recordsVars, apiAccessVars,
                    postgresMigrationVars, tieredRetentionVars,
                    resultStoreVars, featureStoreVars, featureArchiveVars>>

PostgresMigrationNext ==
    /\ focus = "PostgresMigration" /\ Persistence!CopyNext
    /\ UNCHANGED <<focus, vars, recordsVars, apiAccessVars,
                    schemaMigrationVars, tieredRetentionVars,
                    resultStoreVars, featureStoreVars, featureArchiveVars>>

TieredRetentionNext ==
    /\ focus = "TieredRetention" /\ Persistence!RetainedNext
    /\ UNCHANGED <<focus, vars, recordsVars, apiAccessVars,
                    schemaMigrationVars, postgresMigrationVars,
                    resultStoreVars, featureStoreVars, featureArchiveVars>>

ResultStoreNext ==
    /\ focus = "ResultStore" /\ Persistence!ResultNext
    /\ UNCHANGED <<focus, vars, recordsVars, apiAccessVars,
                    schemaMigrationVars, postgresMigrationVars,
                    tieredRetentionVars, featureStoreVars, featureArchiveVars>>

FeatureStoreNext ==
    /\ focus = "FeatureStore" /\ Persistence!StoreNext
    /\ UNCHANGED <<focus, vars, recordsVars, apiAccessVars,
                    schemaMigrationVars, postgresMigrationVars,
                    tieredRetentionVars, resultStoreVars, featureArchiveVars>>

FeatureArchiveNext ==
    /\ focus = "FeatureArchive" /\ Persistence!ArchiveNext
    /\ UNCHANGED <<focus, vars, recordsVars, apiAccessVars,
                    schemaMigrationVars, postgresMigrationVars,
                    tieredRetentionVars, resultStoreVars, featureStoreVars>>

ApiGatewayNext ==
    /\ focus = "ApiGateway" /\ GatewayNext
    /\ UNCHANGED <<focus, vars, recordsVars, persistenceVars,
                    tokenVars, namespaceVars>>

AccessTokensNext ==
    /\ focus = "AccessTokens" /\ TokenNext
    /\ UNCHANGED <<focus, vars, recordsVars, persistenceVars,
                    gatewayVars, namespaceVars>>

NamespaceKeysNext ==
    /\ focus = "NamespaceKeys" /\ NamespaceNext
    /\ UNCHANGED <<focus, vars, recordsVars, persistenceVars,
                    gatewayVars, tokenVars>>

SuiteNext ==
    \/ HostNext \/ AuditLogNext \/ ScoringEventsNext \/ LineageLogNext \/
       ParquetExportNext \/ SchemaMigrationNext \/ PostgresMigrationNext \/
       TieredRetentionNext \/ ResultStoreNext \/ FeatureStoreNext \/
       FeatureArchiveNext \/ ApiGatewayNext \/ AccessTokensNext \/
       NamespaceKeysNext

SuiteSpec ==
    /\ SuiteInit /\ [][SuiteNext]_suiteVars
    \* Live regions keep submitting and their requests get through now and then.
    /\ WF_vars(focus = "SubmissionLease" /\ Tick)
    /\ \A r \in Regions :
          /\ WF_vars(focus = "SubmissionLease" /\ Acquire(r))
          /\ WF_vars(focus = "SubmissionLease" /\ Create(r))
          /\ SF_vars(focus = "SubmissionLease" /\ Replace(r))
          /\ WF_vars(focus = "SubmissionLease" /\ ReplaceFails(r))
          /\ WF_vars(focus = "SubmissionLease" /\ Published(r))

-----------------------------------------------------------------------------
(* What was recorded is what is read: edits of the audit log are found and  *)
(* nothing else, the chain of scoring events has no fork and is verified    *)
(* exactly, the lineage log has every edge, and no exported trade is lost.  *)
RecordsAreFaithful ==
    /\ focus = "AuditLog" => Records!AuditTypeOK /\ Records!EditsAreFound /\ Records!NoFalseAlarm
    /\ focus = "ScoringEvents" => Records!EventTypeOK /\ Records!VerifyIsExact /\ Records!NoFork
    /\ focus = "LineageLog" => Records!LineageTypeOK /\ Records!LineageIsFaithful
    /\ focus = "ParquetExport" => Records!ExportTypeOK /\ Records!ExportLosesNothing

(* What was stored is found again: a schema version has its tables, no tier *)
(* of retention hides a row from a query, no page skips one, and a vector   *)
(* that is read is the newest that was stored.                              *)
StoresKeepEverything ==
    /\ focus = "SchemaMigration" => Persistence!SchemaTypeOK /\ Persistence!VersionHasItsTables
    /\ focus = "TieredRetention" => Persistence!RetainedTypeOK /\ Persistence!QueryMissesNothing
    /\ focus = "ResultStore" => Persistence!ResultTypeOK /\ Persistence!PagingSkipsNothing
    /\ focus = "FeatureStore" => Persistence!StoreTypeOK /\ Persistence!ReadsNewestOrNothing
    /\ focus = "FeatureArchive" => Persistence!ArchiveTypeOK /\ Persistence!QueryFindsEverySnapshot

(* A migration to PostgreSQL that reports success copied what it compared.  *)
MigrationIsExact == [][focus = "PostgresMigration" => Persistence!MigrationIsExactStep]_suiteVars
=============================================================================
