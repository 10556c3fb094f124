----------------------------- MODULE Persistence ----------------------------
(*****************************************************************************)
(* What is stored: schema migration, the copy to PostgreSQL, retention in    *)
(* tiers, the results table, and the store of feature vectors with its       *)
(* archive.                                                                  *)
(*****************************************************************************)
EXTENDS Integers, Sequences, FiniteSets, Bags, FiniteSetsExt, SequencesExt, TLC

-----------------------------------------------------------------------------
(***************************************************************************)
(* migrate_db of detection/storage.py, which every public storage function *)
(* calls first: a list of numbered SQL scripts, a version row, and a log   *)
(* row per migration whose status 'applying' marks one that was cut short. *)
(* The list is abstracted to the part that matters: two entries carry the  *)
(* number 15, here 2; a script is either made of CREATE ... IF NOT EXISTS  *)
(* or of ALTER TABLE ... ADD COLUMN, which fails on the second run.        *)
(***************************************************************************)

CONSTANTS Procs,        \* processes that open the database
          SchemaMaxCrashes    \* bound: processes that die

Script == 1 .. 4
Version == <<1, 2, 2, 3>>
Alters == {2}

VARIABLES
    done,       \* scripts whose statements have all run
    applying,   \* applying[v]: there is a log row of v with status 'applying'
    version,    \* schema_version
    proc,       \* proc[p]: [at, current, i] - the loop's position
    schemaCrashes

schemaVars == <<done, applying, version, proc, schemaCrashes>>

Closed == [at |-> "closed", current |-> 0, i |-> 0]
Places == {"closed", "checked", "loop", "script", "finish", "ready"}

SchemaTypeOK ==
    /\ done \subseteq Script /\ applying \in [1 .. 3 -> BOOLEAN] /\ version \in 0 .. 3
    /\ proc \in [Procs -> [at : Places, current : 0 .. 3, i : 0 .. 5]]
    /\ schemaCrashes \in 0 .. SchemaMaxCrashes

SchemaInit ==
          /\ done = {} /\ applying = [v \in 1 .. 3 |-> FALSE] /\ version = 0
          /\ proc = [p \in Procs |-> Closed] /\ schemaCrashes = 0

Goto(p, at) == proc' = [proc EXCEPT ![p].at = at]
-----------------------------------------------------------------------------
\* An interrupted migration stops every process with SchemaMigrationError.
CheckInterrupted(p) ==
    /\ proc[p].at = "closed" /\ \A v \in 1 .. 3 : ~applying[v]
    /\ Goto(p, "checked") /\ UNCHANGED <<done, applying, version, schemaCrashes>>

GetSchemaVersion(p) ==
    /\ proc[p].at = "checked"
    /\ proc' = [proc EXCEPT ![p] = [at |-> "loop", current |-> version, i |-> 1]]
    /\ UNCHANGED <<done, applying, version, schemaCrashes>>

\* version <= current: continue.  current was read once, before the loop.
SkipMigration(p) ==
    /\ proc[p].at = "loop" /\ proc[p].i \in Script
    /\ Version[proc[p].i] <= proc[p].current
    /\ proc' = [proc EXCEPT ![p].i = @ + 1]
    /\ UNCHANGED <<done, applying, version, schemaCrashes>>

BeginMigration(p) ==
    /\ proc[p].at = "loop" /\ proc[p].i \in Script
    /\ Version[proc[p].i] > proc[p].current
    /\ applying' = [applying EXCEPT ![Version[proc[p].i]] = TRUE]
    /\ Goto(p, "script") /\ UNCHANGED <<done, version, schemaCrashes>>

\* executescript; an ALTER of a column that exists raises, and the log row
\* keeps its status.
RunScript(p) ==
    LET i == proc[p].i IN
    /\ proc[p].at = "script"
    /\ \/ i \notin Alters \cap done /\ done' = done \cup {i} /\ Goto(p, "finish")
       \/ i \in Alters \cap done /\ proc' = [proc EXCEPT ![p] = Closed] /\ UNCHANGED done
    /\ UNCHANGED <<applying, version, schemaCrashes>>

\* One transaction: the log rows of v are 'applied' and schema_version is v.
FinishMigration(p) ==
    LET v == Version[proc[p].i] IN
    /\ proc[p].at = "finish" /\ applying' = [applying EXCEPT ![v] = FALSE]
    /\ version' = v /\ proc' = [proc EXCEPT ![p].at = "loop", ![p].i = @ + 1]
    /\ UNCHANGED <<done, schemaCrashes>>

Opened(p) ==
    /\ proc[p].at = "loop" /\ proc[p].i \notin Script /\ Goto(p, "ready")
    /\ UNCHANGED <<done, applying, version, schemaCrashes>>

Close(p) ==
    /\ proc[p].at = "ready" /\ proc' = [proc EXCEPT ![p] = Closed]
    /\ UNCHANGED <<done, applying, version, schemaCrashes>>

SchemaCrash(p) ==
    /\ proc[p].at # "closed" /\ schemaCrashes < SchemaMaxCrashes /\ schemaCrashes' = schemaCrashes + 1
    /\ proc' = [proc EXCEPT ![p] = Closed] /\ UNCHANGED <<done, applying, version>>

\* What SchemaMigrationError asks of the operator: complete the SQL by hand,
\* set the status to 'applied', start again.
Recover(v) ==
    /\ applying[v] /\ \A p \in Procs : proc[p].at = "closed"
    /\ done' = done \cup {i \in Script : Version[i] = v}
    /\ applying' = [applying EXCEPT ![v] = FALSE]
    /\ UNCHANGED <<version, proc, schemaCrashes>>

SchemaNext ==
          \/ \E p \in Procs :
               \/ CheckInterrupted(p) \/ GetSchemaVersion(p) \/ SkipMigration(p)
               \/ BeginMigration(p) \/ RunScript(p) \/ FinishMigration(p)
               \/ Opened(p) \/ Close(p) \/ SchemaCrash(p)
          \/ \E v \in 1 .. 3 : Recover(v)

SchemaSpec == SchemaInit /\ [][SchemaNext]_schemaVars
-----------------------------------------------------------------------------
(* The version row promises tables: for every number up to it some script  *)
(* of that number has run, whatever the processes that open the database   *)
(* together and die in the middle do, and although a slower process may    *)
(* set the version back.                                                   *)
VersionHasItsTables ==
    \A v \in 1 .. version : \E i \in done : Version[i] = v

-----------------------------------------------------------------------------
(***************************************************************************)
(* scripts/migrate_sqlite_to_postgres.py: the tables of the SQLite store   *)
(* are copied into PostgreSQL in one transaction, which commits only when  *)
(* counts and checksums of both sides agree, while services may still      *)
(* write to the source.  The script may be run again.                      *)
(*                                                                         *)
(* A table is a function from row ids to row contents (0: no row); the     *)
(* destination is a bag of contents, since rows are appended.  A checksum  *)
(* is the sum of the hashes of rows and separates different bags.          *)
(***************************************************************************)

CONSTANTS CopyTables,              \* in the order of the script's list
          CopyRows, Contents,      \* row ids, row contents
          MaxWrites, MaxRuns   \* bounds

VARIABLES
    source,     \* table -> row -> content
    dest,       \* table -> bag: what PostgreSQL has committed
    txn,        \* table -> bag the open transaction appended
    plan,       \* tables the run found non-empty
    step,       \* [pc, table]: the script's place
    verified,   \* history: table -> the source bag its verification saw
    writes, runs

copyVars == <<source, dest, txn, plan, step, verified, writes, runs>>

BagOf(t) == [c \in {source[t][r] : r \in CopyRows} \ {0} |->
               Cardinality({r \in CopyRows : source[t][r] = c})]

Empty == [t \in CopyTables |-> EmptyBag]
CopyIdle == [pc |-> "idle", table |-> 0]

CopyTypeOK == /\ source \in [CopyTables -> [CopyRows -> Contents \cup {0}]]
              /\ step.pc \in {"idle", "copy", "verify"} /\ plan \subseteq CopyTables

CopyInit == /\ source \in [CopyTables -> [CopyRows -> Contents \cup {0}]] /\ dest = Empty /\ txn = Empty
            /\ plan = {} /\ step = CopyIdle /\ verified = Empty /\ writes = 0 /\ runs = 0

\* A service inserts, updates or deletes a row of the SQLite file.
WriteSource(t, r, c) ==
    /\ writes < MaxWrites /\ writes' = writes + 1 /\ source[t][r] # c
    /\ source' = [source EXCEPT ![t][r] = c]
    /\ UNCHANGED <<dest, txn, plan, step, verified, runs>>

\* The first table of S in the script's order, past the last: step p.
At(p, S, from) ==
    LET rest == {t \in S : t > from}
    IN IF rest = {} THEN [pc |-> p, table |-> 0]
       ELSE [pc |-> p, table |-> CHOOSE t \in rest : \A u \in rest : t <= u]

\* The plan counts rows; a dry run ends here, --verify-only copies nothing.
Begin(mode) ==
    /\ step = CopyIdle /\ runs < MaxRuns /\ runs' = runs + 1
    /\ plan' = {t \in CopyTables : BagOf(t) # EmptyBag} /\ txn' = Empty /\ verified' = Empty
    /\ step' = CASE mode = "dry" -> CopyIdle
                 [] mode = "verify" -> At("verify", plan', 0)
                 [] mode = "migrate" -> At("copy", plan', 0)
    /\ UNCHANGED <<source, dest, writes>>

\* One table is read by one statement and appended in chunks.
CopyTable ==
    /\ step.pc = "copy" /\ step.table # 0
    /\ txn' = [txn EXCEPT ![step.table] = BagOf(step.table)]
    /\ step' = At("copy", plan, step.table)
    /\ UNCHANGED <<source, dest, plan, verified, writes, runs>>

CopyEnds == /\ step = [pc |-> "copy", table |-> 0] /\ step' = At("verify", plan, 0)
            /\ UNCHANGED <<source, dest, txn, plan, verified, writes, runs>>

\* Mutant: only rows are counted.
Matches_Count(t) == BagCardinality(BagOf(t)) = BagCardinality(dest[t] (+) txn[t])

\* verify_table: the same number of rows and the same checksum.
Matches(t) == BagOf(t) = dest[t] (+) txn[t]

\* A difference in any table rolls the whole transaction back.
VerifyTable ==
    /\ step.pc = "verify" /\ step.table # 0
    /\ IF Matches(step.table)
         THEN /\ step' = At("verify", plan, step.table)
              /\ verified' = [verified EXCEPT ![step.table] = BagOf(step.table)]
              /\ UNCHANGED txn
         ELSE step' = CopyIdle /\ txn' = Empty /\ UNCHANGED verified
    /\ UNCHANGED <<source, dest, plan, writes, runs>>

Commit ==
    /\ step = [pc |-> "verify", table |-> 0] /\ step' = CopyIdle
    /\ dest' = [t \in CopyTables |-> dest[t] (+) txn[t]] /\ txn' = Empty
    /\ UNCHANGED <<source, plan, verified, writes, runs>>

\* The script or a connection dies: PostgreSQL rolls the transaction back.
Die == /\ step # CopyIdle /\ step' = CopyIdle /\ txn' = Empty
       /\ UNCHANGED <<source, dest, plan, verified, writes, runs>>

CopyNext ==
        \/ CopyTable \/ CopyEnds \/ VerifyTable \/ Commit \/ Die
        \/ \E m \in {"dry", "verify", "migrate"} : Begin(m)
        \/ \E t \in CopyTables, r \in CopyRows, c \in Contents \cup {0} : WriteSource(t, r, c)

CopySpec == CopyInit /\ [][CopyNext]_copyVars
-----------------------------------------------------------------------------
(* A migration is exact or leaves no trace: whatever services write while  *)
(* it runs, wherever it dies and however often it is repeated, what a run  *)
(* commits is, table by table, what the source held when that table was    *)
(* verified - never a second copy, never a row that was changed meanwhile. *)
MigrationIsExactStep ==
    dest' # dest => \A t \in plan : dest'[t] = verified[t]

-----------------------------------------------------------------------------
(***************************************************************************)
(* storage/retention.py: the rows of one table age out of the primary      *)
(* database.  TieredRetentionEngine moves them hot -> warm -> cold and     *)
(* answers range queries over the three tiers, with no lock between the    *)
(* two; RetentionEngine, run nightly and by the command line, copies old   *)
(* hot rows to an archive file and then deletes them.  Each engine is a    *)
(* sequence of separate database and file operations, and may die between  *)
(* any two.                                                                *)
(***************************************************************************)

CONSTANTS HotDays, WarmDays, RetainedTTL,   \* ages at which a row moves on
          RetainedMaxRows, RetainedMaxTime,         \* bounds: rows saved, days
          RetainedMaxCrashes                \* bound: jobs that die

RetainedRows == 1 .. RetainedMaxRows
Open == -WarmDays - 1               \* a query without a start
Zero == [r \in RetainedRows |-> 0]

VARIABLES
    retainedClock,
    stamp,      \* stamp[r]: the row's timestamp, -1 before it is saved
    retainedHot, warm,  \* rows in the primary and in the warm database
    retainedCold,       \* cold[r]: copies of r in the monthly Parquet files
    archive,    \* archive[r]: copies in RetentionEngine's file
    retainedJob,        \* the migration: [at, now, part]
    purge,      \* the nightly archival: [at, cutoff, part]
    retainedQuery,      \* a range query: [at, start, now, seen, due]
    retainedCrashes

retainedVars == <<retainedClock, stamp, retainedHot, warm, retainedCold, archive, retainedJob, purge, retainedQuery, retainedCrashes>>

NoJob == [at |-> "idle", now |-> 0, part |-> {}]
NoPurge == [at |-> "idle", cutoff |-> 0, part |-> {}]
RetainedNoQuery == [at |-> 0, start |-> 0, now |-> 0, seen |-> {}, due |-> {}]

RetainedTypeOK ==
    /\ retainedClock \in 0 .. RetainedMaxTime /\ stamp \in [RetainedRows -> -1 .. RetainedMaxTime]
    /\ retainedHot \subseteq RetainedRows /\ warm \subseteq RetainedRows
    /\ retainedCold \in [RetainedRows -> Nat] /\ archive \in [RetainedRows -> Nat]
    /\ retainedJob.at \in {"idle", "counted", "moved", "read", "written", "purged"}
    /\ purge.at \in {"idle", "read", "written"} /\ retainedQuery.at \in 0 .. 4

RetainedInit ==
            /\ retainedClock = 0 /\ stamp = [r \in RetainedRows |-> -1] /\ retainedHot = {} /\ warm = {}
            /\ retainedCold = Zero /\ archive = Zero /\ retainedJob = NoJob /\ purge = NoPurge
            /\ retainedQuery = RetainedNoQuery /\ retainedCrashes = 0

Saved == {r \in RetainedRows : stamp[r] >= 0}
Older(S, cutoff) == {r \in S : stamp[r] < cutoff}
AddCopy(f, S) == [r \in RetainedRows |-> IF r \in S THEN f[r] + 1 ELSE f[r]]

RetainedTick ==
            /\ retainedClock < RetainedMaxTime /\ retainedClock' = retainedClock + 1
            /\ UNCHANGED <<stamp, retainedHot, warm, retainedCold, archive, retainedJob, purge, retainedQuery, retainedCrashes>>

\* save_scores, save_feature_vectors, save_alerts: stamped with the present.
SaveRow ==
    /\ Cardinality(Saved) < RetainedMaxRows
    /\ LET r == Cardinality(Saved) + 1 IN
         stamp' = [stamp EXCEPT ![r] = retainedClock] /\ retainedHot' = retainedHot \cup {r}
    /\ UNCHANGED <<retainedClock, warm, retainedCold, archive, retainedJob, purge, retainedQuery, retainedCrashes>>
-----------------------------------------------------------------------------
\* The row count that _total_rows takes here only decides what the end reports.
Migrate ==
    /\ retainedJob.at = "idle"
    /\ retainedJob' = [at |-> "counted", now |-> retainedClock, part |-> {}]
    /\ UNCHANGED <<retainedClock, stamp, retainedHot, warm, retainedCold, archive, purge, retainedQuery, retainedCrashes>>

\* One transaction over both databases: copy and delete.
HotToWarm ==
    LET old == Older(retainedHot, retainedJob.now - HotDays) IN
    /\ retainedJob.at = "counted" /\ retainedJob' = [retainedJob EXCEPT !.at = "moved"]
    /\ retainedHot' = retainedHot \ old /\ warm' = warm \cup old
    /\ UNCHANGED <<retainedClock, stamp, retainedCold, archive, purge, retainedQuery, retainedCrashes>>

\* Three operations: read the old warm rows, append them to the Parquet
\* files, delete what is older than the same cutoff.
ReadWarm ==
    LET old == Older(warm, retainedJob.now - WarmDays) IN
    /\ retainedJob.at = "moved"
    /\ retainedJob' = [retainedJob EXCEPT !.at = IF old = {} THEN "purged" ELSE "read", !.part = old]
    /\ UNCHANGED <<retainedClock, stamp, retainedHot, warm, retainedCold, archive, purge, retainedQuery, retainedCrashes>>

WriteCold ==
    /\ retainedJob.at = "read" /\ retainedJob' = [retainedJob EXCEPT !.at = "written"]
    /\ retainedCold' = AddCopy(retainedCold, retainedJob.part)
    /\ UNCHANGED <<retainedClock, stamp, retainedHot, warm, archive, purge, retainedQuery, retainedCrashes>>

DeleteWarm ==
    /\ retainedJob.at = "written" /\ retainedJob' = [retainedJob EXCEPT !.at = "purged"]
    /\ warm' = warm \ Older(warm, retainedJob.now - WarmDays)
    /\ UNCHANGED <<retainedClock, stamp, retainedHot, retainedCold, archive, purge, retainedQuery, retainedCrashes>>

\* before # after raises TierIntegrityError: nothing is undone by it.
CompareTotals ==
    /\ retainedJob.at = "purged" /\ retainedJob' = NoJob
    /\ UNCHANGED <<retainedClock, stamp, retainedHot, warm, retainedCold, archive, purge, retainedQuery, retainedCrashes>>
-----------------------------------------------------------------------------
\* _process_table: nothing older than the cutoff ends it, as a dry run does.
ProcessTable ==
    LET old == Older(retainedHot, retainedClock - RetainedTTL) IN
    /\ purge.at = "idle" /\ old # {}
    /\ purge' = [at |-> "read", cutoff |-> retainedClock - RetainedTTL, part |-> old]
    /\ UNCHANGED <<retainedClock, stamp, retainedHot, warm, retainedCold, archive, retainedJob, retainedQuery, retainedCrashes>>

WriteArchive ==
    /\ purge.at = "read" /\ purge' = [purge EXCEPT !.at = "written"]
    /\ archive' = AddCopy(archive, purge.part)
    /\ UNCHANGED <<retainedClock, stamp, retainedHot, warm, retainedCold, retainedJob, retainedQuery, retainedCrashes>>

PurgeHot ==
    /\ purge.at = "written" /\ purge' = NoPurge
    /\ retainedHot' = retainedHot \ Older(retainedHot, purge.cutoff)
    /\ UNCHANGED <<retainedClock, stamp, warm, retainedCold, archive, retainedJob, retainedQuery, retainedCrashes>>

RetainedCrash ==
    /\ retainedCrashes < RetainedMaxCrashes /\ retainedCrashes' = retainedCrashes + 1
    /\ \/ retainedJob # NoJob /\ retainedJob' = NoJob /\ UNCHANGED purge
       \/ purge # NoPurge /\ purge' = NoPurge /\ UNCHANGED retainedJob
    /\ UNCHANGED <<retainedClock, stamp, retainedHot, warm, retainedCold, archive, retainedQuery>>
-----------------------------------------------------------------------------

TierOrder == <<"hot", "warm", "cold">>

\* The tiers that can hold a row not older than start, by the cutoffs of the
\* moment the query began.
Consulted(tier) ==
    CASE tier = "hot" -> TRUE
      [] tier = "warm" -> retainedQuery.start < retainedQuery.now - HotDays
      [] tier = "cold" -> retainedQuery.start < retainedQuery.now - WarmDays

TierRows(tier) ==
    CASE tier = "hot" -> retainedHot
      [] tier = "warm" -> warm
      [] tier = "cold" -> {r \in RetainedRows : retainedCold[r] > 0}

BeginQuery(start) ==
    /\ retainedQuery.at \in {0, 4}
    /\ retainedQuery' = [at |-> 1, start |-> start, now |-> retainedClock, seen |-> {},
                         due |-> {r \in Saved : stamp[r] >= start}]
    /\ UNCHANGED <<retainedClock, stamp, retainedHot, warm, retainedCold, archive, retainedJob, purge, retainedCrashes>>

QueryTier ==
    /\ retainedQuery.at \in 1 .. 3
    /\ LET tier == TierOrder[retainedQuery.at] IN
       retainedQuery' = [retainedQuery EXCEPT !.at = @ + 1,
                           !.seen = IF Consulted(tier)
                                      THEN @ \cup {r \in TierRows(tier) : stamp[r] >= retainedQuery.start}
                                      ELSE @]
    /\ UNCHANGED <<retainedClock, stamp, retainedHot, warm, retainedCold, archive, retainedJob, purge, retainedCrashes>>

RetainedNext ==
            \/ RetainedTick \/ SaveRow \/ Migrate \/ HotToWarm \/ ReadWarm \/ WriteCold \/ DeleteWarm
            \/ CompareTotals \/ ProcessTable \/ WriteArchive \/ PurgeHot \/ RetainedCrash
            \/ QueryTier \/ \E start \in {Open} \cup 0 .. retainedClock : BeginQuery(start)

RetainedSpec == RetainedInit /\ [][RetainedNext]_retainedVars
-----------------------------------------------------------------------------
(* A query never misses a row, although rows move between the tiers while  *)
(* it reads them one by one and jobs die half-way: everything saved before *)
(* it began and not given to the archive is in the answer.  This is so for *)
(* every range while the day does not change during the query, and for an  *)
(* open start always.                                                      *)
QueryMissesNothing ==
    retainedQuery.at = 4 /\ (retainedQuery.start = Open \/ retainedQuery.now = retainedClock)
      => {r \in retainedQuery.due : archive[r] = 0} \subseteq retainedQuery.seen

-----------------------------------------------------------------------------
(***************************************************************************)
(* The tables of detection/storage.py that the pipeline appends to and the *)
(* API lists by LIMIT and OFFSET, one request per page, while the pipeline *)
(* goes on appending and the nightly retention job deletes what is old.    *)
(* The tables do not interact: each behaviour looks at one of them.        *)
(***************************************************************************)

CONSTANTS ResultMaxRows, ResultMaxTime,     \* bounds: rows of the table, instants
          PageSize,             \* the client's limit
          ResultTTL                   \* retention of the alerts, in instants

ResultTables == {"alerts", "rings", "circular_path_routes", "path_payment_cycles",
                 "liquidity_pool_trades"}

VARIABLES
    table,      \* the table of this behaviour
    rows,       \* its rows, [id, ts]
    nextId,     \* AUTOINCREMENT
    resultClock,
    client      \* the paging client: [at, offset, seen, due]

resultVars == <<table, rows, nextId, resultClock, client>>

NoClient == [at |-> "idle", offset |-> 0, seen |-> {}, due |-> {}]

ResultTypeOK ==
    /\ table \in ResultTables /\ nextId \in 1 .. ResultMaxRows + 1 /\ resultClock \in 0 .. ResultMaxTime
    /\ rows \subseteq [id : 1 .. ResultMaxRows, ts : 0 .. ResultMaxTime]
    /\ client.at \in {"idle", "paging", "done"}

ResultInit ==
          /\ table \in ResultTables /\ rows = {} /\ nextId = 1 /\ resultClock = 0 /\ client = NoClient

ResultTick == resultClock < ResultMaxTime /\ resultClock' = resultClock + 1 /\ UNCHANGED <<table, rows, nextId, client>>

\* executemany and one commit: the batch appears at once.
Insert(n, ts) ==
    /\ n > 0 /\ nextId + n <= ResultMaxRows + 1 /\ nextId' = nextId + n
    /\ rows' = rows \cup {[id |-> i, ts |-> ts] : i \in nextId .. nextId + n - 1}
    /\ UNCHANGED <<table, resultClock, client>>

\* These stamp the batch with the present ...
SaveRings(n) == table = "rings" /\ Insert(n, resultClock)
SaveCircularRoutes(n) == table = "circular_path_routes" /\ Insert(n, resultClock)
SavePathPaymentCycles(n) == table = "path_payment_cycles" /\ Insert(n, resultClock)

\* ... a pool trade has the time of its ledger, and an alert its own time or
\* the present; suppressed alerts were dropped before.
SaveLiquidityPoolTrades(n, ts) ==
    table = "liquidity_pool_trades" /\ ts <= resultClock /\ Insert(n, ts)
SaveAlerts(n, ts) == table = "alerts" /\ ts <= resultClock /\ Insert(n, ts)

\* RetentionEngine: of these tables only the alerts have a TTL.
PurgeAlerts ==
    /\ table = "alerts" /\ rows' = {r \in rows : r.ts >= resultClock - ResultTTL} /\ rows' # rows
    /\ UNCHANGED <<table, nextId, resultClock, client>>
-----------------------------------------------------------------------------

\* ORDER BY timestamp DESC, and id DESC where the query says so; without it
\* rows of one instant keep the order in which they were inserted.
Above(a, b) ==
    \/ a.ts > b.ts
    \/ a.ts = b.ts /\ IF table \in {"alerts", "path_payment_cycles"} THEN a.id > b.id
                                                                    ELSE a.id < b.id

Ordered == SetToSortSeq(rows, Above)

\* LIMIT PageSize OFFSET offset; a short page is the last one.

ReadPage ==
    /\ LET first == client.at # "paging" IN
       LET c == IF first THEN [at |-> "paging", offset |-> 0, seen |-> {}, due |-> rows]
                         ELSE client IN
       LET page == LET last == IF c.offset + PageSize < Len(Ordered) THEN c.offset + PageSize
                                                                 ELSE Len(Ordered)
                   IN  SubSeq(Ordered, c.offset + 1, last) IN
       client' = [c EXCEPT !.at = IF Len(page) < PageSize THEN "done" ELSE "paging",
                           !.offset = @ + PageSize,
                           !.seen = @ \cup ToSet(page)]
    /\ UNCHANGED <<table, rows, nextId, resultClock>>

GetAlerts == table = "alerts" /\ ReadPage
GetRings == table = "rings" /\ ReadPage
GetCircularRoutes == table = "circular_path_routes" /\ ReadPage
GetPathPaymentCycles == table = "path_payment_cycles" /\ ReadPage
GetLiquidityPoolTrades == table = "liquidity_pool_trades" /\ ReadPage

ResultNext ==
          \/ ResultTick \/ PurgeAlerts
          \/ \E n \in 1 .. ResultMaxRows :
               \/ SaveRings(n) \/ SaveCircularRoutes(n) \/ SavePathPaymentCycles(n)
               \/ \E ts \in 0 .. ResultMaxTime : SaveLiquidityPoolTrades(n, ts) \/ SaveAlerts(n, ts)
          \/ GetAlerts \/ GetRings \/ GetCircularRoutes \/ GetPathPaymentCycles
          \/ GetLiquidityPoolTrades

ResultSpec == ResultInit /\ [][ResultNext]_resultVars
-----------------------------------------------------------------------------
(* Paging skips nothing: whatever is inserted or purged between two pages, *)
(* a client that reads to the short page has seen every row that was there *)
(* when it began and still is.  (It may see a row twice.)                  *)
PagingSkipsNothing ==
    client.at = "done" => client.due \cap rows \subseteq client.seen

-----------------------------------------------------------------------------
(* detection/feature_store.py: the states of wallets in Redis, with an LRU  *)
(* dictionary in the process for when Redis does not answer.  Every call of *)
(* Redis works, raises (having been applied or not) or is not made because  *)
(* the circuit breaker is open; all four can happen to any call here, which *)
(* covers whatever the breaker decides.  A state is its last_updated; the   *)
(* processing of a trade reads it, updates it and writes it back.           *)

CONSTANTS Keys,             \* wallet and asset pair
          MaxFallback,      \* max_fallback_entries
          MaxUpdates        \* bound: states written

Absent == 0
Times == 1 .. MaxUpdates

VARIABLES
    redis,      \* redis[k]: the stored state, or Absent
    fallback,   \* _fallback_dict
    lru,        \* _lru_order
    storeClock,      \* last_updated of the newest state
    got,        \* what the last get_state returned: [key, at]
    newest,     \* history: newest[k], the state written last
    dropped     \* history: keys whose newest state the LRU bound or a deletion took away

storeVars == <<redis, fallback, lru, storeClock, got, newest, dropped>>

States == Times \cup {Absent}
Outcomes == {"ok", "raised", "applied", "skipped"}

StoreTypeOK ==
    /\ redis \in [Keys -> States] /\ fallback \in [Keys -> States]
    /\ lru \in BoundedSeq(Keys, MaxFallback)
    /\ storeClock \in 0 .. MaxUpdates /\ newest \in [Keys -> States]
    /\ dropped \subseteq Keys

StoreInit ==
         /\ redis = [k \in Keys |-> Absent] /\ fallback = [k \in Keys |-> Absent]
         /\ lru = <<>> /\ storeClock = 0 /\ got = [key \in {} |-> Absent]
         /\ newest = [k \in Keys |-> Absent] /\ dropped = {}

----------------------------------------------------------------------------
Forget(k) == SelectSeq(lru, LAMBDA x : x # k)

\* The tail of set_state: into the dictionary, over the bound the oldest goes.
KeepLocally(k, s) ==
    LET full == fallback[k] = Absent /\ Len(lru) >= MaxFallback
        victim == IF full THEN {Head(lru)} ELSE {}
    IN  /\ fallback' = [x \in Keys |-> IF x = k THEN s
                                       ELSE IF x \in victim THEN Absent ELSE fallback[x]]
        /\ lru' = Append(IF full THEN Tail(lru) ELSE Forget(k), k)
        /\ dropped' = (dropped \ {k}) \cup victim

\* setex raised or was not tried: the state goes to the dictionary.
SetElsewhere(k, s, outcome) ==
    /\ redis' = IF outcome = "applied" THEN [redis EXCEPT ![k] = s] ELSE redis
    /\ KeepLocally(k, s)

SetState_KeepLocal(k, s, outcome) ==
    IF outcome = "ok"
    THEN /\ redis' = [redis EXCEPT ![k] = s]
         /\ dropped' = dropped \ {k} /\ UNCHANGED <<fallback, lru>>
    ELSE SetElsewhere(k, s, outcome)

SetState(k, s, outcome) ==
    IF outcome = "ok"
    THEN /\ redis' = [redis EXCEPT ![k] = s]
         /\ fallback' = [fallback EXCEPT ![k] = Absent]
         /\ lru' = Forget(k)
         /\ dropped' = dropped \ {k}
    ELSE SetElsewhere(k, s, outcome)

Put(k, outcome) ==
    /\ storeClock < MaxUpdates /\ storeClock' = storeClock + 1
    /\ SetState(k, storeClock + 1, outcome)
    /\ newest' = [newest EXCEPT ![k] = storeClock + 1]
    /\ got' = [key \in {} |-> Absent]

\* get_state: a dictionary entry newer than Redis' is written back to Redis.
GetState(k, outcome, writeBack) ==
    /\ IF outcome # "ok"
       THEN got' = k :> fallback[k] /\ UNCHANGED <<redis, fallback, lru, dropped>>
       ELSE IF fallback[k] > redis[k]
       THEN got' = k :> fallback[k] /\ SetState(k, fallback[k], writeBack)
       ELSE /\ got' = k :> (IF redis[k] # Absent THEN redis[k] ELSE fallback[k])
            /\ UNCHANGED <<redis, fallback, lru, dropped>>
    /\ UNCHANGED <<storeClock, newest>>

\* delete_state: Redis' copy when Redis answers, else the dictionary's.
DeleteState(k, outcome) ==
    /\ redis' = IF outcome \in {"ok", "applied"} THEN [redis EXCEPT ![k] = Absent] ELSE redis
    /\ fallback' = IF outcome = "ok" THEN fallback ELSE [fallback EXCEPT ![k] = Absent]
    /\ lru' = IF outcome = "ok" THEN lru ELSE Forget(k)
    /\ dropped' = dropped \cup {k}
    /\ UNCHANGED <<storeClock, newest>>
    /\ got' = [key \in {} |-> Absent]

\* feature_store_ttl_hours passed since the last write of k to Redis.
Expire(k) ==
    /\ redis[k] # Absent /\ redis' = [redis EXCEPT ![k] = Absent]
    /\ got' = [key \in {} |-> Absent]
    /\ UNCHANGED <<fallback, lru, storeClock, newest, dropped>>

\* scan_all_keys
ScanAllKeys(reached) ==
    IF reached THEN {k \in Keys : redis[k] # Absent} ELSE {k \in Keys : fallback[k] # Absent}

StoreNext == \E k \in Keys :
         \/ \E o \in Outcomes : Put(k, o)
         \/ \E o \in Outcomes \ {"applied"}, w \in Outcomes : GetState(k, o, w)
         \/ \E o \in Outcomes : DeleteState(k, o)
         \/ Expire(k)

StoreSpec == StoreInit /\ [][StoreNext]_storeVars

----------------------------------------------------------------------------
\* The dictionary and its LRU list hold the same keys, each once.
LruAgrees ==
    /\ ToSet(lru) = ScanAllKeys(FALSE)
    /\ \A i, j \in 1 .. Len(lru) : lru[i] = lru[j] => i = j

(* "State accumulated during the outage is never shadowed by the stale      *)
(* pre-outage Redis value" (get_state): through any sequence of outages,    *)
(* lost answers and expiries a read gives the state that was written last   *)
(* or nothing, never an earlier one, unless the dictionary's bound dropped  *)
(* that state or it was deleted; and the dictionary agrees with its LRU     *)
(* list.                                                                    *)
ReadsNewestOrNothing ==
    /\ LruAgrees
    /\ \A k \in DOMAIN got : got[k] \in {Absent, newest[k]} \/ k \in dropped

-----------------------------------------------------------------------------
(* detection/feature_store.py, the archive of feature snapshots: rows older *)
(* than a cutoff are copied to Parquet files and then deleted from SQLite,  *)
(* by one or several archivers that may die in between, while a dual-tier   *)
(* query reads SQLite, then the files, and removes duplicates.              *)

CONSTANTS Archivers,    \* processes running archive_old_features
          CutoffDays,
          ArchiveMaxRows,      \* bound: snapshots recorded
          MaxDay,       \* bound: days
          ArchiveMaxCrashes    \* bound: archivers that die

ArchiveRows == 1 .. ArchiveMaxRows

VARIABLES
    day,
    recorded,   \* recorded[r]: the day of row r; MaxDay + 1 before it exists
    pair,       \* pair[r]: the asset pair, which the deduplication ignores
    archiveHot,        \* rows in SQLite
    archiveCold,       \* cold[r]: copies of r in the files
    archiveJob,        \* job[a]: [step, cutoff, read] of archiver a
    archiveQuery,      \* the query: [step, since, rows]
    archiveCrashes

archiveVars == <<day, recorded, pair, archiveHot, archiveCold, archiveJob, archiveQuery, archiveCrashes>>

Never == MaxDay + 1
ArchiveIdle == [step |-> "idle", cutoff |-> 0, read |-> {}]
ArchiveNoQuery == [step |-> "idle", since |-> 0, rows |-> {}, must |-> {}]

ArchiveTypeOK ==
    /\ day \in 0 .. MaxDay /\ archiveCrashes \in 0 .. ArchiveMaxCrashes
    /\ archiveHot \subseteq ArchiveRows
    /\ \A a \in Archivers : archiveJob[a].step \in {"idle", "read", "written"}
    /\ archiveQuery.step \in {"idle", "hot", "done"}

ArchiveInit ==
           /\ day = 0 /\ archiveCrashes = 0
           /\ recorded = [r \in ArchiveRows |-> Never] /\ pair = [r \in ArchiveRows |-> "p"]
           /\ archiveHot = {} /\ archiveCold = [r \in ArchiveRows |-> 0]
           /\ archiveJob = [a \in Archivers |-> ArchiveIdle]
           /\ archiveQuery = ArchiveNoQuery

ArchiveTick == day < MaxDay /\ day' = day + 1 /\ UNCHANGED <<recorded, pair, archiveHot, archiveCold, archiveJob, archiveQuery, archiveCrashes>>

\* A snapshot is written with the time it became known.
Record(r, p) ==
    /\ recorded[r] = Never /\ \A q \in ArchiveRows : q < r => recorded[q] # Never
    /\ recorded' = [recorded EXCEPT ![r] = day]
    /\ pair' = [pair EXCEPT ![r] = p]
    /\ archiveHot' = archiveHot \cup {r}
    /\ UNCHANGED <<day, archiveCold, archiveJob, archiveQuery, archiveCrashes>>

\* The rows before the cutoff are read; an empty result ends the job.
ReadOld(a) ==
    LET cutoff == IF day > CutoffDays THEN day - CutoffDays ELSE 0
        old == {r \in archiveHot : recorded[r] < cutoff}
    IN  /\ archiveJob[a].step = "idle" /\ old # {}
        /\ archiveJob' = [archiveJob EXCEPT ![a] = [step |-> "read", cutoff |-> cutoff, read |-> old]]
        /\ UNCHANGED <<day, recorded, pair, archiveHot, archiveCold, archiveQuery, archiveCrashes>>

\* write_to_dataset gives its files new names: nothing is overwritten.
WriteDataset(a) ==
    /\ archiveJob[a].step = "read"
    /\ archiveCold' = [r \in ArchiveRows |-> archiveCold[r] + (IF r \in archiveJob[a].read THEN 1 ELSE 0)]
    /\ archiveJob' = [archiveJob EXCEPT ![a].step = "written"]
    /\ UNCHANGED <<day, recorded, pair, archiveHot, archiveQuery, archiveCrashes>>

DeleteOld(a) ==
    /\ archiveJob[a].step = "written"
    /\ archiveHot' = {r \in archiveHot : recorded[r] >= archiveJob[a].cutoff}
    /\ archiveJob' = [archiveJob EXCEPT ![a] = ArchiveIdle]
    /\ UNCHANGED <<day, recorded, pair, archiveCold, archiveQuery, archiveCrashes>>

Dies(a) ==
    /\ archiveJob[a].step # "idle" /\ archiveCrashes < ArchiveMaxCrashes
    /\ archiveCrashes' = archiveCrashes + 1 /\ archiveJob' = [archiveJob EXCEPT ![a] = ArchiveIdle]
    /\ UNCHANGED <<day, recorded, pair, archiveHot, archiveCold, archiveQuery>>

\* The order in which DualTierFeatureStore.query reads the tiers.
Tiers == <<"hot", "cold">>

Filtered(tier, since) ==
    {r \in ArchiveRows : /\ recorded[r] # Never /\ recorded[r] >= since
                         /\ IF tier = "hot" THEN r \in archiveHot ELSE archiveCold[r] > 0}

QueryFirst(since) ==
    /\ archiveQuery.step = "idle"
    /\ archiveQuery' = [step |-> "hot", since |-> since, rows |-> Filtered(Tiers[1], since),
                        must |-> Filtered("hot", since) \cup Filtered("cold", since)]
    /\ UNCHANGED <<day, recorded, pair, archiveHot, archiveCold, archiveJob, archiveCrashes>>

QuerySecond ==
    /\ archiveQuery.step = "hot"
    /\ archiveQuery' = [archiveQuery EXCEPT !.step = "done", !.rows = @ \cup Filtered(Tiers[2], archiveQuery.since)]
    /\ UNCHANGED <<day, recorded, pair, archiveHot, archiveCold, archiveJob, archiveCrashes>>

\* drop_duplicates by wallet, feature and recorded_at: the pair is not a key.
Deduplicated == {recorded[r] : r \in archiveQuery.rows}

QueryReturns ==
    /\ archiveQuery.step = "done" /\ archiveQuery' = ArchiveNoQuery
    /\ UNCHANGED <<day, recorded, pair, archiveHot, archiveCold, archiveJob, archiveCrashes>>

ArchiveNext ==
           \/ ArchiveTick
           \/ \E r \in ArchiveRows, p \in {"p", "q"} : Record(r, p)
           \/ \E a \in Archivers : ReadOld(a) \/ WriteDataset(a) \/ DeleteOld(a) \/ Dies(a)
           \/ \E since \in 0 .. day : QueryFirst(since)
           \/ QuerySecond \/ QueryReturns

ArchiveSpec == ArchiveInit /\ [][ArchiveNext]_archiveVars

----------------------------------------------------------------------------
(* A dual-tier query that overlaps archive runs, dead ones among them,      *)
(* returns every instant of which it knew a snapshot when it began, and     *)
(* each once: the copy that is in both tiers is dropped as a duplicate.     *)
QueryFindsEverySnapshot ==
    archiveQuery.step = "done" =>
        {recorded[r] : r \in archiveQuery.must} \subseteq Deduplicated

=============================================================================
