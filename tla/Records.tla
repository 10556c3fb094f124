------------------------------- MODULE Records ------------------------------
(*****************************************************************************)
(* Records that are only appended: the audit log, the scoring events, the    *)
(* lineage log and the Parquet export.                                       *)
(*****************************************************************************)
EXTENDS Integers, Sequences, FiniteSets, FiniteSetsExt, SequencesExt

-----------------------------------------------------------------------------
(***************************************************************************)
(* storage/audit_log.py: the HMAC chain of admin and system events.        *)
(*                                                                         *)
(* append_entry and verify_chain run init_db (count the rows, insert the   *)
(* genesis row if there is none); append_entry then reads the newest       *)
(* entry_hash and inserts, each in a statement of its own with no lock     *)
(* between them.  The HMAC of the row    *)
(* inserted at position i is the number i, 0 stands for "genesis" and      *)
(* Forged for a value no HMAC has.  `sealed' says whether the stored       *)
(* columns still are the ones the stored hash was computed from.           *)
(***************************************************************************)

CONSTANTS Writers,  \* threads and processes that append or verify
          MaxRows,  \* bound: no append starts on a table this long
          MaxEdits  \* bound on edits made behind the application's back

VARIABLES auditRows,   \* the audit_log table in id order
          auditPc,     \* pc[w]: next statement of w
          seen,   \* seen[w]: prev_hash w read
          raced,  \* history: a call began while another was under way
          edited, \* rows that were edited
          edits

auditVars == <<auditRows, auditPc, seen, raced, edited, edits>>

Genesis == 0
Forged == -1
Row == [prev: Int, hash: Int, sealed: BOOLEAN]

AuditTypeOK ==
    /\ auditRows \in Seq(Row) /\ Len(auditRows) <= MaxRows + 2 * Cardinality(Writers)
    /\ auditPc \in [Writers -> {"idle", "genesis", "read", "insert"}]
    /\ seen \in [Writers -> Int] /\ raced \in BOOLEAN
    /\ edited \subseteq DOMAIN auditRows
    /\ edits \in 0..MaxEdits

AuditInit ==
         /\ auditRows = <<>>
         /\ auditPc = [w \in Writers |-> "idle"]
         /\ seen = [w \in Writers |-> Genesis]
         /\ raced = FALSE /\ edited = {} /\ edits = 0

-----------------------------------------------------------------------------
Goto(w, to) == auditPc' = [auditPc EXCEPT ![w] = to]

AuditInsert(prev) ==
    auditRows' = Append(auditRows, [prev |-> prev, hash |-> Len(auditRows) + 1, sealed |-> TRUE])

\* append_entry or verify_chain starts: init_db counts the rows.
InitDb(w) ==
    /\ auditPc[w] = "idle" /\ Len(auditRows) < MaxRows
    /\ Goto(w, IF auditRows = <<>> THEN "genesis" ELSE "read")
    /\ raced' = (raced \/ \E v \in Writers : auditPc[v] # "idle")
    /\ UNCHANGED <<auditRows, seen, edited, edits>>

InsertGenesis(w) ==
    /\ auditPc[w] = "genesis"
    /\ AuditInsert(Genesis)
    /\ Goto(w, "read")
    /\ UNCHANGED <<seen, raced, edited, edits>>

NewestHash == IF auditRows = <<>> THEN Genesis ELSE auditRows[Len(auditRows)].hash

ReadNewest(w) ==
    /\ auditPc[w] = "read"
    /\ seen' = [seen EXCEPT ![w] = NewestHash]
    /\ Goto(w, "insert")
    /\ UNCHANGED <<auditRows, raced, edited, edits>>

InsertEntry(w) ==
    /\ auditPc[w] = "insert"
    /\ AuditInsert(seen[w])
    /\ Goto(w, "idle")
    /\ UNCHANGED <<seen, raced, edited, edits>>

\* verify_chain is done with the database after init_db; and an append ends
\* early when _get_audit_secret finds no usable key.
LeaveLog(w) ==
    /\ auditPc[w] # "idle" /\ Goto(w, "idle")
    /\ UNCHANGED <<auditRows, seen, raced, edited, edits>>

\* The database file is edited outside the application: a signed column,
\* the link, or the stored hash itself.
Edit(i) ==
    /\ edits < MaxEdits /\ edits' = edits + 1
    /\ \/ auditRows' = [auditRows EXCEPT ![i].sealed = FALSE]
       \/ auditRows' = [auditRows EXCEPT ![i].prev = Forged, ![i].sealed = FALSE]
       \/ auditRows' = [auditRows EXCEPT ![i].hash = Forged]
    /\ edited' = edited \cup {i}
    /\ UNCHANGED <<auditPc, seen, raced>>

AuditNext ==
         \/ \E w \in Writers :
               InitDb(w) \/ InsertGenesis(w) \/ ReadNewest(w) \/ InsertEntry(w) \/ LeaveLog(w)
         \/ \E i \in DOMAIN auditRows : Edit(i)

AuditSpec == AuditInit /\ [][AuditNext]_auditVars

-----------------------------------------------------------------------------
(* verify_chain.                                                           *)

\* Mutant: the recomputed hash is not compared.
HashOk_Skipped(i) == TRUE

HashOk(i) == auditRows[i].sealed /\ auditRows[i].hash # Forged

PrevHashOk(i) == auditRows[i].prev = IF i = 1 THEN Genesis ELSE auditRows[i - 1].hash

Failures == {i \in DOMAIN auditRows : ~HashOk(i) \/ ~PrevHashOk(i)}

(* verify_chain blames every edited entry: no edit hides behind another    *)
(* edit or behind entries appended after it.                               *)
EditsAreFound == edited \subseteq Failures

(* verify_chain blames nothing but an edited entry or the entry that       *)
(* followed one, so an untouched log verifies (CRITICAL alert otherwise),  *)
(* unless two appends overlapped: both then link to the same entry.        *)
NoFalseAlarm == ~raced => \A i \in Failures : i \in edited \/ i - 1 \in edited

-----------------------------------------------------------------------------
(***************************************************************************)
(* audit/scoring_events.py: the hash chain of one wallet's scoring events. *)
(*                                                                         *)
(* An event gets its occurred_at when it is made (make_scoring_event); the *)
(* number of the event stands for that time.  append awaits between        *)
(* reading the latest event and inserting.  The chain hash covers the      *)
(* previous hash and the event's own fields: prev[e] is the event e was    *)
(* chained to and `altered' the events whose fields no longer match.       *)
(***************************************************************************)

CONSTANTS MaxEvents,   \* bound on the events made
          MaxPending,  \* events made and not yet stored at a time
          ReplayLimit, \* default limit of replay()
          MaxAltered   \* bound on events altered outside the application

VARIABLES made,    \* events made so far
          eventPc,      \* pc[e]: where append(e) is
          eventPrev,    \* prev[e]: event chained to, or GENESIS
          altered,
          eventOverlapped \* history: an event was made while another was not stored

eventVars == <<made, eventPc, eventPrev, altered, eventOverlapped>>

Events == 1..MaxEvents
GENESIS == 0
Stored == {e \in Events : eventPc[e] = "stored"}
Pending == {e \in Events : eventPc[e] \in {"made", "read"}}

EventTypeOK ==
    /\ made \in 0..MaxEvents
    /\ eventPc \in [Events -> {"none", "made", "read", "stored", "refused"}]
    /\ eventPrev \in [Events -> {GENESIS} \cup Events]
    /\ \A e \in Events : eventPrev[e] # GENESIS => eventPrev[e] \in Stored \ {e}
    /\ altered \subseteq Stored /\ eventOverlapped \in BOOLEAN

EventInit ==
         /\ made = 0
         /\ eventPc = [e \in Events |-> "none"]
         /\ eventPrev = [e \in Events |-> GENESIS]
         /\ altered = {} /\ eventOverlapped = FALSE

-----------------------------------------------------------------------------
\* make_scoring_event.
Make ==
    /\ made < MaxEvents
    /\ Cardinality(Pending) < MaxPending
    /\ made' = made + 1
    /\ eventPc' = [eventPc EXCEPT ![made + 1] = "made"]
    /\ eventOverlapped' = (eventOverlapped \/ Pending # {})
    /\ UNCHANGED <<eventPrev, altered>>

\* append refuses an unknown triggered_by and an override with no actor.
Refuse(e) ==
    /\ eventPc[e] = "made"
    /\ eventPc' = [eventPc EXCEPT ![e] = "refused"]
    /\ UNCHANGED <<made, eventPrev, altered, eventOverlapped>>

\* _get_latest_event: the greatest occurred_at.
Latest == IF Stored = {} THEN GENESIS ELSE Max(Stored)

ReadLatest(e) ==
    /\ eventPc[e] = "made"
    /\ eventPrev' = [eventPrev EXCEPT ![e] = Latest]
    /\ eventPc' = [eventPc EXCEPT ![e] = "read"]
    /\ UNCHANGED <<made, altered, eventOverlapped>>

InsertEvent(e) ==
    /\ eventPc[e] = "read"
    /\ eventPc' = [eventPc EXCEPT ![e] = "stored"]
    /\ UNCHANGED <<made, eventPrev, altered, eventOverlapped>>

\* A stored event is changed outside the application (its triggers abort
\* every UPDATE and DELETE the application could make).
Alter(e) ==
    /\ e \in Stored \ altered
    /\ Cardinality(altered) < MaxAltered
    /\ altered' = altered \cup {e}
    /\ UNCHANGED <<made, eventPc, eventPrev, eventOverlapped>>

EventNext ==
         \/ Make
         \/ \E e \in Events : Refuse(e) \/ ReadLatest(e) \/ InsertEvent(e) \/ Alter(e)

EventSpec == EventInit /\ [][EventNext]_eventVars

-----------------------------------------------------------------------------
\* replay: the oldest events up to the limit.
Replayed ==
    {e \in Stored : Cardinality({d \in Stored : d < e}) < ReplayLimit}

Before(e) == {d \in Stored : d < e}

\* The hash recomputed from the previous replayed event is the stored one.
Matches(e) ==
    /\ e \notin altered
    /\ eventPrev[e] = IF Before(e) = {} THEN GENESIS ELSE Max(Before(e))

\* verify's first_tampered_event_id, GENESIS when it reports "valid".
FirstMismatch ==
    LET bad == {e \in Replayed : ~Matches(e)}
    IN IF bad = {} THEN GENESIS ELSE Min(bad)

(* verify names the first event that was altered and reports "valid" when  *)
(* none was: appending events, up to the limit of replay and beyond, is    *)
(* never a break.  Appends that overlap may be chained out of order.       *)
VerifyIsExact ==
    ~eventOverlapped =>
        FirstMismatch = IF altered \cap Replayed = {} THEN GENESIS
                        ELSE Min(altered \cap Replayed)

(* current_score and the chain agree on the newest event: nothing is       *)
(* chained behind an event that a later one already follows, unless        *)
(* appends overlapped.                                                     *)
NoFork == ~eventOverlapped => \A d, e \in Stored : d # e => eventPrev[d] # eventPrev[e]

-----------------------------------------------------------------------------
(***************************************************************************)
(* detection/lineage.py: runs of jobs announce START and then COMPLETE or  *)
(* FAIL through a bounded queue; one daemon thread stores the events.  An  *)
(* event that finds the queue full, or that the database refuses, is gone, *)
(* and so is the queue when the process ends.  The graph of a dataset is   *)
(* searched over the COMPLETE events that were stored.                     *)
(***************************************************************************)

CONSTANTS
    Runs,        \* runs of jobs, each at most once
    JobOf,       \* run -> its job
    Inputs,      \* run -> the datasets it reads
    Outputs,     \* run -> the models it writes
    Like,        \* name asked for -> the datasets whose name contains it
    MaxSize,     \* lineage_queue_maxsize
    MaxFaults

VARIABLES
    queue,       \* _queue; "none" stands for the None of stop()
    worker,      \* the event _worker took from the queue, or Stop
    run,         \* per run "new", "started", "COMPLETE" or "FAIL"
    emitted,     \* every event, in the order it was made
    dropped,     \* events that found the queue full
    lost,        \* events the database refused or the end of the process took
    events,      \* lineage_events
    models,      \* lineage_model_runs: <<run, dataset>>
    proc,        \* "up", "stopped" (stop() was called) or "gone"
    faults

lineageVars == <<queue, worker, run, emitted, dropped, lost, events, models, proc, faults>>

Event(t, r) == [type |-> t, run |-> r]
Stop == [type |-> "none", run |-> "none"]
Datasets == UNION {Inputs[r] \cup Outputs[r] : r \in Runs}

LineageTypeOK ==
    /\ Len(queue) <= MaxSize /\ faults \in 0 .. MaxFaults
    /\ run \in [Runs -> {"new", "started", "COMPLETE", "FAIL"}]
    /\ proc \in {"up", "stopped", "gone"}

LineageInit ==
           /\ queue = <<>> /\ worker = Stop /\ run = [r \in Runs |-> "new"] /\ emitted = <<>> /\ dropped = {}
           /\ lost = {} /\ events = <<>> /\ models = {} /\ proc = "up" /\ faults = 0

-----------------------------------------------------------------------------
\* _emit_event, with put_nowait
Emit(t, r) ==
    LET e == Event(t, r)
    IN  /\ emitted' = Append(emitted, e)
        /\ \/ Len(queue) < MaxSize /\ queue' = Append(queue, e) /\ dropped' = dropped
           \/ Len(queue) >= MaxSize /\ queue' = queue /\ dropped' = dropped \cup {e}

\* run: START on entry, COMPLETE or FAIL on exit.  What is no Exception (a
\* keyboard interrupt) leaves the run without an end.
Enter(r) ==
    /\ proc # "gone" /\ run[r] = "new" /\ Emit("START", r)
    /\ run' = [run EXCEPT ![r] = "started"]
    /\ UNCHANGED <<worker, lost, events, models, proc, faults>>

Leave(r, t) ==
    /\ proc # "gone" /\ run[r] = "started" /\ Emit(t, r)
    /\ run' = [run EXCEPT ![r] = t]
    /\ UNCHANGED <<worker, lost, events, models, proc, faults>>

\* The rows _store_locally adds with the event, in its transaction.
ModelRows(e) == IF e.type = "COMPLETE" THEN {<<e.run, d>> : d \in Outputs[e.run]} ELSE {}

\* _worker takes an event, which leaves room for another; at the None it ends.
Take ==
    /\ proc # "gone" /\ worker = Stop /\ queue # <<>> /\ Head(queue) # Stop
    /\ worker' = Head(queue) /\ queue' = Tail(queue)
    /\ UNCHANGED <<run, emitted, dropped, lost, events, models, proc, faults>>

StoreLocally ==
    /\ proc # "gone" /\ worker # Stop /\ worker' = Stop
    /\ \/ events' = Append(events, worker) /\ models' = models \cup ModelRows(worker) /\ UNCHANGED <<lost, faults>>
       \/ faults < MaxFaults /\ faults' = faults + 1 /\ lost' = lost \cup {worker} /\ UNCHANGED <<events, models>>
    /\ UNCHANGED <<queue, run, emitted, dropped, proc>>

\* stop puts the None, waiting for room, and joins the thread for two
\* seconds.  Runs may still emit: their events stay in the queue.
StopEmitter ==
    /\ proc = "up" /\ Len(queue) < MaxSize
    /\ queue' = Append(queue, Stop) /\ proc' = "stopped"
    /\ UNCHANGED <<worker, run, emitted, dropped, lost, events, models, faults>>

\* The process ends, with stop() or without it.
Exit ==
    /\ proc # "gone" /\ proc' = "gone"
    /\ lost' = lost \cup ((ToSet(queue) \cup {worker}) \ {Stop}) /\ queue' = <<>> /\ worker' = Stop
    /\ UNCHANGED <<run, emitted, dropped, events, models, faults>>

LineageNext ==
           \/ \E r \in Runs : Enter(r) \/ \E t \in {"COMPLETE", "FAIL"} : Leave(r, t)
           \/ Take \/ StoreLocally \/ StopEmitter \/ Exit
LineageSpec == LineageInit /\ [][LineageNext]_lineageVars

-----------------------------------------------------------------------------
Completed == {r \in Runs : Event("COMPLETE", r) \in ToSet(events)}

\* The edges get_lineage_graph builds, between datasets and jobs: the runs
\* of a job share its node.
GraphEdges ==
    UNION {({<<d, JobOf[r]>> : d \in Inputs[r]} \cup {<<JobOf[r], d>> : d \in Outputs[r]}) : r \in Completed}

\* Its breadth-first search, from every dataset whose name contains the one
\* asked for; one level per argument.
Visited(d) ==
    LET links == {{e[1], e[2]} : e \in GraphEdges}
        depth == 2 * Cardinality(Completed)
        level[n \in 0 .. depth] ==
            IF n = 0 THEN Like[d] \cap UNION links
            ELSE LET s == level[n - 1] IN s \cup UNION {l \in links : l \cap s # {}}
    IN  level[depth]

Upstream(d) == {r \in Completed : d \in Outputs[r]}

(***************************************************************************)
(* The stored log is what was emitted, in that order and nothing twice,    *)
(* less what was dropped or lost; every event is in exactly one of these   *)
(* places, with the worker or still queued.  A run never both completes and fails, and a    *)
(* model has its row exactly if the COMPLETE that wrote it is in the log,  *)
(* also when its START is not.  The graph of a dataset holds the job of    *)
(* every stored run that made it and, of the runs of each job in it, all   *)
(* inputs and outputs.                                                     *)
(***************************************************************************)
LineageIsFaithful ==
    /\ LET kept == SelectSeq(emitted, LAMBDA e : e \notin dropped \cup lost)
       IN  kept = events \o SelectSeq(<<worker>> \o queue, LAMBDA e : e # Stop)
    /\ \A r \in Runs : {Event("COMPLETE", r), Event("FAIL", r)} \subseteq ToSet(events) => FALSE
    /\ models = {<<r, d>> \in Runs \X Datasets : r \in Completed /\ d \in Outputs[r]}
    /\ \A d \in Datasets : LET g == Visited(d) IN
        /\ {JobOf[r] : r \in Upstream(d)} \subseteq g
        /\ \A r \in Completed : JobOf[r] \in g => Inputs[r] \cup Outputs[r] \subseteq g

-----------------------------------------------------------------------------
(* ingestion/parquet_exporter.py: incremental export of the trades table to  *)
(* one Parquet file per day and asset pair, with a manifest that lets the    *)
(* next export skip what has not changed.  Trades arrive meanwhile, an       *)
(* export can be killed, and two can run at once.                            *)

CONSTANTS
    Parts,       \* partitions: a day and a raw asset pair
    KeyOf,       \* Parts -> file: normalise_asset_pair makes two pairs one
    Exporters, MaxTrades, MaxRuns, MaxCrashes

VARIABLES
    trades,      \* the trades table: [part, token]
    manifest,    \* partition_index: file -> [records, token, sha]
    file,        \* file -> the rows in it
    exp,         \* each exporter: [pc, scope, force, manifest, todo, part, rows, results, start]
    exportOverlapped,  \* files written by an export that did not run alone
    alone,       \* exporters nobody else ran beside
    complete,    \* the files a finished export answers for -> the rows it found at its start
    runs, crashes

exportVars == <<trades, manifest, file, exp, exportOverlapped, alone, complete, runs, crashes>>

Files == {KeyOf[p] : p \in Parts}
None == [records |-> 0, token |-> 0, sha |-> {}]    \* no entry
Idle == [pc |-> "idle"]
Rows(p) == {t \in trades : t.part = p}
TopToken(rows) == IF rows = {} THEN 0 ELSE (CHOOSE t \in rows : \A u \in rows : u.token <= t.token).token
Collides(f) == Cardinality({p \in Parts : KeyOf[p] = f}) > 1
\* What can be asked for: everything, or one pair of one day.
Scopes == {Parts} \cup {{p} : p \in Parts}
Running(x) == exp[x].pc # "idle"

ExportTypeOK ==
    /\ trades \subseteq [part : Parts, token : 1 .. MaxTrades]
    /\ file \in [Files -> SUBSET trades] /\ \A f \in Files : manifest[f].sha \subseteq trades
    /\ \A x \in Exporters : exp[x].pc \in {"idle", "list", "check", "fetch", "write", "hash", "manifest"}

ExportInit ==
          /\ trades = {} /\ manifest = [f \in Files |-> None] /\ file = [f \in Files |-> {}]
          /\ exp = [x \in Exporters |-> Idle] /\ exportOverlapped = {} /\ alone = {}
          /\ complete = [f \in Files |-> {}] /\ runs = 0 /\ crashes = 0

----------------------------------------------------------------------------
\* save_trades: tokens arrive in any order (a historical load fills gaps).
ExportInsert(p, k) ==
    /\ k \notin {t.token : t \in trades}
    /\ trades' = trades \cup {[part |-> p, token |-> k]}
    /\ UNCHANGED <<manifest, file, exp, exportOverlapped, alone, complete, runs, crashes>>

\* export: the manifest is read once.
Start(x, scope, force) ==
    /\ ~Running(x) /\ runs < MaxRuns /\ runs' = runs + 1
    /\ exp' = [exp EXCEPT ![x] = [pc |-> "list", scope |-> scope, force |-> force, manifest |-> manifest,
                                  todo |-> {}, part |-> 0, rows |-> {}, results |-> [f \in Files |-> None],
                                  start |-> [p \in Parts |-> {}]]]
    /\ alone' = IF \E y \in Exporters : Running(y) THEN {} ELSE {x}
    /\ UNCHANGED <<trades, manifest, file, exportOverlapped, complete, crashes>>

\* _iter_partitions: those of the range asked for that hold a row.
List(x) ==
    /\ exp[x].pc = "list"
    /\ exp' = [exp EXCEPT ![x].pc = "check", ![x].todo = {p \in exp[x].scope : Rows(p) # {}},
                          ![x].start = [p \in Parts |-> Rows(p)]]
    /\ UNCHANGED <<trades, manifest, file, exportOverlapped, alone, complete, runs, crashes>>

\* _is_partition_changed: number of rows and greatest token against the index.
Changed(x, p) ==
    LET e == exp[x].manifest[KeyOf[p]] IN
    Rows(p) # {} /\ (e.records # Cardinality(Rows(p)) \/ e.token # TopToken(Rows(p)))

\* The loop over the partitions, least first.
Check(x) ==
    LET e == exp[x]
        p == CHOOSE p \in e.todo : \A q \in e.todo : p <= q
    IN  /\ e.pc = "check"
        /\ exp' = [exp EXCEPT ![x] =
             IF e.todo = {} THEN [e EXCEPT !.pc = "manifest"]
             ELSE IF e.force \/ Changed(x, p) THEN [e EXCEPT !.pc = "fetch", !.part = p, !.todo = @ \ {p}]
             ELSE [e EXCEPT !.todo = @ \ {p}]]
        /\ UNCHANGED <<trades, manifest, file, exportOverlapped, alone, complete, runs, crashes>>

\* _fetch_rows: a second query, which may see more than the check did.
Fetch(x) ==
    /\ exp[x].pc = "fetch"
    /\ exp' = [exp EXCEPT ![x].pc = "write", ![x].rows = Rows(exp[x].part)]
    /\ UNCHANGED <<trades, manifest, file, exportOverlapped, alone, complete, runs, crashes>>

\* _write_parquet_atomic: a temporary file takes the file's place.
Replace(f, rows) == [file EXCEPT ![f] = rows]

\* _export_partition writes the file, and then reads it again for its hash.
Write(x) ==
    LET e == exp[x]
        f == KeyOf[e.part]
    IN  /\ e.pc = "write"
        /\ file' = Replace(f, e.rows)
        /\ exp' = [exp EXCEPT ![x].pc = "hash"]
        /\ exportOverlapped' = IF x \in alone THEN exportOverlapped ELSE exportOverlapped \cup {f}
        /\ UNCHANGED <<trades, manifest, alone, complete, runs, crashes>>

Hash(x) ==
    LET e == exp[x]
        f == KeyOf[e.part]
    IN  /\ e.pc = "hash"
        /\ exp' = [exp EXCEPT ![x].pc = "check", ![x].rows = {}, ![x].results[f] =
                     [records |-> Cardinality(e.rows), token |-> TopToken(e.rows), sha |-> file[f]]]
        /\ UNCHANGED <<trades, manifest, file, exportOverlapped, alone, complete, runs, crashes>>

\* _write_manifest: the manifest read at the start with this run's results.
WriteManifest(x) ==
    LET e == exp[x]
        done == {f \in Files : e.results[f] # None}
    IN  /\ e.pc = "manifest"
        /\ manifest' = [f \in Files |-> IF f \in done THEN e.results[f] ELSE e.manifest[f]]
        /\ exportOverlapped' = IF x \in alone THEN exportOverlapped ELSE Files
        /\ complete' = [f \in Files |-> {t \in UNION {e.start[p] : p \in e.scope} : KeyOf[t.part] = f}
                                        \cup complete[f]]
        /\ exp' = [exp EXCEPT ![x] = Idle]
        /\ UNCHANGED <<trades, file, alone, runs, crashes>>

\* The export is killed, or a query or write of it fails: its files stay,
\* the manifest does not know of them.
ExportCrash(x) ==
    /\ Running(x) /\ crashes < MaxCrashes /\ crashes' = crashes + 1
    /\ exp' = [exp EXCEPT ![x] = Idle]
    /\ UNCHANGED <<trades, manifest, file, exportOverlapped, alone, complete, runs>>

ExportNext ==
          \/ \E p \in Parts, k \in 1 .. MaxTrades : ExportInsert(p, k)
          \/ \E x \in Exporters :
              \/ \E scope \in Scopes, force \in BOOLEAN : Start(x, scope, force)
              \/ List(x) \/ Check(x) \/ Fetch(x) \/ Write(x) \/ Hash(x) \/ WriteManifest(x) \/ ExportCrash(x)

ExportSpec == ExportInit /\ [][ExportNext]_exportVars

----------------------------------------------------------------------------
\* A finished export that ran alone has every row it answered for in the
\* row's file, whether it wrote the file, skipped it, or a killed export
\* wrote it before; two pairs with one file name overwrite each other.
NothingSkipped ==
    \A f \in Files : ~Collides(f) /\ f \notin exportOverlapped => complete[f] \subseteq file[f]

\* The manifest never claims rows its file has not: an entry describes the
\* rows in its file, or fewer (a killed export replaced the file).
ManifestIsBacked ==
    \A f \in Files : ~Collides(f) /\ f \notin exportOverlapped => manifest[f].sha \subseteq file[f]

\* Exports lose nothing, through skips and kills.
ExportLosesNothing == NothingSkipped /\ ManifestIsBacked

=============================================================================
