--------------------------- MODULE Administration ---------------------------
(*****************************************************************************)
(* What administrators and feedback change at run time: privileged actions,  *)
(* runtime configuration, and the weights a process loads and adapts.        *)
(*****************************************************************************)
EXTENDS Integers, Sequences, FiniteSets, FiniteSetsExt, Functions, SequencesExt

-----------------------------------------------------------------------------
(* The break-glass policy of the admin API (api/admin_router.py): a worker   *)
(* hands out elevation tokens, a sensitive call shows one, is written to the *)
(* audit log and only then runs; a retraining goes on in the background.     *)
(* Tokens live in the memory of the worker that issued them.                 *)

CONSTANTS
    AdminWorkers, Calls,
    Actions,        \* sensitive actions, "retrain" among them
    ElevationTTL,   \* admin_elevation_ttl_seconds
    MaxTokens, MaxEntries, AdminMaxFaults, AdminMaxTime

VARIABLES
    tokens,     \* _elevations per worker: token -> expiry
    known,      \* tokens an admin was given: token -> [expires, entry]
    audit,      \* break-glass entries of the audit log: [token, action]
    call,       \* per call in progress: [pc, worker, token, action, at, entry]
    effects,    \* sensitive changes made: [action, token, at, entry]
    jobs,       \* retrainings: [worker, at], "queued" before the row of retrain_jobs
                \* is inserted, then the row's status; "lost" and "stuck" when the
                \* worker died before it and at "running"
    adminNow, adminFaults

adminVars == <<tokens, known, audit, call, effects, jobs, adminNow, adminFaults>>

AdminIdle == [pc |-> "idle"]
NoTokens == [k \in {} |-> 0]
With(f, x, y) == [z \in DOMAIN f \cup {x} |-> IF z = x THEN y ELSE f[z]]

AdminTypeOK ==
    /\ \A w \in AdminWorkers : DOMAIN tokens[w] \subseteq 1 .. MaxTokens
    /\ \A q \in Calls : call[q].pc \in {"idle", "log", "run"}
    /\ \A j \in DOMAIN jobs : jobs[j].at \in {"queued", "running", "completed", "failed", "lost", "stuck"}

AdminInit ==
         /\ tokens = [w \in AdminWorkers |-> NoTokens] /\ known = NoTokens /\ audit = <<>>
         /\ call = [q \in Calls |-> AdminIdle] /\ effects = <<>> /\ jobs = <<>> /\ adminNow = 0 /\ adminFaults = 0

Issued == UNION {DOMAIN tokens[w] : w \in AdminWorkers} \cup DOMAIN known

----------------------------------------------------------------------------
\* elevate: the token is stored, then the elevation is logged; if the log
\* fails the caller gets an error and never learns the token.
Elevate(w, k) ==
    /\ k \notin Issued /\ \A i \in 1 .. k - 1 : i \in Issued
    /\ tokens' = [tokens EXCEPT ![w] = With(@, k, adminNow + ElevationTTL)]
    /\ \/ /\ audit' = Append(audit, [token |-> k, action |-> "elevate"])
          /\ known' = With(known, k, [expires |-> adminNow + ElevationTTL, entry |-> Len(audit) + 1])
          /\ UNCHANGED adminFaults
       \/ adminFaults < AdminMaxFaults /\ adminFaults' = adminFaults + 1 /\ UNCHANGED <<audit, known>>
    /\ UNCHANGED <<call, effects, jobs, adminNow>>

Purged_Keep(w) == tokens[w]

\* Expired tokens are dropped on every check.
Purged(w) == [k \in {k \in DOMAIN tokens[w] : tokens[w][k] > adminNow} |-> tokens[w][k]]

\* require_break_glass: the token must be one of this worker's.
Check(q, w, k, action) ==
    /\ call[q].pc = "idle" /\ Len(audit) < MaxEntries /\ k \in DOMAIN known
    /\ tokens' = [tokens EXCEPT ![w] = Purged(w)]
    /\ call' = IF k \in DOMAIN Purged(w)
               THEN [call EXCEPT ![q] = [pc |-> "log", worker |-> w, token |-> k, action |-> action, at |-> adminNow]]
               ELSE call    \* 403
    /\ UNCHANGED <<known, audit, effects, jobs, adminNow, adminFaults>>

\* log_break_glass_action; an error refuses the call.
Log(q) ==
    /\ call[q].pc = "log"
    /\ \/ /\ audit' = Append(audit, [token |-> call[q].token, action |-> call[q].action])
          /\ call' = [call EXCEPT ![q] = [pc |-> "run", worker |-> @.worker, token |-> @.token,
                                          action |-> @.action, at |-> @.at, entry |-> Len(audit) + 1]]
          /\ UNCHANGED adminFaults
       \/ /\ adminFaults < AdminMaxFaults /\ adminFaults' = adminFaults + 1
          /\ call' = [call EXCEPT ![q] = AdminIdle] /\ UNCHANGED audit
    /\ UNCHANGED <<tokens, known, effects, jobs, adminNow>>

\* promote_model, patch_config, add_suppression, delete_suppression and
\* trigger_retrain; each may still be refused (404, 409).
Run(q) ==
    LET c == call[q]
    IN  /\ c.pc = "run" /\ call' = [call EXCEPT ![q] = AdminIdle]
        /\ \/ /\ effects' = Append(effects, [action |-> c.action, token |-> c.token, at |-> c.at,
                                             entry |-> c.entry])
              /\ jobs' = IF c.action = "retrain"
                         THEN Append(jobs, [worker |-> c.worker, at |-> "queued"]) ELSE jobs
           \/ UNCHANGED <<effects, jobs>>
        /\ UNCHANGED <<tokens, known, audit, adminNow, adminFaults>>

\* _run_retrain, after the answer was sent.
StartRetrain(j) ==
    /\ jobs[j].at = "queued" /\ jobs' = [jobs EXCEPT ![j].at = "running"]
    /\ UNCHANGED <<tokens, known, audit, call, effects, adminNow, adminFaults>>

FinishRetrain(j) ==
    /\ jobs[j].at = "running"
    /\ \E s \in {"completed", "failed"} : jobs' = [jobs EXCEPT ![j].at = s]
    /\ UNCHANGED <<tokens, known, audit, call, effects, adminNow, adminFaults>>

\* A worker dies: its tokens, its calls and its background tasks go; a row
\* that says "running" stays so.
Orphaned(j, w) ==
    IF jobs[j].worker # w THEN jobs[j].at
    ELSE CASE jobs[j].at = "queued" -> "lost" [] jobs[j].at = "running" -> "stuck" [] OTHER -> jobs[j].at

AdminCrash(w) ==
    /\ adminFaults < AdminMaxFaults /\ adminFaults' = adminFaults + 1
    /\ tokens' = [tokens EXCEPT ![w] = NoTokens]
    /\ call' = [q \in Calls |-> IF call[q].pc # "idle" /\ call[q].worker = w THEN AdminIdle ELSE call[q]]
    /\ jobs' = [j \in DOMAIN jobs |-> [jobs[j] EXCEPT !.at = Orphaned(j, w)]]
    /\ UNCHANGED <<known, audit, effects, adminNow>>

AdminTick == adminNow < AdminMaxTime /\ adminNow' = adminNow + 1 /\ UNCHANGED <<tokens, known, audit, call, effects, jobs, adminFaults>>

AdminNext ==
         \/ \E w \in AdminWorkers, k \in 1 .. MaxTokens :
             Elevate(w, k) \/ \E q \in Calls, a \in Actions : Check(q, w, k, a)
         \/ \E q \in Calls : Log(q) \/ Run(q)
         \/ \E j \in DOMAIN jobs : StartRetrain(j) \/ FinishRetrain(j)
         \/ \E w \in AdminWorkers : AdminCrash(w)
         \/ AdminTick

AdminSpec == AdminInit /\ [][AdminNext]_adminVars

----------------------------------------------------------------------------
EffectIsAudited(e) ==
    /\ audit[e.entry] = [token |-> e.token, action |-> e.action]
    /\ known[e.token].entry < e.entry /\ e.at < known[e.token].expires

\* Every sensitive change has an audit entry of its own, written before it,
\* under a token whose elevation was logged earlier still and had not expired
\* when the call was checked; a failing audit log, a crash or an expiry in the
\* middle of a call leaves entries without an effect, never an effect without
\* its entry (require_break_glass, elevate).
AdminIsAccountable ==
    /\ \A i \in DOMAIN effects : EffectIsAudited(effects[i])
    /\ \A i, j \in DOMAIN effects : i # j => effects[i].entry # effects[j].entry
    /\ Len(SelectSeq(effects, LAMBDA e : e.action = "retrain")) = Len(jobs)

-----------------------------------------------------------------------------
(* The governed settings (config/settings.py, PATCH /admin/config in         *)
(* api/admin_router.py): the table runtime_config is read through a cache    *)
(* per process with a time to live, refreshed early when a version counter   *)
(* in Redis has moved.  The table's content is its version: 0 the            *)
(* environment's defaults, n after the n-th write.                           *)

CONSTANTS Threads,   \* pairs of a process and a thread of it
          TTL, MaxWrites, ConfigMaxFaults, ConfigMaxTime

VARIABLES
    commits,    \* times of the writes to runtime_config
    counter,    \* ledgerlens:config:version in Redis
    client,     \* per process: its Redis client, "untried", "connecting", "up" or
                \* "none"; all but "up" are None to a caller
    configCache,      \* per process: [ts, config, seen], NoConfig for {}
    thread,     \* per thread: a get() or a patch_config in progress
    overlap,    \* history: processes in which two threads were in get() or patch_config at once
    answer,     \* per process: the last answer of get()
    bumped,     \* versions whose writer finished bump_config_version
    configNow, configFaults

configVars == <<commits, counter, client, configCache, thread, overlap, answer, bumped, configNow, configFaults>>

Procs == {t[1] : t \in Threads}
NoConfig == 0
Never == MaxWrites + 1      \* a _seen_version of None
Expired == 0                \* invalidate() sets _ts to 0.0; the clock starts later
Table == Len(commits)
ConfigIdle == [pc |-> "idle"]
\* The process of t, if another of its threads is in get() or patch_config.
Busy(t) == {p \in {t[1]} : \E u \in Threads \ {t} : u[1] = p /\ thread[u].pc # "idle"}
Refreshing(t) == thread[t].pc \in {"select", "stamp", "config"}

ConfigTypeOK ==
    /\ Table <= MaxWrites /\ counter \in 0 .. MaxWrites /\ client \in [Procs -> {"untried", "connecting", "up", "none"}]
    /\ \A p \in Procs : configCache[p] \in [ts : 0 .. ConfigMaxTime, config : 0 .. MaxWrites, seen : 0 .. Never]
    /\ \A t \in Threads : thread[t].pc \in {"idle", "remote", "select", "stamp", "config", "invalidate", "bump", "connect"}

ConfigInit ==
          /\ commits = <<>> /\ counter = 0 /\ client = [p \in Procs |-> "untried"]
          /\ configCache = [p \in Procs |-> [ts |-> Expired, config |-> NoConfig, seen |-> Never]]
          /\ thread = [t \in Threads |-> ConfigIdle] /\ overlap = {}
          /\ answer = [p \in Procs |-> [started |-> TTL, config |-> 0, failed |-> FALSE]]
          /\ bumped = 0 /\ configNow = TTL /\ configFaults = 0

----------------------------------------------------------------------------
\* _get_config_redis_client: the first caller in a process's life connects,
\* having set _config_redis_attempted; meanwhile the others get None.
Connect(t) ==
    /\ thread[t].pc \in {"remote", "bump"} /\ client[t[1]] = "untried"
    /\ client' = [client EXCEPT ![t[1]] = "connecting"]
    /\ thread' = [thread EXCEPT ![t].pc = "connect", ![t].then = thread[t].pc]
    /\ UNCHANGED <<commits, counter, configCache, overlap, answer, bumped, configNow, configFaults>>

Connected(t) ==
    /\ thread[t].pc = "connect"
    /\ \/ client' = [client EXCEPT ![t[1]] = "up"] /\ UNCHANGED configFaults
       \/ client' = [client EXCEPT ![t[1]] = "none"] /\ configFaults < ConfigMaxFaults /\ configFaults' = configFaults + 1
    /\ thread' = [thread EXCEPT ![t].pc = thread[t].then]
    /\ UNCHANGED <<commits, counter, configCache, overlap, answer, bumped, configNow>>

\* What _get_remote_config_version may answer: the counter; Never stands for
\* None (no client yet or at all, the circuit open, or an error).
Remote(p) == {r \in {counter, Never} : (r = counter => client[p] = "up")
                                       /\ (r = Never => client[p] # "up" \/ configFaults < ConfigMaxFaults)}

Fresh(p, remote, now) ==
    /\ remote = Never \/ remote = configCache[p].seen
    /\ configCache[p].ts + TTL > now /\ configCache[p].config # NoConfig

Answer(t, config, failed, started) ==
    answer' = [answer EXCEPT ![t[1]] =
                [started |-> started, config |-> config, failed |-> failed]]

\* _RuntimeConfigCache.get takes the time, asks Redis and tests the cache.
Get(t) ==
    /\ thread[t].pc = "idle"
    /\ thread' = [thread EXCEPT ![t] = [pc |-> "remote", then |-> "", now |-> configNow, remote |-> Never,
                                       config |-> NoConfig, failed |-> FALSE]]
    /\ overlap' = overlap \cup Busy(t)
    /\ UNCHANGED <<commits, counter, client, configCache, answer, bumped, configNow, configFaults>>

AskRemote(t) ==
    LET p == t[1]
        started == thread[t].now
    IN  /\ thread[t].pc = "remote" /\ client[p] # "untried"
        /\ \E r \in Remote(p) :
            /\ configFaults' = IF r = Never /\ client[p] = "up" THEN configFaults + 1 ELSE configFaults
            /\ IF Fresh(p, r, started)
               THEN Answer(t, configCache[p].config, FALSE, started) /\ thread' = [thread EXCEPT ![t] = ConfigIdle]
               ELSE thread' = [thread EXCEPT ![t].pc = "select", ![t].remote = r] /\ UNCHANGED answer
        /\ UNCHANGED <<commits, counter, client, configCache, overlap, bumped, configNow>>

\* The SELECT; any exception leaves an empty configuration.
Select(t) ==
    /\ thread[t].pc = "select"
    /\ \/ thread' = [thread EXCEPT ![t].pc = "stamp", ![t].config = Table] /\ UNCHANGED configFaults
       \/ /\ configFaults < ConfigMaxFaults /\ configFaults' = configFaults + 1
          /\ thread' = [thread EXCEPT ![t].pc = "stamp", ![t].failed = TRUE]
    /\ UNCHANGED <<commits, counter, client, configCache, overlap, answer, bumped, configNow>>

\* The time of the cached copy: taken before the SELECT.
Stamp(t) == thread[t].now

SetStamp(t) ==
    /\ thread[t].pc = "stamp"
    /\ configCache' = [configCache EXCEPT ![t[1]].ts = Stamp(t)]
    /\ thread' = [thread EXCEPT ![t].pc = "config"]
    /\ UNCHANGED <<commits, counter, client, overlap, answer, bumped, configNow, configFaults>>

SetConfig(t) ==
    LET r == thread[t]
    IN  /\ r.pc = "config"
        /\ configCache' = [configCache EXCEPT ![t[1]].config = r.config,
                                              ![t[1]].seen = IF r.remote # Never THEN r.remote ELSE @]
        /\ Answer(t, r.config, r.failed, r.now)
        /\ thread' = [thread EXCEPT ![t] = ConfigIdle]
        /\ UNCHANGED <<commits, counter, client, overlap, bumped, configNow, configFaults>>

----------------------------------------------------------------------------
\* patch_config: the rows are committed, this process's cache is emptied, the
\* counter is bumped.
Patch(t) ==
    /\ thread[t].pc = "idle" /\ Table < MaxWrites
    /\ commits' = Append(commits, configNow)
    /\ thread' = [thread EXCEPT ![t] = [pc |-> "invalidate", then |-> "", version |-> Table + 1]]
    /\ overlap' = overlap \cup Busy(t)
    /\ UNCHANGED <<counter, client, configCache, answer, bumped, configNow, configFaults>>

Invalidate(t) ==
    /\ thread[t].pc = "invalidate"
    /\ configCache' = [configCache EXCEPT ![t[1]].ts = Expired, ![t[1]].config = NoConfig]
    /\ thread' = [thread EXCEPT ![t].pc = "bump"]
    /\ UNCHANGED <<commits, counter, client, overlap, answer, bumped, configNow, configFaults>>

\* bump_config_version; a failure is logged, and may be the loss of the answer
\* to an INCR that was done.
Bump(t) ==
    LET p == t[1]
    IN  /\ thread[t].pc = "bump" /\ client[p] # "untried" /\ thread' = [thread EXCEPT ![t] = ConfigIdle]
        /\ \/ /\ client[p] = "up" /\ counter' = counter + 1 /\ UNCHANGED configFaults
              /\ bumped' = IF thread[t].version > bumped THEN thread[t].version ELSE bumped
           \/ client[p] # "up" /\ UNCHANGED <<counter, bumped, configFaults>>
           \/ /\ client[p] = "up" /\ configFaults < ConfigMaxFaults /\ configFaults' = configFaults + 1
              /\ counter' \in {counter, counter + 1} /\ UNCHANGED bumped
        /\ UNCHANGED <<commits, client, configCache, overlap, answer, configNow>>

ConfigTick ==
          /\ configNow < ConfigMaxTime /\ configNow' = configNow + 1
          /\ UNCHANGED <<commits, counter, client, configCache, thread, overlap, answer, bumped, configFaults>>

ConfigNext ==
          \/ \E t \in Threads : \/ Connect(t) \/ Connected(t) \/ Get(t) \/ AskRemote(t) \/ Select(t) \/ SetStamp(t) \/ SetConfig(t)
                                \/ Patch(t) \/ Invalidate(t) \/ Bump(t)
          \/ ConfigTick

ConfigSpec == ConfigInit /\ [][ConfigNext]_configVars

----------------------------------------------------------------------------
VersionBy(time) == Cardinality({v \in DOMAIN commits : commits[v] <= time})

\* An answer holds every write that is a time to live old.
Bounded(p) == ~answer[p].failed => answer[p].config >= VersionBy(answer[p].started - TTL)

\* Nobody refreshing, a cached copy that the counter confirms holds every
\* write whose bump went through.
Confirmed(p) ==
    (configCache[p].config # NoConfig /\ configCache[p].seen = counter /\ \A u \in Threads : u[1] = p => ~Refreshing(u))
        => configCache[p].config >= bumped

\* The bound the comment above _CONFIG_VERSION_REDIS_KEY calls hard (every
\* process sees a change within runtime_config_ttl_seconds), whatever becomes
\* of Redis, and the promise of the counter, in every process whose threads
\* have not called get() or patch_config at the same time: the refresh writes
\* _ts and _config in two steps and takes no lock.
ChangesArriveInTime == \A p \in Procs \ overlap : Bounded(p) /\ Confirmed(p)

-----------------------------------------------------------------------------
(* ensemble_weights.json between `ledgerlens reweight` (cli.py,              *)
(* ensemble_reweighter.py) and the scorers (model_inference.py).  The file   *)
(* system is modelled down to inodes: apply_weights writes path + ".tmp" and *)
(* renames it; every writer uses the same temporary name.                    *)

CONSTANTS Writers, Readers, MaxInodes, LoadedMaxTime, MaxReads

VARIABLES
    inode,      \* inodes ever created: [content, mtime]
    path, tmp,  \* the inode each name points to, 0 for none
    writer,     \* per writer: [pc, fd]
    reader,     \* per scoring process: [pc, mtime, fd]
    loadedCache,      \* per process: _weights_mtime and _runtime_weights
    used,       \* per process: the weights of its last score
    touched,    \* per tick: the writers that truncated or wrote a file
    loadedNow, reads

loadedVars == <<inode, path, tmp, writer, reader, loadedCache, used, touched, loadedNow, reads>>

\* Contents: a writer's weights, what does not parse (nothing after
\* open(..., "w"), or a shorter text over a longer one), and the static weights
\* of the settings when load_runtime_weights answers None.
Empty == "unreadable"
Settings == "settings"
Contents == Writers \cup {Empty}

LoadedTypeOK ==
    /\ \A k \in DOMAIN inode : inode[k].content \in Contents /\ inode[k].mtime \in 0 .. LoadedMaxTime
    /\ path \in 0 .. Len(inode) /\ tmp \in 0 .. Len(inode)
    /\ \A r \in Readers : used[r] \in Writers \cup {Settings}

LoadedInit ==
          /\ inode = <<>> /\ path = 0 /\ tmp = 0
          /\ writer = [w \in Writers |-> [pc |-> "start", fd |-> 0]]
          /\ reader = [r \in Readers |-> [pc |-> "idle", mtime |-> 0, fd |-> 0]]
          /\ loadedCache = [r \in Readers |-> [mtime |-> 0, weights |-> Settings]]
          /\ used = [r \in Readers |-> Settings]
          /\ touched = [t \in 0 .. LoadedMaxTime |-> {}] /\ loadedNow = 0 /\ reads = 0

----------------------------------------------------------------------------
\* open(tmp_path, "w") creates the file or truncates the one that is there.
OpenTmp(w) ==
    /\ writer[w].pc = "start"
    /\ IF tmp = 0
       THEN /\ Len(inode) < MaxInodes
            /\ inode' = Append(inode, [content |-> Empty, mtime |-> loadedNow]) /\ tmp' = Len(inode) + 1
       ELSE inode' = [inode EXCEPT ![tmp] = [content |-> Empty, mtime |-> loadedNow]] /\ UNCHANGED tmp
    /\ writer' = [writer EXCEPT ![w] = [pc |-> "write", fd |-> tmp']]
    /\ touched' = [touched EXCEPT ![loadedNow] = @ \cup {w}]
    /\ UNCHANGED <<path, reader, loadedCache, used, loadedNow, reads>>

\* json.dump is flushed by one write when the file is closed; over another
\* writer's longer text it leaves that one's end.
Flush(w) ==
    /\ writer[w].pc = "write"
    /\ \E content \in {w} \cup (IF inode[writer[w].fd].content = Empty THEN {} ELSE {Empty}) :
          inode' = [inode EXCEPT ![writer[w].fd] = [content |-> content, mtime |-> loadedNow]]
    /\ writer' = [writer EXCEPT ![w].pc = "replace"]
    /\ touched' = [touched EXCEPT ![loadedNow] = @ \cup {w}]
    /\ UNCHANGED <<path, tmp, reader, loadedCache, used, loadedNow, reads>>

\* os.replace raises FileNotFoundError when another writer took the name.
Replace(w) ==
    /\ writer[w].pc = "replace"
    /\ IF tmp # 0 THEN path' = tmp /\ tmp' = 0 ELSE UNCHANGED <<path, tmp>>
    /\ writer' = [writer EXCEPT ![w].pc = "done"]
    /\ UNCHANGED <<inode, reader, loadedCache, used, touched, loadedNow, reads>>

WriterCrash(w) ==
    /\ writer[w].pc \in {"write", "replace"}
    /\ writer' = [writer EXCEPT ![w].pc = "done"]
    /\ UNCHANGED <<inode, path, tmp, reader, loadedCache, used, touched, loadedNow, reads>>

----------------------------------------------------------------------------

\* The cached weights are current.
Hit(r, mtime) == mtime = loadedCache[r].mtime /\ loadedCache[r].weights # Settings

\* load_runtime_weights up to the cache test.
Stat(r) ==
    /\ reader[r].pc = "idle" /\ reads < MaxReads /\ reads' = reads + 1
    /\ IF path = 0
       THEN used' = [used EXCEPT ![r] = Settings] /\ UNCHANGED reader
       ELSE IF Hit(r, inode[path].mtime)
            THEN used' = [used EXCEPT ![r] = loadedCache[r].weights] /\ UNCHANGED reader
            ELSE /\ reader' = [reader EXCEPT ![r] = [pc |-> "open", mtime |-> inode[path].mtime, fd |-> 0]]
                 /\ UNCHANGED used
    /\ UNCHANGED <<inode, path, tmp, writer, loadedCache, touched, loadedNow>>

\* The shared flock holds nobody back: no writer takes a lock.
Open(r) ==
    /\ reader[r].pc = "open"
    /\ reader' = [reader EXCEPT ![r].pc = "read", ![r].fd = path]
    /\ UNCHANGED <<inode, path, tmp, writer, loadedCache, used, touched, loadedNow, reads>>

\* What does not parse is None, and the scorer takes the settings; what
\* apply_weights wrote passes the checks of keys, signs and sum.
Read(r) ==
    LET content == inode[reader[r].fd].content
    IN  /\ reader[r].pc = "read"
        /\ reader' = [reader EXCEPT ![r].pc = "idle"]
        /\ IF content = Empty
           THEN used' = [used EXCEPT ![r] = Settings] /\ UNCHANGED loadedCache
           ELSE /\ used' = [used EXCEPT ![r] = content]
                /\ loadedCache' = [loadedCache EXCEPT ![r] = [mtime |-> reader[r].mtime, weights |-> content]]
        /\ UNCHANGED <<inode, path, tmp, writer, touched, loadedNow, reads>>

LoadedTick == loadedNow < LoadedMaxTime /\ loadedNow' = loadedNow + 1 /\ UNCHANGED <<inode, path, tmp, writer, reader, loadedCache, used, touched, reads>>

LoadedNext ==
          \/ \E w \in Writers : OpenTmp(w) \/ Flush(w) \/ Replace(w) \/ WriterCrash(w)
          \/ \E r \in Readers : Stat(r) \/ Open(r) \/ Read(r)
          \/ LoadedTick

LoadedSpec == LoadedInit /\ [][LoadedNext]_loadedVars

----------------------------------------------------------------------------
\* A scorer whose cached mtime is the file's holds the file's weights, or two
\* writers touched the disk within one tick of the clock: reading the time before the
\* content is the order that makes the cache self-correcting, whatever renames
\* fall between the two (load_runtime_weights, model_inference.py).
CacheFollowsTheFile ==
    \A r \in Readers :
        (path # 0 /\ Hit(r, inode[path].mtime) /\ inode[path].content # Empty)
            => (loadedCache[r].weights = inode[path].content \/ Cardinality(touched[inode[path].mtime]) > 1)

-----------------------------------------------------------------------------
(* AdaptiveReweighter and ModelPerformanceTracker (adaptive_reweighter.py):  *)
(* confirmed labels move the ensemble's weights towards each model's F1.     *)
(* Weights are integers in units of 1/One; a division rounds down, where the *)
(* code's floats are exact to 1e-12, and the properties leave Slack for it.  *)

CONSTANTS
    Models,         \* _MODEL_NAMES_ORDER
    WeightWorkers,        \* instances that share the database
    One,            \* the weight 1.0
    MinWeight, MaxWeight, MaxDelta, \* the stability constraints
    Alpha, AlphaOf, \* ema_alpha = Alpha / AlphaOf
    WindowDays, Slack,
    MaxFeedback, MaxUpdates, MaxDay

VARIABLES
    feedback,   \* label_feedback: rows [id, pred, label, day]
    history,    \* the newest row of ensemble_weights_history, or None
    weights,    \* per worker: _weights
    day, updates

weightVars == <<feedback, history, weights, day, updates>>

Equal == [m \in Models |-> One \div Cardinality(Models)]
None == [m \in {} |-> 0]
Total(w) == FoldFunction(+, 0, w)
Clip(x, low, high) == IF x < low THEN low ELSE IF x > high THEN high ELSE x

WeightTypeOK ==
    /\ \A w \in WeightWorkers : weights[w] \in [Models -> 0 .. One]
    /\ history = None \/ history \in [Models -> 0 .. One]
    /\ Cardinality(feedback) <= MaxFeedback

WeightInit ==
          /\ feedback = {} /\ history = None /\ weights = [w \in WeightWorkers |-> Equal]
          /\ day = 0 /\ updates = 0

----------------------------------------------------------------------------
\* The models a pass of _project_weights may still move.
Adjustable(w, deficit) ==
    {m \in Models : (deficit > 0 /\ w[m] < MaxWeight) \/ (deficit < 0 /\ w[m] > MinWeight)}

\* One pass: the deficit is shared equally among them, within the bounds.
Pass(w) ==
    LET deficit == One - Total(w)
        adj == Adjustable(w, deficit)
    IN  IF deficit = 0 \/ adj = {} THEN w
        ELSE [m \in Models |-> IF m \in adj
                               THEN Clip(w[m] + deficit \div Cardinality(adj), MinWeight, MaxWeight)
                               ELSE w[m]]

RECURSIVE Passes(_, _)
Passes(w, n) == IF n = 0 THEN w ELSE Passes(Pass(w), n - 1)

\* _project_weights: onto the bounded simplex, then normalised.
Project(w) ==
    LET p == Passes([m \in Models |-> Clip(w[m], MinWeight, MaxWeight)], Cardinality(Models) + 1)
    IN  [m \in Models |-> (p[m] * One) \div Total(p)]

\* _apply_stability
Stable(old, new) ==
    Project([m \in Models |->
        LET moved == old[m] + Clip(new[m] - old[m], -MaxDelta, MaxDelta)
        IN  IF moved < MinWeight THEN MinWeight ELSE moved])

\* ModelPerformanceTracker.compute; with no true positive the F1 is 0.
F1(rows, m) ==
    LET tp == Cardinality({r \in rows : r.pred[m] /\ r.label})
        wrong == Cardinality({r \in rows : r.pred[m] # r.label})
    IN  IF tp = 0 THEN 0 ELSE (2 * tp * One) \div (2 * tp + wrong)

\* _get_recent_feedbacks
Recent == {r \in feedback : r.day >= day - WindowDays}

Target(rows) ==
    LET f1 == [m \in Models |-> F1(rows, m)]
    IN  IF Total(f1) = 0 THEN Equal
        ELSE [m \in Models |-> (f1[m] * One) \div Total(f1)]

----------------------------------------------------------------------------
RecordFeedback(pred, label) ==
    /\ Cardinality(feedback) < MaxFeedback
    /\ feedback' = feedback \cup
           {[id |-> Cardinality(feedback) + 1, pred |-> pred, label |-> label, day |-> day]}
    /\ UNCHANGED <<history, weights, day, updates>>

\* update_weights: nothing happens without recent labels; the new weights hold
\* in this worker even when the insert of their row fails.
UpdateWeights(w) ==
    LET target == Target(Recent)
        ema == [m \in Models |-> (Alpha * target[m] + (AlphaOf - Alpha) * weights[w][m]) \div AlphaOf]
        new == Stable(weights[w], ema)
    IN  /\ Recent # {} /\ updates < MaxUpdates /\ updates' = updates + 1
        /\ weights' = [weights EXCEPT ![w] = new] /\ history' \in {new, history}
        /\ UNCHANGED <<feedback, day>>

\* __init__ and _load_weights of a worker that starts.
WeightRestart(w) ==
    /\ weights' = [weights EXCEPT ![w] = IF history = None THEN Equal ELSE Project(history)]
    /\ UNCHANGED <<feedback, history, day, updates>>

NextDay == day < MaxDay /\ day' = day + 1 /\ UNCHANGED <<feedback, history, weights, updates>>

WeightNext ==
          \/ \E pred \in [Models -> BOOLEAN], label \in BOOLEAN : RecordFeedback(pred, label)
          \/ \E w \in WeightWorkers : UpdateWeights(w) \/ WeightRestart(w)
          \/ NextDay

WeightSpec == WeightInit /\ [][WeightNext]_weightVars

----------------------------------------------------------------------------
Near(a, b) == a - b <= Slack /\ b - a <= Slack
Feasible(w) ==
    /\ Near(Total(w), One)
    /\ \A m \in Models : MinWeight - Slack <= w[m] /\ w[m] <= MaxWeight + Slack

\* However labels, updates and restarts of the workers follow one another, the
\* weights sum to one, no model is suppressed below min_weight or promoted
\* above max_weight by the final normalisation, and reloading a stored row
\* gives back the weights that were stored (_apply_stability,
\* _project_weights, _load_weights).
WeightsStayFeasible ==
    /\ \A w \in WeightWorkers : Feasible(weights[w])
    /\ history # None => \A m \in Models : Near(Project(history)[m], history[m])

=============================================================================
