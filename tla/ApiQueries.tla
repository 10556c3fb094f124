----------------------------- MODULE ApiQueries -----------------------------
(*****************************************************************************)
(* Requests answered from stored scores: pages of scores, similar wallets,   *)
(* batch jobs and the health report.                                         *)
(*****************************************************************************)
EXTENDS Integers, Sequences, FiniteSets, FiniteSetsExt, SequencesExt

-----------------------------------------------------------------------------
(***************************************************************************)
(* The read side of the scores (detection/storage.py, api/main.py,         *)
(* api/score_cache.py): the newest score per wallet, its pages and alerts, *)
(* and the ranking that is cached under the largest row id.  A request     *)
(* that computes the ranking reads the id, the cache and the rows in       *)
(* separate steps, while another process writes and retention deletes.     *)
(* What the code keys by wallet and asset pair is one wallet here.         *)
(***************************************************************************)

CONSTANTS
    Offers,           \* the <<wallet, score>> pairs the pipelines save
    Requests,
    PageSize, MinScore,
    MaxRows, MaxAge, QueryMaxTime

VARIABLES
    rows,       \* risk_scores: id -> [wallet, score, ts]
    nextId,     \* of the AUTOINCREMENT
    cache,      \* the entry of the ranking: {} or {[value, gen, at]}; a value is the <<id, wallet>> it used
    req,        \* per request [pc, gen, base, value]; base is what was newest when it began
    queryNow

queryVars == <<rows, nextId, cache, req, queryNow>>

QueryIdle == [pc |-> "idle", gen |-> 0, base |-> {}, value |-> {}]

QueryTypeOK ==
    /\ DOMAIN rows \subseteq 1 .. MaxRows /\ nextId \in 1 .. MaxRows + 1 /\ queryNow \in 0 .. QueryMaxTime
    /\ \A r \in Requests : req[r].pc \in {"idle", "keyed", "missed", "computed", "hit", "fresh"}
    /\ Cardinality(cache) <= 1

QueryInit ==
         /\ rows = << >> /\ nextId = 1 /\ cache = {} /\ req = [r \in Requests |-> QueryIdle]
         /\ queryNow = 0

-----------------------------------------------------------------------------
\* save_scores by a pipeline: a score is stamped before it is saved, so two
\* rows may have one timestamp, and the later row the earlier one.
SaveScores(w, s, ts) ==
    /\ nextId <= MaxRows /\ nextId' = nextId + 1 /\ ts <= queryNow
    /\ rows' = [i \in DOMAIN rows \cup {nextId} |->
                    IF i = nextId THEN [wallet |-> w, score |-> s, ts |-> ts] ELSE rows[i]]
    /\ UNCHANGED <<cache, req, queryNow>>

\* Retention deletes rows of an earlier time.
Prune(i) ==
    /\ i \in DOMAIN rows /\ rows[i].ts < queryNow
    /\ rows' = [j \in DOMAIN rows \ {i} |-> rows[j]]
    /\ UNCHANGED <<nextId, cache, req, queryNow>>

\* get_latest_scores: the rows of the join with MAX(timestamp).
Latest ==
    {i \in DOMAIN rows : \A j \in DOMAIN rows : rows[j].wallet = rows[i].wallet => rows[j].ts <= rows[i].ts}

\* Its ORDER BY score DESC, ties in any fixed order: how many rows precede i.
Rank(i) == Cardinality({j \in Latest : \/ rows[j].score > rows[i].score
                                      \/ (rows[j].score = rows[i].score /\ j < i)})

\* list_scores and alerts: LIMIT and OFFSET, then the threshold.
ListScores(n) == {i \in Latest : Rank(i) \div PageSize = n /\ rows[i].score >= MinScore}

-----------------------------------------------------------------------------
Generation == Max({0} \cup DOMAIN rows)

\* The token an entry is stored under: the one read first.
GenKey(r) == req[r].gen

\* AggregateCache.get_or_compute: the generation,
ReadGeneration(r) ==
    /\ req[r].pc = "idle"
    /\ req' = [req EXCEPT ![r] = [pc |-> "keyed", gen |-> Generation, base |-> Latest, value |-> {}]]
    /\ UNCHANGED <<rows, nextId, cache, queryNow>>

\* the lookup,
QueryLookup(r) ==
    LET hits == {e \in cache : e.gen = req[r].gen /\ queryNow - e.at <= MaxAge}
    IN  /\ req[r].pc = "keyed"
        /\ \/ \E e \in hits : req' = [req EXCEPT ![r].pc = "hit", ![r].value = e.value]
           \/ hits = {} /\ req' = [req EXCEPT ![r].pc = "missed"]
        /\ UNCHANGED <<rows, nextId, cache, queryNow>>

\* compute(),
Compute(r) ==
    /\ req[r].pc = "missed"
    /\ req' = [req EXCEPT ![r].pc = "computed", ![r].value = {<<i, rows[i].wallet>> : i \in Latest}]
    /\ UNCHANGED <<rows, nextId, cache, queryNow>>

\* and the store.
Store(r) ==
    /\ req[r].pc = "computed"
    /\ cache' = {[value |-> req[r].value, gen |-> GenKey(r), at |-> queryNow]}
    /\ req' = [req EXCEPT ![r].pc = "fresh"]
    /\ UNCHANGED <<rows, nextId, queryNow>>

QueryAnswer(r) ==
    /\ req[r].pc \in {"hit", "fresh"}
    /\ req' = [req EXCEPT ![r] = QueryIdle]
    /\ UNCHANGED <<rows, nextId, cache, queryNow>>

QueryTick == queryNow < QueryMaxTime /\ queryNow' = queryNow + 1 /\ UNCHANGED <<rows, nextId, cache, req>>

QueryNext ==
         \/ \E o \in Offers, ts \in 0 .. QueryMaxTime : SaveScores(o[1], o[2], ts)
         \/ \E i \in DOMAIN rows : Prune(i)
         \/ \E r \in Requests : ReadGeneration(r) \/ QueryLookup(r) \/ Compute(r) \/ Store(r) \/ QueryAnswer(r)
         \/ QueryTick
QuerySpec == QueryInit /\ [][QueryNext]_queryVars

-----------------------------------------------------------------------------
(***************************************************************************)
(* Whatever the requests and writers interleave, a ranking served from the *)
(* cache or computed has, of every wallet that had a score when the        *)
(* request began and has it still, that score or a newer one.  Every       *)
(* wallet with a score has one in the latest ones, and by score a client   *)
(* that reads pages until one is empty has all of them at or above the     *)
(* threshold, though it is applied after LIMIT and OFFSET.                 *)
(***************************************************************************)
QueriesAreCurrent ==
    /\ \A r \in Requests : req[r].pc \in {"hit", "computed", "fresh"} =>
        \A i \in req[r].base \cap DOMAIN rows : \E v \in req[r].value : v[2] = rows[i].wallet /\ v[1] >= i
    /\ {rows[i].wallet : i \in DOMAIN rows} = {rows[i].wallet : i \in Latest}
    /\ LET pages == 0 .. (Cardinality(Latest) \div PageSize)
           list == [n \in pages |-> ListScores(n)]
           empty == {n \in pages : list[n] = {}}
           read == IF empty = {} THEN pages ELSE 0 .. Min(empty)
       IN  UNION {list[n] : n \in read} = {i \in Latest : rows[i].score >= MinScore}

-----------------------------------------------------------------------------
(* GET /wallets/{wallet}/similar (api/main.py) over embedding_store.py and   *)
(* vector_index.py: a process-wide index of the newest model version's       *)
(* embeddings, rebuilt under a lock when the store's revision moved or the   *)
(* refresh interval passed, and read by the handlers after the lock is       *)
(* released. The index is the exact (flat) one.                              *)

CONSTANTS SimilarWallets, Versions, Vectors, SimilarWorkers,
          K,             \* the k of a request
          MinSimilarity, \* its min_score
          MaxWrites, MaxRequests

VARIABLES
    store,     \* wallet_embeddings: <<wallet, version>> -> [vector, at]
    revision,  \* embedding_store_metadata's revision
    writes,    \* writes so far: the clock of computed_at
    index,     \* _vector_index: wallet -> vector, or NoIndex
    version,   \* _model_version
    indexed,   \* _indexed_embedding_revision
    due,       \* the refresh interval has passed
    similarHandler,   \* per worker: [pc, wallet, vector, used, found, stirred]
    requests

similarVars == <<store, revision, writes, index, version, indexed, due, similarHandler, requests>>

NoVersion == 0
NoIndex == [w \in {} |-> 0]
Empty == [k \in {} |-> 0]
SimilarIdle == [pc |-> "idle", wallet |-> 0, vector |-> 0, used |-> NoVersion, found |-> {},
                stirred |-> FALSE, seen |-> NoIndex]

SimilarTypeOK ==
    /\ DOMAIN store \subseteq SimilarWallets \X Versions /\ revision \in 0 .. MaxWrites
    /\ version \in Versions \cup {NoVersion} /\ DOMAIN index \subseteq SimilarWallets
    /\ \A w \in SimilarWorkers : similarHandler[w].pc \in {"idle", "embed", "search", "answer"}

SimilarInit ==
           /\ store = Empty /\ revision = 0 /\ writes = 0
           /\ index = NoIndex /\ version = NoVersion /\ indexed = -1 /\ due = TRUE
           /\ similarHandler = [w \in SimilarWorkers |-> SimilarIdle] /\ requests = 0

----------------------------------------------------------------------------
UpsertEmbedding(a, v, x) ==
    /\ writes < MaxWrites /\ writes' = writes + 1
    /\ store' = [k \in DOMAIN store \cup {<<a, v>>} |->
                    IF k = <<a, v>> THEN [vector |-> x, at |-> writes] ELSE store[k]]
    /\ revision' = revision + 1
    /\ UNCHANGED <<index, version, indexed, due, similarHandler, requests>>

Bumped_Never(r) == r

\* A deletion of a stored row counts as a change.
Bumped(r) == r + 1

DeleteEmbedding(a, v) ==
    /\ <<a, v>> \in DOMAIN store /\ writes < MaxWrites /\ writes' = writes + 1
    /\ store' = [k \in DOMAIN store \ {<<a, v>>} |-> store[k]]
    /\ revision' = Bumped(revision)
    /\ UNCHANGED <<index, version, indexed, due, similarHandler, requests>>

\* get_index_snapshot, in one transaction.
LatestVersion ==
    IF DOMAIN store = {} THEN NoVersion
    ELSE (CHOOSE k \in DOMAIN store : \A l \in DOMAIN store : store[l].at <= store[k].at)[2]

Snapshot(v) == [a \in {k[1] : k \in {l \in DOMAIN store : l[2] = v}} |-> store[<<a, v>>].vector]

RefreshDue ==
    /\ ~due /\ due' = TRUE
    /\ UNCHANGED <<store, revision, writes, index, version, indexed, similarHandler, requests>>

----------------------------------------------------------------------------
\* _initialize_vector_resources: nothing to do, or a new index and version.
Refresh(w, a) ==
    LET latest == LatestVersion
        keep == version # NoVersion /\ latest = version /\ revision = indexed /\ ~due
        fresh == IF keep THEN index ELSE Snapshot(latest)
        replaced == version' # version \/ index' # index
    IN  /\ similarHandler[w].pc = "idle" /\ requests < MaxRequests /\ requests' = requests + 1
        /\ index' = IF latest = NoVersion THEN NoIndex ELSE fresh
        /\ version' = latest
        /\ indexed' = revision /\ due' = FALSE
        /\ similarHandler' = [v \in SimilarWorkers |->
                IF v = w THEN IF latest = NoVersion THEN SimilarIdle    \* 503
                              ELSE [SimilarIdle EXCEPT !.pc = "embed", !.wallet = a]
                ELSE IF replaced THEN [similarHandler[v] EXCEPT !.stirred = TRUE] ELSE similarHandler[v]]
        /\ UNCHANGED <<store, revision, writes>>

\* The embedding of the version the process now serves, or 404 (503 when
\* another request has just emptied the index).
GetEmbedding(w) ==
    LET k == <<similarHandler[w].wallet, version>>
    IN  /\ similarHandler[w].pc = "embed"
        /\ similarHandler' = [similarHandler EXCEPT ![w] =
                IF k \in DOMAIN store
                THEN [@ EXCEPT !.pc = "search", !.vector = store[k].vector, !.used = version]
                ELSE SimilarIdle]
        /\ UNCHANGED <<store, revision, writes, index, version, indexed, due, requests>>

Similarity(x, y) == 10 - (x - y) * (x - y)

\* The n best of the index, ties in insertion (wallet) order.
Best(x, n) ==
    LET Before(a, b) == \/ Similarity(index[a], x) > Similarity(index[b], x)
                        \/ Similarity(index[a], x) = Similarity(index[b], x) /\ a < b
    IN  {a \in DOMAIN index : Cardinality({b \in DOMAIN index : Before(b, a)}) < n}

\* One more than asked for, then without the wallet itself and what is too
\* far; 500 when another request has just emptied the index.
Search(w) ==
    LET h == similarHandler[w]
        hits == {a \in Best(h.vector, K + 1) :
                    a # h.wallet /\ Similarity(index[a], h.vector) >= MinSimilarity}
        Before(a, b) == \/ Similarity(index[a], h.vector) > Similarity(index[b], h.vector)
                        \/ Similarity(index[a], h.vector) = Similarity(index[b], h.vector) /\ a < b
    IN  /\ h.pc = "search"
        /\ similarHandler' =
              IF version = NoVersion THEN [similarHandler EXCEPT ![w] = SimilarIdle]
              ELSE [similarHandler EXCEPT ![w].pc = "answer", ![w].seen = index,
                       ![w].found = {a \in hits : Cardinality({b \in hits : Before(b, a)}) < K}]
        /\ UNCHANGED <<store, revision, writes, index, version, indexed, due, requests>>

\* The answer names the version the process serves when it is written.
SimilarAnswer(w) ==
    /\ similarHandler[w].pc = "answer"
    /\ similarHandler' = [similarHandler EXCEPT ![w] = SimilarIdle]
    /\ UNCHANGED <<store, revision, writes, index, version, indexed, due, requests>>

SimilarNext ==
           \/ \E a \in SimilarWallets, v \in Versions :
               (\E x \in Vectors : UpsertEmbedding(a, v, x)) \/ DeleteEmbedding(a, v)
           \/ RefreshDue
           \/ \E w \in SimilarWorkers : (\E a \in SimilarWallets : Refresh(w, a)) \/ GetEmbedding(w) \/ Search(w) \/ SimilarAnswer(w)

SimilarSpec == SimilarInit /\ [][SimilarNext]_similarVars

----------------------------------------------------------------------------
IndexFitsRevision ==
    indexed = revision => version = LatestVersion /\ index = Snapshot(version)

NoMixUnlessStirred ==
    \A w \in SimilarWorkers : similarHandler[w].pc \in {"search", "answer"} /\ ~similarHandler[w].stirred =>
        /\ similarHandler[w].used = version
        /\ similarHandler[w].pc = "answer" => similarHandler[w].seen = index

\* Every wallet that is near enough is named, up to K of them.
NothingNearIsMissed ==
    \A w \in SimilarWorkers : similarHandler[w].pc = "answer" =>
        LET h == similarHandler[w]
            near == {a \in DOMAIN h.seen \ {h.wallet} :
                        Similarity(h.seen[a], h.vector) >= MinSimilarity}
        IN  /\ h.found \subseteq near
            /\ Cardinality(h.found) = Min({K, Cardinality(near)})

\* An index built for the store's revision holds exactly the newest version's
\* embeddings, whatever was written or deleted (embedding_store.py counts a
\* revision for each), an answer mixes versions only when another request
\* replaced the index under it (api/main.py reads the globals after the
\* lock), and asking for one more than K hides no neighbour.
AnswersFitTheIndex == IndexFitsRevision /\ NoMixUnlessStirred /\ NothingNearIsMissed

-----------------------------------------------------------------------------
(***************************************************************************)
(* POST /scores/batch (api/batch_router.py): asynchronous scoring jobs in  *)
(* a table the worker processes share, an idempotency table beside it, and *)
(* a limit on running jobs that each process keeps in memory.  The handler *)
(* has no await, so a process runs one at a time; processes interleave at  *)
(* every transaction, and a process may die with its background tasks.     *)
(***************************************************************************)

CONSTANTS BatchWorkers, Keys,    \* processes; idempotency keys ("" sends none)
          MaxConcurrent,    \* _MAX_CONCURRENT
          JobTTL,           \* _JOB_TTL_HOURS
          KeyWindow,        \* batch_idempotency_window_hours
          MaxJobs, BatchMaxTime,    \* bounds
          MaxCrashes        \* bound: crashes and failed transactions

VARIABLES
    jobs,       \* every batch_jobs row ever: [key, at, status], "expired" once deleted
    keyed,      \* batch_idempotency: [Keys -> the job, 0 for no row]
    batchHandler,    \* per process: [at, key], the request it is handling
    active,     \* per process: _active_jobs, but for the lost ones
    lost,       \* per process: ids in _active_jobs that nothing will remove
    running,    \* per process: the jobs whose background task is alive
    answers,    \* history: [key, job, at] for 202, job = 0 for 409
    batchNow, crashes

batchVars == <<jobs, keyed, batchHandler, active, lost, running, answers, batchNow, crashes>>

Free == [at |-> "free", key |-> ""]

BatchTypeOK ==
    /\ \A j \in DOMAIN jobs :
         jobs[j].status \in {"queued", "processing", "completed", "failed", "expired"}
    /\ keyed \in [Keys -> 0 .. MaxJobs]
    /\ \A w \in BatchWorkers : batchHandler[w].at \in {"free", "expire", "lookup", "insert", "winner"}
    /\ \A w \in BatchWorkers : running[w] \subseteq DOMAIN jobs
    /\ batchNow \in 0 .. BatchMaxTime /\ crashes \in 0 .. MaxCrashes

BatchInit ==
         /\ jobs = <<>> /\ keyed = [k \in Keys |-> 0]
         /\ batchHandler = [w \in BatchWorkers |-> Free]
         /\ active = [w \in BatchWorkers |-> {}] /\ lost = [w \in BatchWorkers |-> 0] /\ running = [w \in BatchWorkers |-> {}]
         /\ answers = {} /\ batchNow = 0 /\ crashes = 0
-----------------------------------------------------------------------------
At(w, pc) == batchHandler[w].at = pc
Go(w, pc) == batchHandler' = [batchHandler EXCEPT ![w].at = pc]
BatchDone(w) == batchHandler' = [batchHandler EXCEPT ![w] = Free]
Fault == crashes < MaxCrashes /\ crashes' = crashes + 1
Full(w) == Cardinality(active[w]) + lost[w] >= MaxConcurrent
BatchAnswer(w, j) == answers' = answers \cup {[key |-> batchHandler[w].key, job |-> j, at |-> batchNow]}

Submit(w, k) ==
    /\ At(w, "free") /\ batchHandler' = [batchHandler EXCEPT ![w] = [at |-> "expire", key |-> k]]
    /\ UNCHANGED <<jobs, keyed, active, lost, running, answers, batchNow, crashes>>

Expired(j) == jobs[j].at < batchNow - JobTTL
KeyExpired(k) == keyed[k] # 0 /\ jobs[keyed[k]].at < batchNow - KeyWindow

\* _expire_old_jobs, one transaction: a job may go while its task is running.
ExpireOldJobs(w) ==
    /\ At(w, "expire") /\ Go(w, "lookup")
    /\ jobs' = [j \in DOMAIN jobs |-> IF Expired(j) THEN [jobs[j] EXCEPT !.status = "expired"]
                                      ELSE jobs[j]]
    /\ keyed' = [k \in Keys |-> IF KeyExpired(k) THEN 0 ELSE keyed[k]]
    /\ UNCHANGED <<active, lost, running, answers, batchNow, crashes>>

\* _job_for_key, a join: 0 without a key row or without its job.
JobForKey(k) ==
    IF k = "" \/ keyed[k] = 0 \/ jobs[keyed[k]].status = "expired" THEN 0 ELSE keyed[k]

\* The original job is returned, or the limit refuses with 429, or the slot is
\* reserved: the handler goes on to the insert without giving up the thread.
BatchLookup(w) ==
    LET k == batchHandler[w].key
    IN /\ At(w, "lookup")
       /\ \/ JobForKey(k) # 0 /\ BatchAnswer(w, JobForKey(k)) /\ BatchDone(w)
          \/ /\ JobForKey(k) = 0 /\ Full(w)
             /\ BatchDone(w) /\ UNCHANGED answers
          \/ /\ JobForKey(k) = 0 /\ ~Full(w)
             /\ Go(w, "insert") /\ UNCHANGED answers
       /\ UNCHANGED <<jobs, keyed, active, lost, running, batchNow, crashes>>

\* IntegrityError: rollback, and the slot is given back;
KeyTaken(w) ==
    /\ Go(w, "winner")
    /\ UNCHANGED <<jobs, keyed, active, lost, running, answers>>

\* then, in a transaction of its own, the answer is the winner's job, or 409.
AnswerWinner(w) ==
    /\ At(w, "winner") /\ BatchAnswer(w, JobForKey(batchHandler[w].key)) /\ BatchDone(w)
    /\ UNCHANGED <<jobs, keyed, active, lost, running, batchNow, crashes>>

Queued(w) ==
    LET k == batchHandler[w].key  id == Len(jobs) + 1
    IN /\ id <= MaxJobs
       /\ jobs' = Append(jobs, [key |-> k, at |-> batchNow, status |-> "queued"])
       /\ keyed' = [key \in Keys |-> IF key = k THEN id ELSE keyed[key]]
       /\ active' = [active EXCEPT ![w] = @ \cup {id}]
       /\ running' = [running EXCEPT ![w] = @ \cup {id}]
       /\ BatchAnswer(w, id) /\ BatchDone(w) /\ UNCHANGED lost

\* The transaction that inserts the job and its key.
InsertJob(w) ==
    /\ At(w, "insert")
    /\ IF batchHandler[w].key # "" /\ keyed[batchHandler[w].key] # 0 THEN KeyTaken(w) ELSE Queued(w)
    /\ UNCHANGED <<batchNow, crashes>>

\* It fails, as with a locked database: 500, and the slot stays reserved.
InsertFails(w) ==
    /\ At(w, "insert") /\ Fault /\ BatchDone(w)
    /\ lost' = [lost EXCEPT ![w] = @ + 1]
    /\ UNCHANGED <<jobs, keyed, active, running, answers, batchNow>>

\* _update_job: no row, no effect.
UpdateJob(j, status) ==
    jobs' = [jobs EXCEPT ![j].status = IF @ = "expired" THEN @ ELSE status]

\* _process_batch, to its first await; an update that fails here is outside
\* the try, and the slot stays reserved.
StartBatch(w, j) ==
    /\ At(w, "free") /\ j \in running[w] /\ jobs[j].status = "queued"
    /\ UpdateJob(j, "processing")
    /\ UNCHANGED <<keyed, batchHandler, active, lost, running, answers, batchNow, crashes>>

StartFails(w, j) ==
    /\ At(w, "free") /\ j \in running[w] /\ jobs[j].status = "queued" /\ Fault
    /\ running' = [running EXCEPT ![w] = @ \ {j}]
    /\ active' = [active EXCEPT ![w] = @ \ {j}] /\ lost' = [lost EXCEPT ![w] = @ + 1]
    /\ UNCHANGED <<jobs, keyed, batchHandler, answers, batchNow>>

\* Then to its end: the update to "failed" may fail too, in an except clause
\* whose finally gives the slot back.
FinishBatch(w, j) ==
    /\ At(w, "free") /\ j \in running[w] /\ jobs[j].status \in {"processing", "expired"}
    /\ \/ (\E status \in {"completed", "failed"} : UpdateJob(j, status)) /\ UNCHANGED crashes
       \/ UNCHANGED jobs /\ Fault
    /\ active' = [active EXCEPT ![w] = @ \ {j}]
    /\ running' = [running EXCEPT ![w] = @ \ {j}]
    /\ UNCHANGED <<keyed, batchHandler, lost, answers, batchNow>>

\* A process restarts: its memory and its tasks are gone, the tables stay.
BatchCrash(w) ==
    /\ Fault
    /\ batchHandler' = [batchHandler EXCEPT ![w] = Free]
    /\ active' = [active EXCEPT ![w] = {}] /\ lost' = [lost EXCEPT ![w] = 0]
    /\ running' = [running EXCEPT ![w] = {}]
    /\ UNCHANGED <<jobs, keyed, answers, batchNow>>

BatchTick == /\ batchNow < BatchMaxTime /\ batchNow' = batchNow + 1
             /\ UNCHANGED <<jobs, keyed, batchHandler, active, lost, running, answers, crashes>>

BatchNext ==
         \/ \E w \in BatchWorkers :
              \/ ExpireOldJobs(w) \/ BatchLookup(w) \/ InsertJob(w) \/ InsertFails(w)
              \/ AnswerWinner(w) \/ BatchCrash(w)
              \/ \E k \in Keys \cup {""} : Submit(w, k)
              \/ \E j \in DOMAIN jobs : StartBatch(w, j) \/ StartFails(w, j) \/ FinishBatch(w, j)
         \/ BatchTick

BatchSpec == BatchInit /\ [][BatchNext]_batchVars
-----------------------------------------------------------------------------
(* A retry never scores the batch twice: two jobs of one key are further   *)
(* apart than the idempotency window; a request is answered with a job of  *)
(* its own key, and with 409 only when that key's window ended while it    *)
(* was looked up; and the limit counts exactly the background tasks of the *)
(* process and the slots that failed writes have lost, so that no lost     *)
(* race, expiry or failing batch loses one (create_batch_job).             *)
BatchesAreOnce ==
    /\ \A i, j \in DOMAIN jobs :
         (i < j /\ jobs[i].key = jobs[j].key /\ jobs[i].key # "")
            => jobs[j].at - jobs[i].at > KeyWindow
    /\ \A a \in answers :
         IF a.job # 0 THEN jobs[a.job].key = a.key
         ELSE \E j \in DOMAIN jobs : jobs[j].key = a.key /\ a.at - jobs[j].at > KeyWindow
    /\ \A w \in BatchWorkers : /\ active[w] = running[w]
                               /\ Cardinality(active[w]) + lost[w] <= MaxConcurrent

-----------------------------------------------------------------------------
(***************************************************************************)
(* GET /health (api/main.py).  health() runs in a thread and looks at one  *)
(* part of the system after the other, while parts fail and recover.       *)
(***************************************************************************)

CONSTANTS ModelFiles,           \* the names of _MODEL_FILENAMES, in order
          Optional,             \* those the service can do without
          BusEnabled,           \* event_bus_backend is not "none"
          MaxFlips              \* bound

Required == ToSet(ModelFiles) \ Optional
\* "letters" stands for webhook_dead_letter_count = 0.
Parts == ToSet(ModelFiles) \cup {"db", "feature_store_redis", "horizon", "bus", "letters"}

VARIABLES
    good,       \* the parts that are well
    todo,       \* the parts health() has still to look at; its first one is next
    calling,    \* health() is running
    down,       \* those it found down: they set its flags healthy and degraded
    always, ever,       \* history: parts well at every, at some moment since it began
    answer,     \* the last [code, status], or none
    flips

healthVars == <<good, todo, calling, down, always, ever, answer, flips>>

HealthTypeOK ==
    /\ good \subseteq Parts /\ always \subseteq ever /\ ever \subseteq Parts
    /\ ToSet(todo) \cup down \subseteq Parts /\ calling \in BOOLEAN

NoAnswer == [code |-> 0, status |-> "none"]
HealthInit ==
          /\ good = Parts /\ todo = << >> /\ calling = FALSE /\ down = {}
          /\ always = Parts /\ ever = Parts /\ answer = NoAnswer
          /\ flips = 0
-----------------------------------------------------------------------------
\* A part fails or recovers: files come and go, circuits open, letters pile up.
Flip(p) ==
    /\ flips < MaxFlips /\ flips' = flips + 1
    /\ good' = IF p \in good THEN good \ {p} ELSE good \cup {p}
    /\ always' = always \cap good' /\ ever' = ever \cup good'
    /\ UNCHANGED <<todo, calling, down, answer>>

\* The database, every model file, the two breakers, the event bus.
CheckOrder == <<"db">> \o ModelFiles \o <<"feature_store_redis", "horizon">>
              \o (IF BusEnabled THEN <<"bus">> ELSE << >>)

Called ==
    /\ ~calling /\ calling' = TRUE /\ todo' = CheckOrder /\ down' = {}
    /\ always' = good /\ ever' = good /\ answer' = NoAnswer
    /\ UNCHANGED <<good, flips>>

\* A breaker that is not CLOSED is down, and so is a feature store that cannot
\* be asked.
CheckPart ==
    /\ todo # << >> /\ todo' = Tail(todo)
    /\ down' = down \cup ({Head(todo)} \ good)
    /\ UNCHANGED <<good, calling, always, ever, answer, flips>>

Healthy == down \cap (Required \cup {"db"}) = {}

Reply ==
    /\ calling /\ todo = << >> /\ calling' = FALSE
    /\ answer' = [code |-> IF Healthy THEN 200 ELSE 503,
                  status |-> IF down = {} THEN "ok" ELSE "degraded"]
    /\ UNCHANGED <<good, todo, down, always, ever, flips>>

HealthNext ==
          \/ \E p \in Parts : Flip(p)
          \/ Called \/ CheckPart \/ Reply

HealthSpec == HealthInit /\ [][HealthNext]_healthVars
-----------------------------------------------------------------------------
Replied == answer # NoAnswer
Throughout(p) == p \notin ever      \* it was down for the whole request

(* Whatever fails or recovers while health() looks, its answer is one that *)
(* some moment of the request justifies: 503 only for a database or a      *)
(* required model that was down, and surely for one that was down all the  *)
(* time; "ok" never over a part that was down all the time, and always     *)
(* when no part was ever down.                                             *)
HealthIsHonest ==
    Replied =>
         /\ answer.code = 503 => ~(Required \cup {"db"} \subseteq always)
         /\ (\E p \in Required \cup {"db"} : Throughout(p)) => answer.code = 503
         /\ (\E p \in ToSet(CheckOrder) : Throughout(p)) => answer.status = "degraded"
         /\ ToSet(CheckOrder) \subseteq always => answer = [code |-> 200, status |-> "ok"]

=============================================================================
