----------------------------- MODULE EventFlow ------------------------------
(*****************************************************************************)
(* Events on their way from a source to the consumers of scores: the replay  *)
(* buffer, the event bus with its dead letters, and the cursor of the        *)
(* scoring pipeline.                                                         *)
(*****************************************************************************)
EXTENDS Integers, Sequences, FiniteSets

-----------------------------------------------------------------------------
(***************************************************************************)
(* ingestion/replay_buffer.py: order-book events arrive out of order, wait *)
(* in a heap and leave in paging-token order, a gap being waited for until *)
(* the gap timeout.                                                        *)
(*                                                                         *)
(* A token is its sort key.  Odd stands for the tokens that are no number, *)
(* which sort after all numbers.  Events grow overdue in the order of the  *)
(* calls that ingested them, so `due' is the last call they have for.      *)
(***************************************************************************)

CONSTANTS MaxToken,     \* numeric tokens are 1 .. MaxToken
          MaxSize,      \* max_size
          MaxIngests    \* bound: calls of ingest

ASSUME ReplayAssumption == {MaxToken, MaxSize, MaxIngests} \subseteq Nat

Odd == MaxToken + 1
ReplayTokens == 1 .. Odd
ReplayNone == 0

VARIABLES
    held,   \* held[t]: the call of ingest that buffered t; 0: t is not in the buffer
    due,    \* the events of this call and earlier ones are past the gap timeout
    replayLast,   \* _last_emitted_key
    replayOut,    \* history: what drain and flush_all returned, in order
    late,   \* history: tokens ingested after a larger one had left
    ingests   \* calls of ingest, within MaxIngests

replayVars == <<held, due, replayLast, replayOut, late, ingests>>

ReplayTypeOK ==
    /\ held \in [ReplayTokens -> 0 .. MaxIngests] /\ due \in 0 .. MaxIngests
    /\ replayLast \in {ReplayNone} \cup ReplayTokens /\ replayOut \in Seq(ReplayTokens) /\ late \subseteq ReplayTokens
    /\ ingests \in 0 .. MaxIngests

ReplayInit == /\ held = [t \in ReplayTokens |-> 0] /\ due = 0 /\ replayLast = ReplayNone
              /\ replayOut = <<>> /\ late = {} /\ ingests = 0

Held == {t \in ReplayTokens : held[t] # 0}

\* ingest: a buffered token is ignored; a full buffer expires everything.
Ingest(t) ==
    /\ ingests < MaxIngests /\ ingests' = ingests + 1
    /\ IF t \in Held
         THEN UNCHANGED <<held, due, late>>
         ELSE /\ held' = [held EXCEPT ![t] = ingests + 1]
              /\ due' = IF Cardinality(Held) + 1 >= MaxSize THEN ingests + 1 ELSE due
              /\ late' = IF \E i \in DOMAIN replayOut : replayOut[i] > t THEN late \cup {t} ELSE late
    /\ UNCHANGED <<replayLast, replayOut>>

\* The gap timeout passes for the events of the next call.
GrowOverdue == /\ due < ingests /\ due' = due + 1
               /\ UNCHANGED <<held, replayLast, replayOut, late, ingests>>

\* The heap's order: a token's place is the number of smaller ones.
Smaller(S, t) == {u \in S : u < t}
Ascending(S) ==
    [i \in 1 .. Cardinality(S) |-> CHOOSE t \in S : Cardinality(Smaller(S, t)) = i - 1]
Sorted == Ascending(Held)

\* _last_emitted_key[1] is 0 for a token that is no number.
Number(t) == IF t = Odd THEN 0 ELSE t

\* Whether drain pops the i-th event of the heap.
Ready(i) ==
    LET t == Sorted[i]
        prev == IF i = 1 THEN replayLast ELSE Sorted[i - 1]
    IN \/ held[t] <= due \/ prev = ReplayNone \/ t = Odd \/ t <= Number(prev) + 1

\* The first k events leave the heap.
Emit(k) ==
    /\ k > 0 /\ replayOut' = replayOut \o SubSeq(Sorted, 1, k) /\ replayLast' = Sorted[k]
    /\ held' = [t \in ReplayTokens |-> IF \E i \in 1 .. k : Sorted[i] = t THEN 0 ELSE held[t]]
    /\ UNCHANGED <<due, late, ingests>>

\* drain stops at the first gap that may still be filled.
Drain ==
    \E k \in 1 .. Cardinality(Held) :
        /\ \A i \in 1 .. k : Ready(i)
        /\ k < Cardinality(Held) => ~Ready(k + 1)
        /\ Emit(k)

\* flush_all at the end of the stream.
FlushAll == Emit(Cardinality(Held))

ReplayNext == (\E t \in ReplayTokens : Ingest(t)) \/ GrowOverdue \/ Drain \/ FlushAll

ReplaySpec == ReplayInit /\ [][ReplayNext]_replayVars
-----------------------------------------------------------------------------
(* Events leave in paging-token order, whatever times out and whichever of *)
(* drain, overflow and flush lets them go: a smaller token follows a       *)
(* larger one only if it arrived after the larger one had left.            *)
DisorderMeansLate ==
    \A i, j \in DOMAIN replayOut : i < j /\ replayOut[i] > replayOut[j] => replayOut[j] \in late

-----------------------------------------------------------------------------
(***************************************************************************)
(* detection/event_bus.py: the pipeline publishes score events to Kafka or *)
(* NATS, keeps what exhausted its retries in a SQLite dead-letter store,   *)
(* and event-bus-replay processes send the store's rows again.             *)
(*                                                                         *)
(* Kafka's produce() only fills the client's buffer; the client delivers   *)
(* or expires the message later and the code registers no delivery         *)
(* callback.  NATS answers each publish, but the answer may be lost.       *)
(***************************************************************************)

CONSTANTS BusMaxEvents,    \* bound: events to publish
          BusReplayers,    \* processes running event-bus-replay
          MaxRetries    \* settings.event_bus_max_retries

ASSUME BusAssumption == BusMaxEvents \in Nat /\ MaxRetries \in Nat \ {0}

Events == 1 .. BusMaxEvents

VARIABLES
    backend,    \* settings.event_bus_backend
    up,         \* the client library is there and, for NATS, connected
    next,       \* the event being published; BusMaxEvents + 1 when all are through
    attempt,    \* attempts made for it
    busBuffer,     \* events in the buffer of the publisher's Kafka client
    broker,     \* events the broker has, with duplicates merged
    busFailed,     \* history: events publish() counted as failed
    refused,    \* history: those it counted while the client was not up
    store,      \* event_bus_dead_letters
    notStored,  \* history: dead letters whose INSERT failed
    expired,    \* history: messages the Kafka client gave up
    replay      \* replay[r]: [left, sent]: rows to send; the row sent, not yet removed

busVars == <<backend, up, next, attempt, busBuffer, broker, busFailed, refused, store,
             notStored, expired, replay>>
Resting == [left |-> {}, sent |-> 0]

BusTypeOK ==
    /\ backend \in {"kafka", "nats"} /\ up \in BOOLEAN
    /\ next \in 1 .. BusMaxEvents + 1 /\ attempt \in 0 .. MaxRetries - 1
    /\ \A S \in {busBuffer, broker, busFailed, refused, store, notStored, expired} : S \subseteq Events
    /\ replay \in [BusReplayers -> [left : SUBSET Events, sent : {0} \cup Events]]

BusInit ==
       /\ backend \in {"kafka", "nats"} /\ up \in BOOLEAN
       /\ next = 1 /\ attempt = 0 /\ busBuffer = {} /\ broker = {} /\ busFailed = {} /\ refused = {}
       /\ store = {} /\ notStored = {} /\ expired = {}
       /\ replay = [r \in BusReplayers |-> Resting]

-----------------------------------------------------------------------------
\* publish() without a client: everything failed, nothing is dead-lettered.
PublishOffline ==
    /\ ~up /\ next <= BusMaxEvents
    /\ busFailed' = busFailed \cup next .. BusMaxEvents
    /\ refused' = refused \cup next .. BusMaxEvents /\ next' = BusMaxEvents + 1
    /\ UNCHANGED <<backend, up, attempt, busBuffer, broker, store, notStored, expired, replay>>

\* The broker accepts the event: buffered for Kafka, acknowledged for NATS.
PublishAccepted ==
    /\ up /\ next <= BusMaxEvents /\ next' = next + 1 /\ attempt' = 0
    /\ IF backend = "kafka" THEN busBuffer' = busBuffer \cup {next} /\ UNCHANGED broker
                            ELSE broker' = broker \cup {next} /\ UNCHANGED busBuffer
    /\ UNCHANGED <<backend, up, busFailed, refused, store, notStored, expired, replay>>

\* The last attempt failed: counted, and added to the store if SQLite lets it.
GiveUp ==
    /\ busFailed' = busFailed \cup {next}
    /\ \/ store' = store \cup {next} /\ UNCHANGED notStored
       \/ notStored' = notStored \cup {next} /\ UNCHANGED store

\* An attempt raises; NATS may have the event all the same.
PublishRaises ==
    /\ up /\ next <= BusMaxEvents
    /\ broker' \in {broker} \cup (IF backend = "nats" THEN {broker \cup {next}} ELSE {})
    /\ IF attempt = MaxRetries - 1
         THEN GiveUp /\ next' = next + 1 /\ attempt' = 0
         ELSE attempt' = attempt + 1 /\ UNCHANGED <<next, busFailed, store, notStored>>
    /\ UNCHANGED <<backend, up, busBuffer, refused, expired, replay>>

\* The Kafka client delivers a buffered message, or its timeout expires.
KafkaReport(e) ==
    /\ e \in busBuffer /\ busBuffer' = busBuffer \ {e}
    /\ \/ broker' = broker \cup {e} /\ UNCHANGED expired
       \/ expired' = expired \cup {e} /\ UNCHANGED broker
    /\ UNCHANGED <<backend, up, next, attempt, busFailed, refused, store, notStored, replay>>

\* The publisher's process dies with what its Kafka client had not sent.
PublisherDies ==
    /\ busBuffer # {} /\ expired' = expired \cup busBuffer /\ busBuffer' = {}
    /\ UNCHANGED <<backend, up, next, attempt, broker, busFailed, refused, store, notStored, replay>>

-----------------------------------------------------------------------------
\* replay_dead_letters reads the rows once.
ReplayReads(r) ==
    /\ up /\ replay[r] = Resting /\ store # {}
    /\ replay' = [replay EXCEPT ![r].left = store]
    /\ UNCHANGED <<backend, up, next, attempt, busBuffer, broker, busFailed, refused, store,
                   notStored, expired>>

Oldest(S) == CHOOSE e \in S : \A f \in S : e <= f

\* Mutant: the row is removed before the event is sent.
SendRaw_RemoveFirst(r, e) ==
    /\ store' = store \ {e}
    /\ \/ broker' = broker \cup {e} /\ UNCHANGED expired
         /\ replay' = [replay EXCEPT ![r] = [left |-> @.left \ {e}, sent |-> 0]]
       \/ UNCHANGED <<broker, expired>> /\ replay' = [replay EXCEPT ![r].left = @ \ {e}]

\* send_raw: an acknowledged event will be removed; a failed one stays, with
\* one more attempt on its row.  flush() cannot tell a delivered message from
\* an expired one.
SendRaw(r, e) ==
    /\ UNCHANGED store
    /\ \/ /\ broker' = broker \cup {e} /\ UNCHANGED expired
          /\ replay' = [replay EXCEPT ![r] = [left |-> @.left \ {e}, sent |-> e]]
       \/ /\ backend = "kafka" /\ expired' = expired \cup {e} /\ UNCHANGED broker
          /\ replay' = [replay EXCEPT ![r] = [left |-> @.left \ {e}, sent |-> e]]
       \/ UNCHANGED <<broker, expired>> /\ replay' = [replay EXCEPT ![r].left = @ \ {e}]

ReplaySends(r) ==
    /\ replay[r].sent = 0 /\ replay[r].left # {}
    /\ SendRaw(r, Oldest(replay[r].left))
    /\ UNCHANGED <<backend, up, next, attempt, busBuffer, busFailed, refused, notStored>>

ReplayRemoves(r) ==
    /\ replay[r].sent # 0
    /\ store' = store \ {replay[r].sent} /\ replay' = [replay EXCEPT ![r].sent = 0]
    /\ UNCHANGED <<backend, up, next, attempt, busBuffer, broker, busFailed, refused, notStored, expired>>

ReplayerDies(r) ==
    /\ replay[r] # Resting /\ replay' = [replay EXCEPT ![r] = Resting]
    /\ UNCHANGED <<backend, up, next, attempt, busBuffer, broker, busFailed, refused, store,
                   notStored, expired>>

BusNext ==
       \/ PublishOffline \/ PublishAccepted \/ PublishRaises \/ PublisherDies
       \/ \E e \in Events : KafkaReport(e)
       \/ \E r \in BusReplayers :
            ReplayReads(r) \/ ReplaySends(r) \/ ReplayRemoves(r) \/ ReplayerDies(r)

BusSpec == BusInit /\ [][BusNext]_busVars
-----------------------------------------------------------------------------
(* An event publish() reported as failed is in the dead-letter store until *)
(* the broker has it, whichever process dies and however replays overlap.  *)
(* What can still lose it: a client that was not up, a failed INSERT, and  *)
(* on Kafka a message the client expires after flush.                      *)
FailedEventKept ==
    \A e \in busFailed :
        e \in store \cup broker \cup refused \cup notStored
              \cup (IF backend = "kafka" THEN expired ELSE {})

-----------------------------------------------------------------------------
(***************************************************************************)
(* run_pipeline.py: run() and async_run() load, score, store and announce  *)
(* the wallets of every asset pair; run_streaming() does the same for      *)
(* buffers of trades and keeps a cursor file.  Any stage may raise, and    *)
(* the process may die between any two: what is committed stays.           *)
(*                                                                         *)
(* An item is an asset pair with its scores in a batch run, and a trade    *)
(* with its wallets' scores in a streaming run; trade t follows trade      *)
(* t - 1 in the stream.  How a score is computed is data.                  *)
(***************************************************************************)

CONSTANTS MaxItem,      \* items are 1 .. MaxItem
          BatchSize,    \* batch_size of run_streaming
          MaxRuns       \* bound: processes started

ASSUME PipeAssumption == {MaxItem, BatchSize, MaxRuns} \subseteq Nat

Items == 1 .. MaxItem

VARIABLES
    mode,       \* "run", "multi" (run with multi_pair), "async" or "stream"
    submit,     \* on-chain submission is configured and not switched off
    high,       \* items whose score reaches the threshold
    pipePc,         \* the stage the process is in; "off": no process
    todo,       \* pairs still to be loaded, or {} in a streaming run
    preloaded,  \* pairs whose trades multi_pair holds in memory
    scored,     \* items scored in memory
    pipeBuffer,     \* trades buffered by run_streaming
    pipeLast,       \* last_cursor
    pipeCursor,     \* the cursor file; 0 before the first trade
    quitting,   \* KeyboardInterrupt was caught
    sideRows,   \* pairs whose pool trades, path payments and alerts are saved
    stored,     \* risk_scores
    bus, rings, vectors, hooks, chain,   \* published, saved, enqueued, submitted
    runs        \* processes so far

cfg == <<mode, submit, high>>
memory == <<todo, preloaded, scored, pipeBuffer, pipeLast, quitting>>
announced == <<bus, rings, vectors, hooks, chain>>
pipeVars == <<cfg, pipePc, memory, pipeCursor, sideRows, stored, announced, runs>>

Stages == {"off", "preload", "load", "score", "store", "publish", "rings", "vectors",
           "hooks", "chain", "read", "flush", "fstore", "fpublish", "fcursor"}

PipeTypeOK ==
    /\ mode \in {"run", "multi", "async", "stream"} /\ submit \in BOOLEAN
    /\ pipePc \in Stages /\ quitting \in BOOLEAN /\ pipeLast \in 0 .. MaxItem /\ pipeCursor \in 0 .. MaxItem
    /\ \A S \in {high, todo, preloaded, scored, pipeBuffer, sideRows, stored, bus, rings,
                 vectors, hooks, chain} : S \subseteq Items
    /\ runs \in 0 .. MaxRuns

PipeInit ==
        /\ mode \in {"run", "multi", "async", "stream"} /\ submit \in BOOLEAN
        /\ high \in SUBSET Items
        /\ pipePc = "off" /\ quitting = FALSE /\ pipeLast = 0 /\ pipeCursor = 0 /\ runs = 0
        /\ todo = {} /\ preloaded = {} /\ scored = {} /\ pipeBuffer = {} /\ sideRows = {} /\ stored = {}
        /\ bus = {} /\ rings = {} /\ vectors = {} /\ hooks = {} /\ chain = {}

Goto(stage) == pipePc' = stage

\* A process starts: models and calibrators are loaded; a streaming run reads
\* its cursor file.
PipeStart ==
    /\ pipePc = "off" /\ runs < MaxRuns /\ runs' = runs + 1
    /\ Goto(CASE mode = "multi" -> "preload" [] mode = "stream" -> "read" [] OTHER -> "load")
    /\ todo' = IF mode = "stream" THEN {} ELSE Items
    /\ preloaded' = {} /\ scored' = {} /\ pipeBuffer' = {} /\ quitting' = FALSE /\ pipeLast' = pipeCursor
    /\ UNCHANGED <<cfg, pipeCursor, sideRows, stored, announced>>

\* An exception nobody catches, or the end of the process.
Dies ==
    /\ pipePc # "off" /\ Goto("off")
    /\ UNCHANGED <<cfg, memory, pipeCursor, sideRows, stored, announced, runs>>

-----------------------------------------------------------------------------
\* multi_pair: all pairs are loaded before the first is scored, and the
\* correlations between their volumes saved.
Preload ==
    /\ pipePc = "preload" /\ Goto("load") /\ preloaded' \in SUBSET Items
    /\ UNCHANGED <<cfg, todo, scored, pipeBuffer, pipeLast, quitting, pipeCursor, sideRows, stored,
                   announced, runs>>

\* One pair's turn: without trades it is skipped, with them its pool trades,
\* path payments, cycles and alerts are saved.
TakePair(p, hasTrades) ==
    /\ pipePc = "load" /\ p \in todo /\ \A q \in todo : p <= q
    /\ todo' = todo \ {p}
    /\ IF hasTrades THEN Goto("score") /\ sideRows' = sideRows \cup {p}
                    ELSE UNCHANGED <<pipePc, sideRows>>
    /\ UNCHANGED <<cfg, preloaded, scored, pipeBuffer, pipeLast, quitting, pipeCursor, stored, announced, runs>>

LoadPair(p) ==
    \E hasTrades \in BOOLEAN :
        /\ mode # "async" /\ (mode = "multi" => hasTrades = (p \in preloaded))
        /\ TakePair(p, hasTrades)

AsyncLoadPair(p) == mode = "async" /\ \E hasTrades \in BOOLEAN : TakePair(p, hasTrades)

\* The accounts of the pair taken last are scored, in memory.
PairScored ==
    /\ pipePc = "score" /\ Goto("load")
    /\ scored' = scored \cup {p \in Items \ todo : \A q \in Items \ todo : q <= p}
    /\ UNCHANGED <<cfg, todo, preloaded, pipeBuffer, pipeLast, quitting, pipeCursor, sideRows, stored,
                   announced, runs>>

ScorePair == mode # "async" /\ PairScored

\* async_run builds every vector first and scores them in one matrix.
AsyncScorePair == mode = "async" /\ PairScored

\* All pairs are through; the drift log's failure is swallowed.
AfterLoop ==
    /\ pipePc = "load" /\ todo = {} /\ Goto("store")
    /\ UNCHANGED <<cfg, memory, pipeCursor, sideRows, stored, announced, runs>>

SaveScores ==
    /\ pipePc = "store" /\ Goto("publish") /\ stored' = stored \cup scored
    /\ UNCHANGED <<cfg, memory, pipeCursor, sideRows, announced, runs>>

\* The event bus reports failures and raises none.
PublishScores ==
    /\ pipePc = "publish" /\ Goto("rings")
    /\ \E S \in SUBSET scored : bus' = bus \cup S
    /\ UNCHANGED <<cfg, memory, pipeCursor, sideRows, stored, rings, vectors, hooks, chain, runs>>

SaveRings ==
    /\ pipePc = "rings" /\ mode # "async" /\ Goto("vectors") /\ rings' = rings \cup scored
    /\ UNCHANGED <<cfg, memory, pipeCursor, sideRows, stored, bus, vectors, hooks, chain, runs>>

\* async_run finds no rings and keeps no feature vectors: its list stays empty.
AsyncSaveRings ==
    /\ pipePc = "rings" /\ mode = "async" /\ Goto("hooks")
    /\ UNCHANGED <<cfg, memory, pipeCursor, sideRows, stored, announced, runs>>

SaveVectors ==
    /\ pipePc = "vectors" /\ Goto("hooks") /\ vectors' = vectors \cup scored
    /\ UNCHANGED <<cfg, memory, pipeCursor, sideRows, stored, bus, rings, hooks, chain, runs>>

\* _enqueue_webhook_alerts swallows what stops it half-way.
EnqueueWebhooks ==
    /\ pipePc = "hooks" /\ Goto("chain")
    /\ \E k \in 0 .. MaxItem : hooks' = hooks \cup {s \in scored : s <= k}
    /\ UNCHANGED <<cfg, memory, pipeCursor, sideRows, stored, bus, rings, vectors, chain, runs>>

\* _submit_on_chain: high risk only, each with its own outcome.
SubmitOnChain ==
    /\ pipePc = "chain" /\ Goto("off")
    /\ \E S \in SUBSET (scored \cap high) : chain' = IF submit THEN chain \cup S ELSE chain
    /\ UNCHANGED <<cfg, memory, pipeCursor, sideRows, stored, bus, rings, vectors, hooks, runs>>

-----------------------------------------------------------------------------
\* run_streaming: a trade arrives; by size or by age the buffer is flushed.
ReadTrade ==
    /\ pipePc = "read" /\ ~quitting /\ pipeLast < MaxItem
    /\ pipeLast' = pipeLast + 1 /\ pipeBuffer' = pipeBuffer \cup {pipeLast + 1}
    /\ \/ Goto("flush")
       \/ Cardinality(pipeBuffer) + 1 < BatchSize /\ UNCHANGED pipePc
    /\ UNCHANGED <<cfg, todo, preloaded, scored, quitting, pipeCursor, sideRows, stored, announced, runs>>

\* KeyboardInterrupt, in the middle of a flush too: what is buffered is
\* flushed once more.
Interrupt ==
    /\ mode = "stream" /\ pipePc # "off" /\ ~quitting /\ quitting' = TRUE
    /\ Goto(IF pipeBuffer = {} THEN "off" ELSE "flush")
    /\ UNCHANGED <<cfg, todo, preloaded, scored, pipeBuffer, pipeLast, pipeCursor, sideRows, stored, announced, runs>>

\* _flush_streaming_buffer scores the buffer's wallets ...
FlushScores ==
    /\ pipePc = "flush" /\ Goto("fstore") /\ scored' = pipeBuffer
    /\ UNCHANGED <<cfg, todo, preloaded, pipeBuffer, pipeLast, quitting, pipeCursor, sideRows, stored, announced, runs>>

\* ... stores them, publishes them, and then writes the cursor file.
FlushStores ==
    /\ pipePc = "fstore" /\ Goto("fpublish") /\ stored' = stored \cup scored
    /\ UNCHANGED <<cfg, memory, pipeCursor, sideRows, announced, runs>>

FlushPublishes ==
    /\ pipePc = "fpublish" /\ Goto("fcursor")
    /\ \E S \in SUBSET scored : bus' = bus \cup S
    /\ UNCHANGED <<cfg, memory, pipeCursor, sideRows, stored, rings, vectors, hooks, chain, runs>>

FlushCursor ==
    /\ pipePc = "fcursor" /\ pipeCursor' = pipeLast /\ pipeBuffer' = {}
    /\ Goto(IF quitting THEN "off" ELSE "read")
    /\ UNCHANGED <<cfg, todo, preloaded, scored, pipeLast, quitting, sideRows, stored, announced, runs>>

PipeNext ==
        \/ PipeStart \/ Dies \/ Preload \/ (\E p \in Items : LoadPair(p) \/ AsyncLoadPair(p))
        \/ ScorePair \/ AsyncScorePair \/ AfterLoop
        \/ SaveScores \/ PublishScores \/ SaveRings \/ AsyncSaveRings \/ SaveVectors \/ EnqueueWebhooks \/ SubmitOnChain
        \/ ReadTrade \/ Interrupt \/ FlushScores \/ FlushStores \/ FlushPublishes \/ FlushCursor

PipeSpec == PipeInit /\ [][PipeNext]_pipeVars
-----------------------------------------------------------------------------
(* Nothing runs ahead of the database.  Whatever raised, was interrupted   *)
(* or died in any earlier run: a score that went to the bus, a webhook or  *)
(* the chain can be read back, and the cursor file is never past a trade   *)
(* whose scores were not stored.                                           *)
NothingAheadOfStorage ==
    /\ bus \cup hooks \cup chain \subseteq stored
    /\ 1 .. pipeCursor \subseteq stored
    /\ chain \subseteq high

-----------------------------------------------------------------------------
(* No event is lost on its way: a handler's failed event stays for replay,  *)
(* a trade leaves the replay buffer out of order only when it came late,    *)
(* and the pipeline's cursor never passes what was stored.                  *)
EventsAreKept ==
    /\ BusTypeOK /\ FailedEventKept
    /\ ReplayTypeOK /\ DisorderMeansLate
    /\ PipeTypeOK /\ NothingAheadOfStorage
=============================================================================
