---------------------------- MODULE TradeSources ----------------------------
(*****************************************************************************)
(* Where trades come from: the historical loader, Solana swaps and their     *)
(* ingestion, and the hops of path payments.                                 *)
(*****************************************************************************)
EXTENDS Integers, Sequences, FiniteSets, FiniteSetsExt, SequencesExt

-----------------------------------------------------------------------------
(***************************************************************************)
(* ingestion/historical_loader.py: a span of time is cut into chunks that  *)
(* are fetched concurrently, page by page, and stored; a progress file     *)
(* says which chunks the next load can skip.  Requests fail, the process   *)
(* is killed, two loads share the file, and trades still appear.           *)
(***************************************************************************)

CONSTANTS
    ChunkHours, LastHour,   \* partition_range of 0 .. LastHour
    Keys,                   \* idempotency keys; two trades can have one
    Procs, Concurrency, PageSize,
    MaxTrades, MaxLoads, MaxFaults

VARIABLES
    ledger,   \* Horizon: trades [id, time, key], in order of id
    loadNow,
    stored,   \* the trades table
    seen,     \* IdempotencyKeyStore
    file,     \* the progress file: chunk -> status
    tracker,  \* each process's copy of it
    task,     \* task[p][c]: [pc, cursor, batch, end]
    early,    \* chunks whose last page was fetched before their time was over
    loads, faults

loadVars == <<ledger, loadNow, stored, seen, file, tracker, task, early, loads, faults>>

\* partition_range: half-open chunks that cover the range.
Chunks == 1 .. (LastHour + ChunkHours - 1) \div ChunkHours
Start(c) == (c - 1) * ChunkHours
End(c) == IF c * ChunkHours < LastHour THEN c * ChunkHours ELSE LastHour

NoTask == [pc |-> "none", cursor |-> 0, batch |-> {}, end |-> FALSE]
Active(p) == {c \in Chunks : task[p][c].pc \in {"fetch", "store", "mark"}}
Loading(p) == \E c \in Chunks : task[p][c].pc # "none"

LoadTypeOK ==
    /\ stored \subseteq ledger /\ seen \subseteq Keys /\ loadNow \in 0 .. LastHour
    /\ file \in [Chunks -> {"absent", "in_progress", "complete", "failed"}]
    /\ \A p \in Procs : Cardinality(Active(p)) <= Concurrency

LoadInit ==
        /\ ledger = {} /\ loadNow = 0 /\ stored = {} /\ seen = {} /\ early = {} /\ loads = 0 /\ faults = 0
        /\ file = [c \in Chunks |-> "absent"] /\ tracker = [p \in Procs |-> file]
        /\ task = [p \in Procs |-> [c \in Chunks |-> NoTask]]

-----------------------------------------------------------------------------
\* The network goes on.
Trade(k) ==
    /\ Cardinality(ledger) < MaxTrades
    /\ ledger' = ledger \cup {[id |-> Cardinality(ledger) + 1, time |-> loadNow, key |-> k]}
    /\ UNCHANGED <<loadNow, stored, seen, file, tracker, task, early, loads, faults>>
LoadTick ==
        /\ loadNow < LastHour /\ loadNow' = loadNow + 1
        /\ UNCHANGED <<ledger, stored, seen, file, tracker, task, early, loads, faults>>

\* Every mark_ method rewrites the whole file from the process's copy.
Mark(p, c, status) ==
    /\ tracker' = [tracker EXCEPT ![p][c] = status]
    /\ file' = tracker'[p]

\* load: reads the file (a new tracker), skips what is complete and starts a
\* task for each other chunk; all run up to the semaphore, run_one marking
\* them in progress, before the first answer arrives.
Load(p) ==
    LET todo == {c \in Chunks : file[c] # "complete"} IN
    /\ ~Loading(p) /\ loads < MaxLoads /\ loads' = loads + 1 /\ todo # {}
    /\ tracker' = [tracker EXCEPT ![p] = [c \in Chunks |-> IF c \in todo THEN "in_progress" ELSE file[c]]]
    /\ file' = tracker'[p]
    /\ task' = [task EXCEPT ![p] = [c \in Chunks |-> IF c \in todo THEN [NoTask EXCEPT !.pc = "wait"] ELSE NoTask]]
    /\ UNCHANGED <<ledger, loadNow, stored, seen, early, faults>>

\* A page of Horizon's trades after the cursor.
Page(cursor) == {t \in ledger : t.id > cursor /\ t.id <= cursor + PageSize}

\* The trades of a page that are the chunk's, not seen, and first of their key.
Validated(page, c) ==
    {t \in page :
        /\ Start(c) <= t.time /\ t.time < End(c) /\ t.key \notin seen
        /\ ~\E u \in page : u.id < t.id /\ u.key = t.key /\ Start(c) <= u.time}

\* _fetch_chunk: one page, the first one once the semaphore lets it; a trade past the end ends the loop.
Fetch(p, c) ==
    LET k == task[p][c]
        page == Page(k.cursor)
    IN  /\ k.pc = "fetch" \/ (k.pc = "wait" /\ Cardinality(Active(p)) < Concurrency)
        /\ task' = [task EXCEPT ![p][c] =
              [pc |-> "store", cursor |-> k.cursor + PageSize, batch |-> Validated(page, c),
               end |-> page = {} \/ \E t \in page : t.time >= End(c)]]
        /\ early' = IF loadNow < End(c) THEN early \cup {c} ELSE early
        /\ UNCHANGED <<ledger, loadNow, stored, seen, file, tracker, loads, faults>>

\* upsert_trades in a thread (INSERT OR IGNORE) ...
Store(p, c) ==
    /\ task[p][c].pc = "store" /\ stored' = stored \cup task[p][c].batch
    /\ task' = [task EXCEPT ![p][c].pc = "mark"]
    /\ UNCHANGED <<ledger, loadNow, seen, file, tracker, early, loads, faults>>

\* mark_complete, or mark_failed in the except clause.
Outcome(ok) == IF ok THEN "complete" ELSE "failed"

\* ... then mark_seen, and the next page or the end of the chunk.
MarkSeen(p, c) ==
    LET k == task[p][c] IN
    /\ k.pc = "mark" /\ seen' = seen \cup {t.key : t \in k.batch}
    /\ IF k.end
       THEN Mark(p, c, Outcome(TRUE)) /\ task' = [task EXCEPT ![p][c] = NoTask]
       ELSE task' = [task EXCEPT ![p][c].pc = "fetch"] /\ UNCHANGED <<file, tracker>>
    /\ UNCHANGED <<ledger, loadNow, stored, early, loads, faults>>

\* A request or the database fails.
Fail(p, c) ==
    /\ task[p][c].pc \in {"fetch", "store"} /\ faults < MaxFaults /\ faults' = faults + 1
    /\ Mark(p, c, Outcome(FALSE)) /\ task' = [task EXCEPT ![p][c] = NoTask]
    /\ UNCHANGED <<ledger, loadNow, stored, seen, early, loads>>

\* The process is killed.
LoadCrash(p) ==
    /\ Loading(p) /\ faults < MaxFaults /\ faults' = faults + 1
    /\ task' = [task EXCEPT ![p] = [c \in Chunks |-> NoTask]]
    /\ UNCHANGED <<ledger, loadNow, stored, seen, file, tracker, early, loads>>

LoadNext ==
        \/ (\E k \in Keys : Trade(k)) \/ LoadTick
        \/ \E p \in Procs :
            \/ Load(p) \/ LoadCrash(p)
            \/ \E c \in Chunks :
                Fetch(p, c) \/ Store(p, c) \/ MarkSeen(p, c) \/ Fail(p, c)

LoadSpec == LoadInit /\ [][LoadNext]_loadVars
-----------------------------------------------------------------------------
(* A chunk the progress file calls complete, and so every later load       *)
(* skips, is stored entirely: through failures, kills, a retry over pages  *)
(* that were half stored, and two loads that rewrite the file.  Except for *)
(* a chunk that was loaded before its time was over, and for a trade whose *)
(* key a stored trade has.                                                 *)
CompleteMeansStored ==
    \A c \in Chunks : file[c] = "complete" /\ c \notin early =>
        \A t \in ledger : Start(c) <= t.time /\ t.time < End(c) =>
            t \in stored \/ \E u \in stored : u.key = t.key

-----------------------------------------------------------------------------
(***************************************************************************)
(* ingestion/solana_adapter.py, _tx_to_trade: a Solana transaction lists   *)
(* token balances before and after per token account; the adapter turns    *)
(* the differences into one trade of two legs, or none.                    *)
(*                                                                         *)
(* A state is one transaction: the differences in the order of the account *)
(* index, zero where a balance did not change and owner "" where the node  *)
(* did not name one.  Amounts are small integers.                          *)
(***************************************************************************)

CONSTANTS Owners, Mints, Deltas,    \* the values of a balance difference
          MaxAccounts               \* bound: token accounts in a transaction

Balances == [owner : Owners \cup {""}, mint : Mints, delta : Deltas]

VARIABLES
    balances,   \* the differences, by account index
    timed       \* the node knows the block time

swapVars == <<balances, timed>>

SwapInit == /\ balances \in UNION {[1 .. n -> Balances] : n \in 0 .. MaxAccounts}
            /\ timed \in BOOLEAN

\* _extract_spl_token_changes: no change, or no owner, is no entry.
Changes == SelectSeq(balances, LAMBDA b : b.delta # 0 /\ b.owner # "")

Sells == SelectSeq(Changes, LAMBDA b : b.delta < 0)
Buys == SelectSeq(Changes, LAMBDA b : b.delta > 0)

\* The first of s that satisfies P, else the default.
FirstOr(s, P(_), default) ==
    LET hits == SelectSeq(s, P) IN IF hits = <<>> THEN default ELSE Head(hits)

NoTrade == [base |-> "", counter |-> "", baseMint |-> "", counterMint |-> "", sold |-> 0, got |-> 0]

\* Bought legs of another mint than the one sold.
Candidates(base) == SelectSeq(Buys, LAMBDA b : b.mint # base.mint)

\* The base leg is the first sale; the counter leg what the seller bought, else
\* the first purchase; its other side whoever sold that mint, else its buyer.
TxToTrade ==
    IF ~timed \/ Len(Changes) < 2 \/ Sells = <<>> \/ Buys = <<>> THEN NoTrade
    ELSE LET base == Head(Sells) IN
         IF Candidates(base) = <<>> THEN NoTrade
         ELSE LET leg == FirstOr(Candidates(base), LAMBDA b : b.owner = base.owner,
                                 Head(Candidates(base)))
                  other == FirstOr(Sells, LAMBDA s : /\ s.mint = leg.mint
                                                     /\ s.owner # base.owner, leg).owner
              IN [base |-> base.owner, counter |-> IF other = base.owner THEN "" ELSE other,
                  baseMint |-> base.mint, counterMint |-> leg.mint,
                  sold |-> - base.delta, got |-> leg.delta]

SwapDone == UNCHANGED swapVars
SwapNext == SwapDone
SwapSpec == SwapInit /\ [][SwapNext]_swapVars
-----------------------------------------------------------------------------
Swapped(i, j, k, l) ==
    /\ {i, j, k, l} = DOMAIN Changes /\ Cardinality({i, j, k, l}) = 4
    /\ Changes[i].owner = Changes[j].owner /\ Changes[k].owner = Changes[l].owner
    /\ Changes[i].owner # Changes[k].owner
    /\ Changes[i].mint = Changes[k].mint /\ Changes[j].mint = Changes[l].mint
    /\ Changes[i].mint # Changes[j].mint
    /\ Changes[i].delta = - Changes[k].delta /\ Changes[j].delta = - Changes[l].delta
    /\ Changes[i].delta < 0 /\ Changes[j].delta > 0

(* A trade is a true reading of the transaction, in whatever order the     *)
(* token accounts come: two different mints, positive amounts that some    *)
(* account really lost and gained, two different accounts or none on the   *)
(* other side.  A plain swap of two owners is always a trade between the   *)
(* two, with the amounts that changed hands, from one side or the other.   *)
TradesAreTrue ==
    LET t == TxToTrade IN
    /\ t # NoTrade =>
         /\ t.baseMint # t.counterMint /\ t.sold > 0 /\ t.got > 0 /\ t.base \notin {"", t.counter}
         /\ \E b \in Range(Changes) : b.owner = t.base /\ b.mint = t.baseMint /\ b.delta = - t.sold
         /\ \E b \in Range(Changes) : b.mint = t.counterMint /\ b.delta = t.got
         /\ t.counter # "" => \E b \in Range(Changes) : b.owner = t.counter /\ b.mint = t.counterMint
    /\ timed => \A i, j, k, l \in DOMAIN Changes : Swapped(i, j, k, l) =>
         LET a == Changes[i] b == Changes[j] IN
         \/ /\ t.base = a.owner /\ t.counter = Changes[k].owner
            /\ t.sold = - a.delta /\ t.got = b.delta
         \/ /\ t.base = Changes[k].owner /\ t.counter = a.owner
            /\ t.sold = b.delta /\ t.got = - a.delta

-----------------------------------------------------------------------------
(***************************************************************************)
(* SolanaAdapter.ingest (ingestion/solana_adapter.py) with the store it    *)
(* asks about every trade, IdempotencyKeyStore (ingestion/dedup.py): keys  *)
(* with a lifetime in Redis, a capped dictionary per process when Redis    *)
(* does not answer, and two SQLite tables that record the verdicts.        *)
(***************************************************************************)

CONSTANTS Sigs,             \* transaction signatures; the trade's key is made of it
          Adapters,         \* processes that ingest
          ReplayWindow, TTL,   \* replay_window_seconds, ttl_seconds
          MaxKeys,          \* max_keys of the fallback
          MaxTime, MaxCalls    \* bounds

VARIABLES
    dedup,      \* settings.ingestion_dedup_enabled, on unless switched off
    at,         \* block time of each signature; all are DEX swaps or not
    swap,       \* the signatures that _tx_to_trade makes a trade of
    redis,      \* Redis: key -> expiry, 0 for absent
    up,         \* Redis answers
    fallback,   \* per process: key -> expiry, 0 for absent
    left,       \* per process: signatures of the running ingest not yet looked at
    got,        \* per process: trades of the running ingest
    keys,       \* ingestion_dedup_keys: key -> first_seen_at, -1 for no row
    news,       \* ingestion_dedup_audit, result 'new': {[sig, by, at, via]}
    returned,   \* history: {[sig, at]} of the trades ingest returned
    solanaLost,       \* history: signatures whose fresh trade was not returned
    calls, solanaNow

solanaVars == <<dedup, at, swap, redis, up, fallback, left, got, keys, news, returned, solanaLost, calls, solanaNow>>
world == <<dedup, at, swap>>

SolanaTypeOK ==
    /\ swap \subseteq Sigs /\ redis \in [Sigs -> 0 .. MaxTime + TTL]
    /\ fallback \in [Adapters -> [Sigs -> 0 .. MaxTime + TTL]]
    /\ left \in [Adapters -> SUBSET Sigs] /\ got \in [Adapters -> SUBSET Sigs]
    /\ keys \in [Sigs -> -1 .. MaxTime] /\ solanaNow \in 1 .. MaxTime /\ calls \in 0 .. MaxCalls

SolanaInit ==
          /\ dedup \in BOOLEAN /\ at \in [Sigs -> {0, 1}] /\ swap \in SUBSET Sigs
          /\ redis = [s \in Sigs |-> 0] /\ up \in BOOLEAN
          /\ fallback = [a \in Adapters |-> redis]
          /\ left = [a \in Adapters |-> {}] /\ got = left
          /\ keys = [s \in Sigs |-> -1] /\ news = {} /\ returned = {} /\ solanaLost = {}
          /\ calls = 0 /\ solanaNow = 1
-----------------------------------------------------------------------------
\* ingest: getSignaturesForAddress; a signature may be asked for by many calls.
Ingest(a) ==
    /\ left[a] = {} /\ got[a] = {} /\ calls < MaxCalls /\ calls' = calls + 1
    /\ \E S \in SUBSET {s \in Sigs : at[s] <= solanaNow} : S # {} /\ left' = [left EXCEPT ![a] = S]
    /\ UNCHANGED <<world, redis, up, fallback, got, keys, news, returned, solanaLost, solanaNow>>

Looked(a, s) == left' = [left EXCEPT ![a] = @ \ {s}]

\* getTransaction raises or has nothing, or the transaction is no swap.
Skip(a, s) ==
    /\ s \in left[a] /\ Looked(a, s)
    /\ UNCHANGED <<world, redis, up, fallback, got, keys, news, returned, solanaLost, calls, solanaNow>>

\* No store: every trade is accepted.
AcceptUnchecked(a, s) ==
    /\ ~dedup /\ s \in left[a] \cap swap /\ Looked(a, s)
    /\ got' = [got EXCEPT ![a] = @ \cup {s}]
    /\ UNCHANGED <<world, redis, up, fallback, keys, news, returned, solanaLost, calls, solanaNow>>

Replayed(s) == solanaNow - at[s] > ReplayWindow

\* _InMemoryDedupStore.add_if_absent: drop what expired; when full, drop the
\* key that expires first.
Alive(f) == {s \in Sigs : f[s] > solanaNow}

Evict(f) == {s \in Alive(f) : \A r \in Alive(f) : f[s] <= f[r]}

AddToFallback(a, s) ==
    LET live == [r \in Sigs |-> IF r \in Alive(fallback[a]) THEN fallback[a][r] ELSE 0]
    IN IF Cardinality(Alive(live)) >= MaxKeys
         THEN \E e \in Evict(live) :
                fallback' = [fallback EXCEPT ![a] = [live EXCEPT ![e] = 0, ![s] = solanaNow + TTL]]
         ELSE fallback' = [fallback EXCEPT ![a] = [live EXCEPT ![s] = solanaNow + TTL]]

\* _store_add_if_absent: SET NX EX, or the fallback when Redis raises.
Known(a, s) == IF up THEN redis[s] > solanaNow ELSE fallback[a][s] > solanaNow
Add(a, s) == IF up THEN redis' = [redis EXCEPT ![s] = solanaNow + TTL] /\ UNCHANGED fallback
                   ELSE AddToFallback(a, s) /\ UNCHANGED redis

\* is_duplicate says REPLAY_REJECTED or DUPLICATE, with an audit row.
Refuse(a, s) ==
    /\ dedup /\ s \in left[a] \cap swap /\ (Replayed(s) \/ Known(a, s)) /\ Looked(a, s)
    /\ UNCHANGED <<world, redis, up, fallback, got, keys, news, returned, solanaLost, calls, solanaNow>>

\* is_duplicate says NEW and records the key; then _accept_trade calls
\* mark_seen, which IdempotencyKeyStore does not have: ingest logs the
\* AttributeError and goes on to the next signature.
New(a, s) ==
    /\ dedup /\ s \in left[a] \cap swap /\ ~Replayed(s) /\ ~Known(a, s)
    /\ Looked(a, s) /\ Add(a, s)
    /\ keys' = [keys EXCEPT ![s] = IF @ = -1 THEN solanaNow ELSE @]
    /\ news' = news \cup {[sig |-> s, by |-> a, at |-> solanaNow, via |-> IF up THEN "redis" ELSE "memory"]}
    /\ solanaLost' = solanaLost \cup {s}
    /\ UNCHANGED <<world, up, got, returned, calls, solanaNow>>

\* ingest returns its list.
Return(a) ==
    /\ left[a] = {} /\ got[a] # {}
    /\ returned' = returned \cup {[sig |-> s, at |-> solanaNow] : s \in got[a]}
    /\ got' = [got EXCEPT ![a] = {}]
    /\ UNCHANGED <<world, redis, up, fallback, left, keys, news, solanaLost, calls, solanaNow>>

\* prune_expired.
PruneExpired ==
    /\ \E s \in Sigs : keys[s] # -1 /\ keys[s] < solanaNow - TTL
    /\ keys' = [s \in Sigs |-> IF keys[s] < solanaNow - TTL THEN -1 ELSE keys[s]]
    /\ UNCHANGED <<world, redis, up, fallback, left, got, news, returned, solanaLost, calls, solanaNow>>

RedisFlips ==
    /\ dedup /\ up' = ~up
    /\ UNCHANGED <<world, redis, fallback, left, got, keys, news, returned, solanaLost, calls, solanaNow>>

SolanaTick == /\ solanaNow < MaxTime /\ solanaNow' = solanaNow + 1
              /\ UNCHANGED <<world, redis, up, fallback, left, got, keys, news, returned, solanaLost, calls>>

SolanaNext ==
          \/ \E a \in Adapters :
               \/ Ingest(a) \/ Return(a)
               \/ \E s \in Sigs : Skip(a, s) \/ AcceptUnchecked(a, s) \/ Refuse(a, s) \/ New(a, s)
          \/ PruneExpired \/ RedisFlips \/ SolanaTick

SolanaSpec == SolanaInit /\ [][SolanaNext]_solanaVars
-----------------------------------------------------------------------------
(* A key is judged new once per lifetime, by all processes together while  *)
(* Redis answers and by each process alone while it does not, whatever the *)
(* calls overlap in and however often Redis comes and goes; the cap of the *)
(* fallback may forget a key only for one recorded later.  Everything that *)
(* was judged new, never a replay, has its row until the first time it was *)
(* new is a lifetime ago.                                                  *)
NewOncePerLifetime ==
    /\ \A n, m \in news :
         (n # m /\ n.sig = m.sig /\ n.via = m.via /\ n.at <= m.at
            /\ (n.via = "memory" => n.by = m.by))
           => \/ m.at - n.at >= TTL
              \/ /\ n.via = "memory"
                 /\ Cardinality({k \in news : k.via = "memory" /\ k.by = n.by /\ k.sig # n.sig
                                              /\ k.at >= n.at /\ k.at <= m.at}) >= MaxKeys
    /\ \A n \in news : n.at - at[n.sig] <= ReplayWindow /\ n.sig \in swap
    /\ \A n \in news : keys[n.sig] = -1 => \E m \in news : m.sig = n.sig /\ m.at < solanaNow - TTL

(* "Return True when `trade' is new; records it in the dedup store."       *)
(* (_accept_trade): a new trade is returned by the ingest that saw it.     *)
NewTradeIsReturned == solanaLost = {}

-----------------------------------------------------------------------------
(***************************************************************************)
(* ingestion/path_payment_loader.py: a path payment is decomposed into one *)
(* trade per hop from the trade effects Horizon reports for it.            *)
(*                                                                         *)
(* A state is one operation with the path the ledger took, and what        *)
(* fetching its effects returned: the effects in order, less those that    *)
(* did not parse, or nothing.  Amounts are 0, sane (1) or beyond the bound *)
(* (2); assets are names.  At most one effect is lost and at most one      *)
(* amount is not sane.                                                     *)
(***************************************************************************)

CONSTANTS Assets,
          MaxHops,      \* MAX_PATH_HOPS
          MaxPath       \* bound: longest path of an operation

VARIABLES
    route,      \* the assets from source to destination
    amounts,    \* the amount class of each asset change along the route
    hopLost,       \* effects that did not parse
    fetched,    \* the effects were fetched at all
    recent, known   \* not before `since`; a path payment with a valid id

hopVars == <<route, amounts, hopLost, fetched, recent, known>>

Hops == Len(route) - 1

HopInit ==
       /\ \E n \in 2 .. MaxPath + 2 : route \in [1 .. n -> Assets]
       /\ amounts \in [1 .. Len(route) -> 0 .. 2]
       /\ Cardinality({i \in DOMAIN amounts : amounts[i] # 1}) <= 1
       /\ \E S \in SUBSET (1 .. Len(route) - 1) : Cardinality(S) <= 1 /\ hopLost = S
       /\ fetched \in BOOLEAN /\ recent \in BOOLEAN /\ known \in BOOLEAN

\* What the ledger did at hop i: it sold one asset of the route for the next.
LedgerEffect(i) == [hop |-> i, sold |-> route[i], bought |-> route[i + 1],
                    soldAmount |-> amounts[i], boughtAmount |-> amounts[i + 1]]

\* _fetch_effects: trade effects that parse, in order; a failure is no effect.
Effects ==
    IF ~fetched THEN <<>>
    ELSE LET kept == SelectSeq([i \in 1 .. Hops |-> i], LAMBDA i : i \notin hopLost)
         IN [j \in DOMAIN kept |-> LedgerEffect(kept[j])]

\* _parse_path: a path beyond the maximum is cut.
Path == SubSeq(route, 2, Min({Len(route) - 1, MaxHops + 1}))

AssetChain == <<route[1]>> \o Path \o <<route[Len(route)]>>

Sane(e) == e.soldAmount = 1 /\ e.boughtAmount = 1

\* One effect per expected hop.
Complete(effects) == effects # <<>> /\ Len(effects) = Len(Path) + 1

\* PathPaymentDecomposer.decompose: all hops, or none.
Decompose(effects) ==
    IF /\ Complete(effects)
       /\ \A i \in DOMAIN effects : /\ i <= Len(AssetChain) /\ effects[i].sold = AssetChain[i]
                                    /\ Sane(effects[i])
      THEN [i \in DOMAIN effects |-> [id |-> i - 1, sold |-> effects[i].sold,
                                      bought |-> effects[i].bought, hop |-> effects[i].hop]]
      ELSE <<>>

\* load_hop_trades for the record of this operation.
LoadHopTrades == IF known /\ recent THEN Decompose(Effects) ELSE <<>>

HopDone == UNCHANGED hopVars
HopNext == HopDone
HopSpec == HopInit /\ [][HopNext]_hopVars
-----------------------------------------------------------------------------
(* All or nothing: a payment whose path is within the maximum yields       *)
(* either no trade, or one trade for each of its hops, in order, each      *)
(* selling what the one before bought, from the source to the destination  *)
(* asset; and it does yield them when every effect arrived with sane       *)
(* amounts.  A missing effect never shortens the route, even one whose     *)
(* assets repeat.                                                          *)
HopsAreTheRoute ==
    Hops - 1 <= MaxHops =>
      LET trades == LoadHopTrades IN
      /\ trades # <<>> =>
           /\ Len(trades) = Hops
           /\ \A i \in 1 .. Hops : /\ trades[i].hop = i /\ trades[i].id = i - 1
                                   /\ trades[i].bought = route[i + 1]
      /\ (/\ known /\ recent /\ fetched /\ hopLost = {}
          /\ \A i \in DOMAIN amounts : amounts[i] = 1) => trades # <<>>

=============================================================================
