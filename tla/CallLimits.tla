----------------------------- MODULE CallLimits -----------------------------
(*****************************************************************************)
(* Calls that must be limited: the shared Horizon client with its retries    *)
(* and pauses, the guard of server versions, the pacing of streams, the pool *)
(* of EVM providers, the breaker of the contract client, and the distributed *)
(* rate limiter.                                                             *)
(*****************************************************************************)
EXTENDS Integers, Sequences, FiniteSets, FiniteSetsExt, SequencesExt

-----------------------------------------------------------------------------
(***************************************************************************)
(* ingestion/http_client.py and ingestion/rate_limiter.py: concurrent      *)
(* calls of AsyncHorizonClient.get share one HorizonAdaptiveRateLimiter    *)
(* and one semaphore; get_with_retry is the synchronous loop beside them.  *)
(*                                                                         *)
(* Clocks are countdowns: `clientPause' is _paused_until - now and wake[t] what  *)
(* is left of t's sleep.  Tokens are counted in Units of a token and rates *)
(* in units per tick; `clientElapsed' is now - _last_refill, kept up to the      *)
(* point where the bucket is full.  The rate a quota header leads to is    *)
(* any rate: safety_factor * remaining / reset is data.                    *)
(***************************************************************************)

CONSTANTS ClientTasks,            \* coroutines, each making one call
          SyncTasks,        \* threads that use get_with_retry
          ClientMaxRetries,       \* max_retries
          MaxConcurrency,   \* size of the semaphore
          ClientCapacity,         \* bucket capacity, in tokens
          MaxBackoff        \* max_backoff and max_retry_delay, in ticks

Units == 2
Rates == {1, 2}             \* the lowest is _MIN_RATE
Full == ClientCapacity * Units
ClientCallers == ClientTasks \cup SyncTasks

VARIABLES
    clientPc,             \* pc[t]: where t is
    attempt,        \* attempt[t]: index of the attempt
    wake,           \* wake[t]: ticks left of t's sleep
    lock,           \* holder of the limiter's lock, or NoTask
    clientTokens, clientElapsed, clientRate,  \* the bucket
    clientPause,          \* ticks until _paused_until
    row429,         \* _consecutive_429, up to the exponent that is capped
    leaked,         \* history: tokens granted during the current pause
    extensions      \* history: times the current pause was set

clientVars == <<clientPc, attempt, wake, lock, clientTokens, clientElapsed, clientRate, clientPause, row429, leaked, extensions>>
clientBucket == <<clientTokens, clientElapsed, clientRate>>
limiter == <<clientBucket, clientPause, row429, leaked, extensions>>

NoTask == "none"
Ended == {"done", "raised", "gave_up"}
Min2(a, b) == IF a < b THEN a ELSE b
Max2(a, b) == IF a > b THEN a ELSE b

ClientTypeOK ==
    /\ clientPc \in [ClientCallers -> {"idle", "want", "paused", "refill", "send", "flight", "sleep"} \cup Ended]
    /\ attempt \in [ClientCallers -> 0 .. ClientMaxRetries]
    /\ wake \in [ClientCallers -> 0 .. MaxBackoff + Full + 1]
    /\ lock \in ClientTasks \cup {NoTask}
    /\ clientTokens \in 0 .. Full /\ clientElapsed \in 0 .. Full /\ clientRate \in Rates
    /\ clientPause \in 0 .. MaxBackoff /\ row429 \in 0 .. 2 /\ leaked \in Nat /\ extensions \in Nat

ClientInit ==
          /\ clientPc = [t \in ClientCallers |-> "idle"] /\ attempt = [t \in ClientCallers |-> 0]
          /\ wake = [t \in ClientCallers |-> 0] /\ lock = NoTask
          /\ clientTokens = Full /\ clientElapsed = 0 /\ clientRate = 2
          /\ clientPause = 0 /\ row429 = 0 /\ leaked = 0 /\ extensions = 0

-----------------------------------------------------------------------------
\* _refill
ClientRefilled == Min2(Full, clientTokens + clientElapsed * clientRate)

\* get() or get_with_retry is called.
ClientCall(t) ==
          /\ clientPc[t] = "idle"
          /\ clientPc' = [clientPc EXCEPT ![t] = IF t \in ClientTasks THEN "want" ELSE "send"]
          /\ UNCHANGED <<attempt, wake, lock, limiter>>

\* acquire's last lines: one token less, the lock free.
Grant(t, level) ==
    /\ clientTokens' = Max2(0, level - Units)
    /\ lock' = NoTask /\ clientPc' = [clientPc EXCEPT ![t] = "send"] /\ UNCHANGED wake
    /\ leaked' = IF clientPause > 0 THEN leaked + 1 ELSE leaked

\* Too few tokens: sleep for the missing ones with the lock held.
TakeOrWait(t, level) ==
    IF level >= Units
      THEN Grant(t, level)
      ELSE /\ clientTokens' = level
           /\ clientPc' = [clientPc EXCEPT ![t] = "refill"] /\ lock' = t
           /\ wake' = [wake EXCEPT ![t] = (Units - level + clientRate - 1) \div clientRate]
           /\ UNCHANGED leaked

\* HorizonAdaptiveRateLimiter.acquire gets the lock.
ClientAcquire(t) ==
    /\ clientPc[t] = "want" /\ lock = NoTask
    /\ IF clientPause > 0
         THEN /\ lock' = t /\ clientPc' = [clientPc EXCEPT ![t] = "paused"]
              /\ wake' = [wake EXCEPT ![t] = clientPause] /\ UNCHANGED <<clientTokens, clientElapsed, leaked>>
         ELSE TakeOrWait(t, ClientRefilled) /\ clientElapsed' = 0
    /\ UNCHANGED <<attempt, clientRate, clientPause, row429, extensions>>

\* The sleep through the pause is over.  _last_refill moves to now, so the
\* pause earns no tokens; the pause itself is not looked at again.
PauseOver(t) ==
    /\ clientPc[t] = "paused" /\ wake[t] = 0
    /\ TakeOrWait(t, clientTokens) /\ clientElapsed' = 0
    /\ UNCHANGED <<attempt, clientRate, clientPause, row429, extensions>>

RefillOver(t) ==
    /\ clientPc[t] = "refill" /\ wake[t] = 0
    /\ Grant(t, ClientRefilled) /\ clientElapsed' = 0
    /\ UNCHANGED <<attempt, clientRate, clientPause, row429, extensions>>

\* _make_request passes the semaphore; the token was taken before.
Send(t) ==
    /\ clientPc[t] = "send"
    /\ t \in ClientTasks => Cardinality({u \in ClientTasks : clientPc[u] = "flight"}) < MaxConcurrency
    /\ clientPc' = [clientPc EXCEPT ![t] = "flight"]
    /\ UNCHANGED <<attempt, wake, lock, limiter>>

\* paused_until only ever grows.
PauseFor(d) ==
    /\ clientPause' = Max2(clientPause, d)
    /\ extensions' = IF d > 0 THEN extensions + 1 ELSE extensions

\* on_429, with or without a Retry-After header ra (0: none).
ClientOn429(ra) ==
    /\ row429' = Min2(row429 + 1, 2)
    /\ PauseFor(Min2(MaxBackoff, IF ra > 0 THEN ra ELSE 2 ^ (row429' - 1)))
    /\ clientElapsed' = 0 /\ clientTokens' = 0
    /\ clientRate' = Max2(clientRate \div 2, 1) /\ UNCHANGED leaked

\* observe_response for the other statuses: without quota headers nothing but
\* the 429 count changes; with them the rate follows and the bucket never
\* holds more than the quota leaves.
ObserveQuota ==
    /\ row429' = 0
    /\ \/ UNCHANGED <<clientBucket, clientPause, extensions, leaked>>
       \/ \E remaining \in {0, 1}, r \in Rates :
            /\ IF remaining = 0 THEN PauseFor(MaxBackoff) ELSE UNCHANGED <<clientPause, extensions>>
            /\ clientTokens' = Min2(ClientRefilled, remaining * Units) /\ clientElapsed' = 0
            /\ clientRate' = r /\ UNCHANGED leaked

\* get's `continue': sleep before the next attempt, or out of attempts.
Retry(t, delay) ==
    IF attempt[t] < ClientMaxRetries
      THEN clientPc' = [clientPc EXCEPT ![t] = "sleep"] /\ wake' = [wake EXCEPT ![t] = delay]
      ELSE clientPc' = [clientPc EXCEPT ![t] = "gave_up"] /\ UNCHANGED wake

\* compute_retry_delay: full jitter up to a cap.
Jitter(t) == 0 .. Min2(MaxBackoff, 2 ^ attempt[t])

\* TransportError: the limiter learns nothing.
TransportError(t) ==
    /\ clientPc[t] = "flight"
    /\ \E j \in Jitter(t) : Retry(t, IF t \in ClientTasks THEN j ELSE 2 ^ attempt[t])
    /\ UNCHANGED <<attempt, lock, limiter>>

TooManyRequests(t) ==
    /\ clientPc[t] = "flight"
    /\ \E ra \in {0, 2}, j \in Jitter(t), extra \in 0 .. 1 :
         IF t \in ClientTasks
           THEN ClientOn429(ra) /\ Retry(t, IF ra > 0 THEN Max2(Min2(ra, MaxBackoff) + extra, j) ELSE j)
           ELSE UNCHANGED limiter /\ Retry(t, 2 ^ attempt[t])
    /\ UNCHANGED <<attempt, lock>>

ServerError(t) ==
    /\ clientPc[t] = "flight"
    /\ IF t \in ClientTasks THEN ObserveQuota ELSE UNCHANGED limiter
    /\ \E j \in Jitter(t) : Retry(t, IF t \in ClientTasks THEN j ELSE 2 ^ attempt[t])
    /\ UNCHANGED <<attempt, lock>>

\* A 2xx whose version VersionGuard accepts, a status that is not retried, or
\* a 2xx of an unsupported version: HorizonVersionError.
Finish(t) ==
    /\ clientPc[t] = "flight"
    /\ IF t \in ClientTasks THEN ObserveQuota ELSE UNCHANGED limiter
    /\ \E end \in {"done", "raised"} : clientPc' = [clientPc EXCEPT ![t] = end]
    /\ UNCHANGED <<attempt, wake, lock>>

\* The sleep is over and the loop makes its next attempt.
NextAttempt(t) ==
    /\ clientPc[t] = "sleep" /\ wake[t] = 0
    /\ attempt' = [attempt EXCEPT ![t] = @ + 1]
    /\ clientPc' = [clientPc EXCEPT ![t] = IF t \in ClientTasks THEN "want" ELSE "send"]
    /\ UNCHANGED <<wake, lock, limiter>>

ClientTick ==
          /\ clientPause > 0 \/ clientElapsed < Full \/ \E t \in ClientCallers : wake[t] > 0
          /\ clientPause' = Max2(0, clientPause - 1) /\ clientElapsed' = Min2(Full, clientElapsed + 1)
          /\ wake' = [t \in ClientCallers |-> Max2(0, wake[t] - 1)]
          /\ IF clientPause = 1 THEN leaked' = 0 /\ extensions' = 0 ELSE UNCHANGED <<leaked, extensions>>
          /\ UNCHANGED <<clientPc, attempt, lock, clientTokens, clientRate, row429>>

Response(t) == TransportError(t) \/ TooManyRequests(t) \/ ServerError(t) \/ Finish(t)
Limiter(t) == ClientAcquire(t) \/ PauseOver(t) \/ RefillOver(t)

ClientNext == \/ ClientTick
              \/ \E t \in ClientCallers : ClientCall(t) \/ Send(t) \/ Response(t) \/ NextAttempt(t)
              \/ \E t \in ClientTasks : Limiter(t)

ClientSpec == ClientInit /\ [][ClientNext]_clientVars

\* The event loop runs what is ready, time passes, requests end (they have a
\* timeout of 30 s) and waiters get the FIFO lock in turn.
ClientFairness ==
    /\ WF_clientVars(ClientTick)
    /\ \A t \in ClientCallers : WF_clientVars(Send(t)) /\ WF_clientVars(Response(t)) /\ WF_clientVars(NextAttempt(t))
    /\ \A t \in ClientTasks : SF_clientVars(ClientAcquire(t)) /\ WF_clientVars(PauseOver(t)) /\ WF_clientVars(RefillOver(t))
-----------------------------------------------------------------------------
(* A pause that a response sets while another coroutine sleeps inside      *)
(* acquire is not seen by that coroutine.  The lock keeps this leak small: *)
(* for every time a pause was set or prolonged, at most one request gets a *)
(* token before it is over.                                                *)
OneLeakPerPause == leaked <= extensions

(* Every call returns, raises or gives up: no order of 429s, quotas and    *)
(* pauses parks it for ever.                                               *)
EveryCallEnds == \A t \in ClientCallers : clientPc[t] = "want" ~> clientPc[t] \in Ended

-----------------------------------------------------------------------------
(***************************************************************************)
(* ingestion/http_client.py: get_with_retry, the synchronous request loop, *)
(* and VersionGuard, which accepts a response by the version its server    *)
(* reports and remembers per URL what it accepted, while servers behind    *)
(* one URL are upgraded and downgraded.                                    *)
(*                                                                         *)
(* A reported version is [num, pre]; num 0 is one that does not parse and  *)
(* None an absent header.  validate_list_response closes the path.         *)
(***************************************************************************)

CONSTANTS Urls, MinVersion, MaxVersion,   \* settings: Min <= version < Max
          Versions,                       \* version numbers servers may run
          GuardMaxRetries,
          MaxUpgrades, GuardMaxCalls           \* bounds

None == [num |-> -1, pre |-> FALSE]
Reported == [num : Versions \cup {0}, pre : BOOLEAN] \cup {None}

VARIABLES
    server,     \* URL -> what its server reports
    guardCache,      \* VersionGuard._cache: URL -> accepted version, or None
    guardCall,       \* the call under way: [pc, url, attempt, reply]
    accepted, refused,   \* history: versions accepted and refused
    requests,   \* history: requests of the call
    upgrades, guardCalls

guardVars == <<server, guardCache, guardCall, accepted, refused, requests, upgrades, guardCalls>>

GuardIdle == [pc |-> "idle"]

GuardTypeOK == /\ server \in [Urls -> Reported] /\ guardCache \in [Urls -> Reported]
               /\ guardCall.pc \in {"idle", "send", "check", "body", "raised", "returned"}
               /\ accepted \subseteq Reported /\ refused \subseteq Reported

GuardInit == /\ server \in [Urls -> Reported] /\ guardCache = [u \in Urls |-> None] /\ guardCall = GuardIdle
             /\ accepted = {} /\ refused = {} /\ requests = 0 /\ upgrades = 0 /\ guardCalls = 0

Upgrade(u, v) == /\ upgrades < MaxUpgrades /\ upgrades' = upgrades + 1
                 /\ server' = [server EXCEPT ![u] = v]
                 /\ UNCHANGED <<guardCache, guardCall, accepted, refused, requests, guardCalls>>

GuardBegin(u) == /\ guardCall.pc \in {"idle", "raised", "returned"} /\ guardCalls < GuardMaxCalls /\ guardCalls' = guardCalls + 1
                 /\ guardCall' = [pc |-> "send", url |-> u, attempt |-> 0, reply |-> None]
                 /\ requests' = 0 /\ UNCHANGED <<server, guardCache, accepted, refused, upgrades>>

\* get_with_retry, one pass: an answer, a client error, or (transport error,
\* 429, 5xx) another attempt after a pause until the retries are used up.
Attempt(outcome) ==
    /\ guardCall.pc = "send" /\ requests' = requests + 1
    /\ guardCall' = CASE outcome = "ok" -> [guardCall EXCEPT !.pc = "check", !.reply = server[guardCall.url]]
                      [] outcome = "client" -> [guardCall EXCEPT !.pc = "raised"]
                      [] outcome = "retry" -> [guardCall EXCEPT !.attempt = @ + 1,
                           !.pc = IF guardCall.attempt < GuardMaxRetries THEN "send" ELSE "raised"]
    /\ UNCHANGED <<server, guardCache, accepted, refused, upgrades, guardCalls>>

Cached(v) == guardCache[guardCall.url] = v

\* A pre-release counts as its release; what does not parse is let through.
InRange(v) == v.num >= MinVersion /\ v.num < MaxVersion

\* VersionGuard.check and _validate.
Check ==
    LET v == guardCall.reply
        passes == v = None \/ Cached(v) \/ v.num = 0 \/ InRange(v)
    IN /\ guardCall.pc = "check"
       /\ accepted' = IF passes THEN accepted \cup {v} ELSE accepted
       /\ refused' = IF passes THEN refused ELSE refused \cup {v}
       /\ guardCache' = IF v # None /\ ~Cached(v) /\ v.num # 0 /\ InRange(v)
                          THEN [guardCache EXCEPT ![guardCall.url] = v] ELSE guardCache
       /\ guardCall' = [guardCall EXCEPT !.pc = IF passes THEN "body" ELSE "raised"]
       /\ UNCHANGED <<server, requests, upgrades, guardCalls>>

\* validate_list_response: a body without records is a schema error.
Validate(wellFormed) ==
    /\ guardCall.pc = "body"
    /\ guardCall' = [guardCall EXCEPT !.pc = IF wellFormed THEN "returned" ELSE "raised"]
    /\ UNCHANGED <<server, guardCache, accepted, refused, requests, upgrades, guardCalls>>

GuardNext ==
         \/ \E u \in Urls : GuardBegin(u) \/ \E v \in Reported : Upgrade(u, v)
         \/ \E o \in {"ok", "client", "retry"} : Attempt(o)
         \/ Check \/ \E b \in BOOLEAN : Validate(b)

GuardSpec == GuardInit /\ [][GuardNext]_guardVars
-----------------------------------------------------------------------------
(* However servers change version between calls, no answer of a release    *)
(* outside the supported range is accepted, none inside it refused, the    *)
(* cache holds supported versions only, and a call makes at most           *)
(* GuardMaxRetries + 1 requests.                                                *)
VersionsAreChecked ==
    /\ \A v \in accepted : v = None \/ v.num = 0 \/ InRange(v)
    /\ \A v \in refused : ~InRange(v)
    /\ \A u \in Urls : guardCache[u] = None \/ InRange(guardCache[u])
    /\ requests <= GuardMaxRetries + 1
    /\ guardCall.pc = "returned" => requests >= 1 /\ guardCall.attempt = requests - 1

-----------------------------------------------------------------------------
(***************************************************************************)
(* ingestion/rate_limiter.py: TokenBucket, which paces the events of the   *)
(* streamer, AdaptiveRateController, which halves its rate on a 429 and    *)
(* restores it, and BackpressureController, which holds producers of a     *)
(* queue back between two watermarks.                                      *)
(*                                                                         *)
(* Tokens are counted in fractions: Token of them are one token.  on_429,  *)
(* tick and check_and_wait are the components' operations; nothing in the  *)
(* repository calls the first two outside its tests.                       *)
(***************************************************************************)

CONSTANTS Token, PaceCapacity, Configured, MinRate,   \* in fractions, rates per second
          RestoreSeconds,
          Producers, High, Low,                   \* watermarks
          PaceMaxTime, MaxEvents, MaxBackoffs         \* bounds

VARIABLES
    paceNow,
    paceRate, paceTokens, lastRefill,   \* TokenBucket
    last429,                    \* AdaptiveRateController; -1: None
    grants,                     \* history: times at which a token was taken
    queue, paused,              \* the queue's size, BackpressureController._paused
    pacePc,                         \* producer -> "idle" | "wait" | "put"
    backoffs

paceVars == <<paceNow, paceRate, paceTokens, lastRefill, last429, grants, queue, paused, pacePc, backoffs>>
paceBucket == <<paceRate, paceTokens, lastRefill, last429, grants, backoffs>>
backpressure == <<queue, paused, pacePc>>

PaceTypeOK ==
    /\ paceNow \in 0 .. PaceMaxTime /\ paceTokens \in Nat /\ lastRefill \in 0 .. paceNow
    /\ last429 \in -1 .. paceNow /\ paused \in BOOLEAN /\ queue \in Nat
    /\ pacePc \in [Producers -> {"idle", "wait", "put"}]

PaceInit == /\ paceNow = 0 /\ paceRate = Configured /\ paceTokens = PaceCapacity /\ lastRefill = 0 /\ last429 = -1
            /\ grants = <<>> /\ queue = 0 /\ paused = FALSE /\ backoffs = 0
            /\ pacePc = [p \in Producers |-> "idle"]

PaceTick == paceNow < PaceMaxTime /\ paceNow' = paceNow + 1 /\ UNCHANGED <<paceBucket, backpressure>>

PaceRefilled == Min({PaceCapacity, paceTokens + (paceNow - lastRefill) * paceRate})

\* try_acquire of a caller in acquire or async_acquire: a token, or it sleeps.
PaceAcquire ==
    /\ Len(grants) < MaxEvents /\ lastRefill' = paceNow
    /\ \/ /\ PaceRefilled >= Token /\ paceTokens' = PaceRefilled - Token /\ grants' = Append(grants, paceNow)
       \/ /\ PaceRefilled < Token /\ paceTokens' = PaceRefilled /\ UNCHANGED grants
    /\ UNCHANGED <<paceNow, paceRate, last429, backoffs, backpressure>>

\* set_rate changes the rate only: what was earned before is not refilled first.
SetRate(r) == paceRate' = Max({r, MinRate})

PaceOn429 == /\ backoffs < MaxBackoffs /\ backoffs' = backoffs + 1
             /\ SetRate(paceRate \div 2) /\ last429' = paceNow
             /\ UNCHANGED <<paceNow, paceTokens, lastRefill, grants, backpressure>>

\* AdaptiveRateController.tick: at the end of the period the configured rate.
Restore ==
    /\ last429 # -1
    /\ IF paceNow - last429 >= RestoreSeconds
         THEN SetRate(Configured) /\ last429' = -1
         ELSE SetRate(paceRate + ((Configured - paceRate) \div RestoreSeconds)) /\ UNCHANGED last429
    /\ UNCHANGED <<paceNow, paceTokens, lastRefill, grants, backoffs, backpressure>>

\* check_and_wait up to its first await.
CheckAndWait(p) ==
    LET pause == paused \/ queue >= High IN
    /\ pacePc[p] = "idle"
    /\ paused' = IF queue > Low THEN pause ELSE FALSE
    /\ pacePc' = [pacePc EXCEPT ![p] = IF pause /\ queue > Low THEN "wait" ELSE "put"]
    /\ UNCHANGED <<paceNow, queue, paceBucket>>

\* A waiting producer looks again, and lifts the pause for all.
Resume(p) == /\ pacePc[p] = "wait" /\ queue <= Low /\ paused' = FALSE
             /\ pacePc' = [pacePc EXCEPT ![p] = "put"] /\ UNCHANGED <<paceNow, queue, paceBucket>>

Put(p) == /\ pacePc[p] = "put" /\ queue' = queue + 1 /\ pacePc' = [pacePc EXCEPT ![p] = "idle"]
          /\ UNCHANGED <<paceNow, paused, paceBucket>>

Consume == queue > 0 /\ queue' = queue - 1 /\ UNCHANGED <<paceNow, paused, pacePc, paceBucket>>

PaceNext == \/ PaceTick \/ PaceAcquire \/ PaceOn429 \/ Restore \/ Consume
            \/ \E p \in Producers : CheckAndWait(p) \/ Resume(p) \/ Put(p)

PaceSpec == PaceInit /\ [][PaceNext]_paceVars
-----------------------------------------------------------------------------
(* Between any two grants no more than a full bucket and the configured    *)
(* rate allow, however the rate is halved and restored and although a      *)
(* change of rate reprices the time since the last refill; without a       *)
(* backoff under way the rate is the configured one; and the queue exceeds *)
(* the high watermark by no more than the producers that had looked before.*)
PacingHolds ==
    /\ \A i, j \in DOMAIN grants : i <= j =>
         (j - i + 1) * Token <= PaceCapacity + Configured * (grants[j] - grants[i])
    /\ paceRate \in MinRate .. Configured
    /\ last429 = -1 => paceRate = Configured
    /\ queue <= High - 1 + Cardinality(Producers)

-----------------------------------------------------------------------------
(***************************************************************************)
(* EVMProviderPool of ingestion/evm_loader.py: coroutines share the RPC    *)
(* endpoints of a chain.  A call tries them in the order of their scores   *)
(* and skips those whose circuit is open; a background task probes each in *)
(* turn.  All of them change the same counters between two awaits.         *)
(*                                                                         *)
(* Health and block numbers only rank the providers, so the order is left  *)
(* open.  The block-lag alert cannot fire: the provider that has the       *)
(* largest block number never lags behind it.                              *)
(***************************************************************************)

CONSTANTS Providers,    \* endpoints of one chain
          PoolTasks,        \* coroutines that call
          PoolThreshold,    \* circuit_breaker_threshold
          PoolMaxCalls      \* bound: calls that are started

VARIABLES
    failures,   \* consecutive_failures
    open,       \* is_circuit_open
    poolCall,       \* call[t]: [at, provider, left] - left are those still to be tried
    probed,     \* the provider whose probe is in flight
    poolCalls

poolVars == <<failures, open, poolCall, probed, poolCalls>>

NoProvider == "none"
PoolIdle == [at |-> "idle", provider |-> NoProvider, left |-> {}]

PoolTypeOK ==
    /\ failures \in [Providers -> Nat] /\ open \in [Providers -> BOOLEAN]
    /\ poolCall \in [PoolTasks -> [at : {"idle", "choosing", "waiting"},
                                   provider : Providers \cup {NoProvider}, left : SUBSET Providers]]
    /\ probed \in Providers \cup {NoProvider} /\ poolCalls \in 0 .. PoolMaxCalls

PoolInit ==
        /\ failures = [p \in Providers |-> 0] /\ open = [p \in Providers |-> FALSE]
        /\ poolCall = [t \in PoolTasks |-> PoolIdle] /\ probed = NoProvider /\ poolCalls = 0
-----------------------------------------------------------------------------
PoolCall(t) ==
        /\ poolCall[t] = PoolIdle /\ poolCalls < PoolMaxCalls /\ poolCalls' = poolCalls + 1
        /\ poolCall' = [poolCall EXCEPT ![t] = [at |-> "choosing", provider |-> NoProvider,
                                                left |-> Providers]]
        /\ UNCHANGED <<failures, open, probed>>

\* is_circuit_open is looked at when the provider's turn comes.
Skipped(p) == open[p]

TryProvider(t, p) ==
    /\ poolCall[t].at = "choosing" /\ p \in poolCall[t].left
    /\ poolCall' = [poolCall EXCEPT ![t] = [at |-> IF Skipped(p) THEN "choosing" ELSE "waiting",
                                            provider |-> IF Skipped(p) THEN NoProvider ELSE p,
                                            left |-> @.left \ {p}]]
    /\ UNCHANGED <<failures, open, probed, poolCalls>>

RpcSucceeds(t) ==
    /\ poolCall[t].at = "waiting" /\ poolCall' = [poolCall EXCEPT ![t] = PoolIdle]
    /\ failures' = [failures EXCEPT ![poolCall[t].provider] = 0]
    /\ UNCHANGED <<open, probed, poolCalls>>

\* A timeout, an HTTP error or an error in the answer.
RpcFails(t) ==
    LET p == poolCall[t].provider IN
    /\ poolCall[t].at = "waiting"
    /\ failures' = [failures EXCEPT ![p] = @ + 1]
    /\ open' = [open EXCEPT ![p] = @ \/ failures[p] + 1 >= PoolThreshold]
    /\ poolCall' = [poolCall EXCEPT ![t].at = "choosing", ![t].provider = NoProvider]
    /\ UNCHANGED <<probed, poolCalls>>

\* EVMProviderPoolExhaustedError.
Exhausted(t) ==
    /\ poolCall[t].at = "choosing" /\ poolCall[t].left = {} /\ poolCall' = [poolCall EXCEPT ![t] = PoolIdle]
    /\ UNCHANGED <<failures, open, probed, poolCalls>>
-----------------------------------------------------------------------------
Probe(p) ==
    /\ probed = NoProvider /\ probed' = p /\ UNCHANGED <<failures, open, poolCall, poolCalls>>

\* The circuit closes only when no failure is counted, and a probe does not
\* reset the count.
ProbeSucceeds(p) ==
    /\ probed = p /\ probed' = NoProvider
    /\ open' = [open EXCEPT ![p] = @ /\ failures[p] # 0]
    /\ UNCHANGED <<failures, poolCall, poolCalls>>

ProbeFails(p) ==
    /\ probed = p /\ probed' = NoProvider /\ UNCHANGED <<failures, open, poolCall, poolCalls>>

TaskStep(t) ==
    PoolCall(t) \/ RpcSucceeds(t) \/ RpcFails(t) \/ Exhausted(t)
      \/ \E p \in Providers : TryProvider(t, p)

PoolNext ==
        \/ \E t \in PoolTasks : TaskStep(t)
        \/ \E p \in Providers : Probe(p) \/ ProbeSucceeds(p) \/ ProbeFails(p)

PoolSpec == PoolInit /\ [][PoolNext]_poolVars

\* The probe loop visits every provider, and a provider that answers again
\* and again is one whose probes succeed.
PoolFairness ==
    /\ \A p \in Providers : SF_poolVars(Probe(p)) /\ SF_poolVars(ProbeSucceeds(p))
    /\ \A t \in PoolTasks : WF_poolVars(RpcSucceeds(t) \/ RpcFails(t) \/ Exhausted(t)
                                          \/ \E p \in Providers : TryProvider(t, p))

PoolFairSpec == PoolSpec /\ PoolFairness
-----------------------------------------------------------------------------
(* The circuit bounds the failures: once it is open only the calls already *)
(* in flight can still fail, so the count passes the threshold by less     *)
(* than the number of coroutines.                                          *)
FailuresBounded ==
    \A p \in Providers :
      failures[p] < PoolThreshold + Cardinality(PoolTasks)

-----------------------------------------------------------------------------
(***************************************************************************)
(* integrations/contract_client.py, SorobanCircuitBreaker: reads of the    *)
(* contract by several threads, with the last good value as fallback.  The *)
(* check, the call, the record of its outcome and the update of the cache  *)
(* are separate steps; only each of them holds the lock.  A call that      *)
(* takes too long is counted as a failure when it comes back.              *)
(***************************************************************************)

CONSTANTS
    Threads, Keys,
    RpcThreshold,       \* failure_rate_threshold, in percent
    MinSamples, RpcWindow, OpenTime, Timeout,
    RpcMaxCalls, RpcMaxTime

VARIABLES
    outcomes,    \* _outcomes: sequence of [t, ok]
    openedAt,    \* _opened_at, -1 for None
    rpcCache,       \* _cache: per key the value, 0 for none
    thr,         \* per thread [pc, key, t0, value, ans]
    fresh,       \* values given to a caller as live, per key
    rpcCalls, rpcNow,
    reopened     \* the last probe that failed left the circuit open

rpcVars == <<outcomes, openedAt, rpcCache, thr, fresh, rpcCalls, rpcNow, reopened>>

RpcIdle == [pc |-> "idle", key |-> "none", t0 |-> 0, value |-> 0, ans |-> <<>>]

RpcTypeOK ==
    /\ openedAt \in -1 .. RpcMaxTime /\ rpcNow \in 0 .. RpcMaxTime /\ rpcCalls \in 0 .. RpcMaxCalls
    /\ \A th \in Threads : thr[th].pc \in {"idle", "calling", "succeeded", "failed", "answered", "raised"}

RpcInit ==
       /\ outcomes = <<>> /\ openedAt = -1 /\ rpcCache = [k \in Keys |-> 0]
       /\ thr = [th \in Threads |-> RpcIdle] /\ fresh = [k \in Keys |-> {}]
       /\ rpcCalls = 0 /\ rpcNow = 0 /\ reopened = TRUE

-----------------------------------------------------------------------------
\* is_open: after OpenTime every caller is let through.
IsOpen == openedAt # -1 /\ rpcNow - openedAt < OpenTime

Failures(s) == Len(SelectSeq(s, LAMBDA o : ~o.ok))

\* _record, with _prune and _failure_rate
RecordSuccess == outcomes' = <<[t |-> rpcNow, ok |-> TRUE]>> /\ openedAt' = -1

RecordFailure ==
    LET kept == SelectSeq(outcomes, LAMBDA o : o.t >= rpcNow - RpcWindow)
        all == Append(kept, [t |-> rpcNow, ok |-> FALSE])
        trips == Len(all) >= MinSamples /\ 100 * Failures(all) >= RpcThreshold * Len(all)
    IN  /\ outcomes' = all
        /\ openedAt' = IF trips THEN rpcNow ELSE openedAt
        /\ reopened' = (openedAt # -1 => trips)

\* call, up to fn(): or the fallback at once.
RpcBegin(th, k) ==
    /\ thr[th].pc = "idle" /\ rpcCalls < RpcMaxCalls /\ rpcCalls' = rpcCalls + 1
    /\ thr' = [thr EXCEPT ![th] = [pc |-> IF IsOpen THEN "failed" ELSE "calling", key |-> k, t0 |-> rpcNow,
                                   value |-> rpcCalls + 1, ans |-> <<>>]]
    /\ UNCHANGED <<outcomes, openedAt, rpcCache, fresh, rpcNow, reopened>>

\* fn() returns in time.
Succeed(th) ==
    /\ thr[th].pc = "calling" /\ rpcNow - thr[th].t0 <= Timeout
    /\ RecordSuccess
    /\ thr' = [thr EXCEPT ![th].pc = "succeeded"]
    /\ UNCHANGED <<rpcCache, fresh, rpcCalls, rpcNow, reopened>>

\* fn() raises, or returns after its time.
Fail(th) ==
    /\ thr[th].pc = "calling"
    /\ RecordFailure
    /\ thr' = [thr EXCEPT ![th].pc = "failed"]
    /\ UNCHANGED <<rpcCache, fresh, rpcCalls, rpcNow>>

\* cache_put and the live answer.
CachePut(th) ==
    LET c == thr[th]
    IN  /\ c.pc = "succeeded"
        /\ rpcCache' = [rpcCache EXCEPT ![c.key] = c.value]
        /\ fresh' = [fresh EXCEPT ![c.key] = @ \cup {c.value}]
        /\ thr' = [thr EXCEPT ![th].pc = "answered", ![th].ans = [value |-> c.value, stale |-> FALSE]]
        /\ UNCHANGED <<outcomes, openedAt, rpcCalls, rpcNow, reopened>>

\* _fallback: the last good value, or an error.
RpcFallback(th) ==
    LET c == thr[th]
    IN  /\ c.pc = "failed"
        /\ thr' = [thr EXCEPT ![th] = IF rpcCache[c.key] = 0 THEN [c EXCEPT !.pc = "raised"]
                                      ELSE [c EXCEPT !.pc = "answered", !.ans = [value |-> rpcCache[c.key], stale |-> TRUE]]]
        /\ UNCHANGED <<outcomes, openedAt, rpcCache, fresh, rpcCalls, rpcNow, reopened>>

Return(th) ==
    /\ thr[th].pc \in {"answered", "raised"}
    /\ thr' = [thr EXCEPT ![th] = RpcIdle]
    /\ UNCHANGED <<outcomes, openedAt, rpcCache, fresh, rpcCalls, rpcNow, reopened>>

RpcTick == rpcNow < RpcMaxTime /\ rpcNow' = rpcNow + 1 /\ UNCHANGED <<outcomes, openedAt, rpcCache, thr, fresh, rpcCalls, reopened>>

RpcNext ==
       \/ \E th \in Threads : (\E k \in Keys : RpcBegin(th, k)) \/ Succeed(th) \/ Fail(th)
                              \/ CachePut(th) \/ RpcFallback(th) \/ Return(th)
       \/ RpcTick
RpcSpec == RpcInit /\ [][RpcNext]_rpcVars

-----------------------------------------------------------------------------
(***************************************************************************)
(* A stale answer is a value some caller of the same key has had as a live *)
(* one, and a live answer the caller's own.  The circuit is open only if   *)
(* the last call to come back failed: a late result of a call that began   *)
(* before the circuit opened counts like any other.                        *)
(***************************************************************************)
RpcAnswersAreHonest ==
    /\ \A th \in Threads : LET c == thr[th] IN
        /\ c.pc = "answered" => c.ans.value \in fresh[c.key]
        /\ (c.pc = "answered" /\ ~c.ans.stale) => c.ans.value = c.value
    /\ openedAt # -1 => /\ Len(outcomes) >= 1 /\ ~Last(outcomes).ok
                        /\ openedAt <= Last(outcomes).t
                        /\ (openedAt = Last(outcomes).t /\ openedAt + OpenTime > rpcNow) => IsOpen
    /\ \A i, j \in DOMAIN outcomes : i < j => outcomes[i].t <= outcomes[j].t

-----------------------------------------------------------------------------
(***************************************************************************)
(* detection/rate_limiter.py: the per-key request limit.  A Redis script   *)
(* estimates the sliding window from two counters; one replica is followed *)
(* with its circuit breaker (utils/circuit_breaker.py, its module used as  *)
(* it is) and its local fallback window, while the other replicas, whose   *)
(* clocks may be ahead, share the counters of the same key.                *)
(*                                                                         *)
(* Redis and the fallback each have their clock in the code (time.time,    *)
(* time.monotonic); here one clock t drives both, bounded by LimiterMaxTime.      *)
(***************************************************************************)

CONSTANTS LimiterCallers, FailureThreshold, RecoveryTimeout,   \* of the breaker
          Limit,        \* limit_per_minute
          LimiterWindow,       \* window_seconds
          MaxSkew,      \* how far another replica's clock may be ahead
          LimiterMaxTime       \* bound: the clock

VARIABLES state, failureCount, age, calling   \* of the breaker
breaker == <<state, failureCount, age, calling>>

B == INSTANCE CircuitBreaker WITH
    Callers <- LimiterCallers, FailureThreshold <- FailureThreshold, RecoveryTimeout <- RecoveryTimeout,
    state <- state, failureCount <- failureCount, age <- age, calling <- calling

Times == 0 .. LimiterMaxTime
Buckets == -1 .. (LimiterMaxTime + MaxSkew) \div LimiterWindow

VARIABLES
    limiterT,          \* the time
    skew,       \* the other replicas' clock minus t
    counter,    \* counter[b]: the value of the key of bucket b
    local,      \* local[u]: entries of _local_windows with timestamp u
    byRedis,    \* history: byRedis[u], requests Redis let through at time u
    byLocal     \* history: the same for the fallback of this replica

limiterVars == <<breaker, limiterT, skew, counter, local, byRedis, byLocal>>

LimiterTypeOK ==
    /\ B!TypeOK /\ limiterT \in Times /\ skew \in 0 .. MaxSkew
    /\ counter \in [Buckets -> 0 .. Limit] /\ local \in [Times -> 0 .. Limit]
    /\ byRedis \in [Times -> 0 .. 2 * Limit] /\ byLocal \in [Times -> 0 .. Limit]

LimiterInit ==
           /\ B!Init /\ limiterT = 0 /\ skew \in 0 .. MaxSkew /\ counter = [b \in Buckets |-> 0]
           /\ local = [u \in Times |-> 0] /\ byRedis = local /\ byLocal = local

\* Time passes, for the breaker too.
LimiterTick ==
           /\ limiterT < LimiterMaxTime /\ limiterT' = limiterT + 1
           /\ IF age # B!NotOpened /\ age < RecoveryTimeout THEN B!Tick ELSE UNCHANGED breaker
           /\ UNCHANGED <<skew, counter, local, byRedis, byLocal>>

-----------------------------------------------------------------------------
\* Mutant: the previous bucket is forgotten when the next one begins.
Refused_FixedWindow(now) == counter[now \div LimiterWindow] >= Limit

\* _SLIDING_WINDOW_LUA: prev * weight + curr >= limit, times the window.
Refused(now) ==
    LET b == now \div LimiterWindow  elapsed == now % LimiterWindow IN
    counter[b - 1] * (LimiterWindow - elapsed) + counter[b] * LimiterWindow >= Limit * LimiterWindow

\* What the script does, atomically, for a caller whose clock shows `now'.
Script(now) ==
    /\ counter' = IF Refused(now) THEN counter ELSE [counter EXCEPT ![now \div LimiterWindow] = @ + 1]
    /\ byRedis' = IF Refused(now) THEN byRedis ELSE [byRedis EXCEPT ![limiterT] = @ + 1]

\* _check_local: keeps what is inside the window and appends to it.
InWindow(u) == u > limiterT - LimiterWindow
CheckLocal ==
    LET kept == [u \in Times |-> IF InWindow(u) THEN local[u] ELSE 0]
        full == MapThenSumSet(LAMBDA u : kept[u], Times) >= Limit
    IN /\ local' = IF full THEN kept ELSE [kept EXCEPT ![limiterT] = @ + 1]
       /\ byLocal' = IF full THEN byLocal ELSE [byLocal EXCEPT ![limiterT] = @ + 1]

\* check: the breaker lets this replica ask Redis.
AskRedis(c) == B!CallAdmitted(c) /\ UNCHANGED <<limiterT, skew, counter, local, byRedis, byLocal>>

RedisAnswers(c) ==
    /\ B!RecordSuccess(c) /\ Script(limiterT) /\ UNCHANGED <<limiterT, skew, local, byLocal>>

\* The call raises, the script having run or not; the request is decided by
\* the local window instead.
RedisFails(c) ==
    /\ B!RecordFailure(c) /\ CheckLocal
    /\ \/ UNCHANGED counter
       \/ ~Refused(limiterT) /\ counter' = [counter EXCEPT ![limiterT \div LimiterWindow] = @ + 1]
    /\ UNCHANGED <<limiterT, skew, byRedis>>

\* The breaker is open: the local window decides.
LimiterFallback(c) ==
    /\ ~calling[c] /\ B!MaybeHalfOpen = "open"
    /\ CheckLocal /\ UNCHANGED <<breaker, limiterT, skew, counter, byRedis>>

\* Another replica checks the same key.
OtherReplica == Script(limiterT + skew) /\ UNCHANGED <<breaker, limiterT, skew, local, byLocal>>

LimiterNext ==
           \/ LimiterTick \/ OtherReplica
           \/ \E c \in LimiterCallers : AskRedis(c) \/ RedisAnswers(c) \/ RedisFails(c) \/ LimiterFallback(c)

LimiterSpec == LimiterInit /\ [][LimiterNext]_limiterVars
-----------------------------------------------------------------------------
Over(f, u) == MapThenSumSet(LAMBDA v : f[v], {v \in Times : v > u - LimiterWindow /\ v <= u})

(* "Worst-case overshoot is mathematically bounded at 2x the configured    *)
(* limit": over every stretch of one window, fewer than twice the limit    *)
(* are let through by Redis when the clocks agree, and with clocks apart   *)
(* not more than the three buckets such a stretch can touch hold; the      *)
(* fallback of a replica, in and out of an outage, adds at most one limit. *)
WindowIsBounded ==
    \A u \in Times :
      /\ Over(byRedis, u) <= IF skew = 0 THEN 2 * Limit - 1 ELSE 3 * Limit
      /\ Over(byLocal, u) <= Limit

=============================================================================
