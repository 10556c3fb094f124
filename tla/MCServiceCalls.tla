--------------------------- MODULE MCServiceCalls ---------------------------
(*****************************************************************************)
(* Calls into shared services and the connections they serve: the circuit    *)
(* breaker, with the limits of outgoing calls (CallLimits) and the long-     *)
(* lived streams of the API (ApiStreams).                                    *)
(*                                                                           *)
(* A behaviour is about one component, named by focus; the others keep the   *)
(* value they start with. Callers are model values; every other set is small *)
(* enough that two parties meet at each limit.                               *)
(*****************************************************************************)
EXTENDS CircuitBreaker, ApiStreams, Integers, Sequences, FiniteSets

CONSTANT Focus  \* the components whose behaviours a run explores

VARIABLES
    focus,  \* the component a behaviour is about
    clientPc, clientAttempt, wake, lock, clientTokens, clientElapsed, clientRate,
    clientPause, row429, leaked, extensions, server, guardCache, guardCall,
    accepted, refused, requests, upgrades, guardCalls, paceNow, paceRate,
    paceTokens, lastRefill, last429, grants, paceQueue, paused, pacePc, backoffs,
    failures, open, poolCall, probed, poolCalls, outcomes, openedAt,
    rpcCache, thr, fresh, rpcCalls, rpcNow, reopened, limiterState,
    limiterFailureCount, limiterAge, limiterCalling, limiterT, skew, counter,
    local, byRedis, byLocal

CallLimits == INSTANCE CallLimits WITH
    ClientTasks <- {"t1", "t2"}, SyncTasks <- {"s1"}, ClientMaxRetries <- 1,
    MaxConcurrency <- 2, ClientCapacity <- 1, MaxBackoff <- 1,
    Urls <- {"u1"}, MinVersion <- 2, MaxVersion <- 3, Versions <- 1 .. 3,
    GuardMaxRetries <- 1, MaxUpgrades <- 2, GuardMaxCalls <- 2, Token <- 4,
    PaceCapacity <- 8, Configured <- 4, MinRate <- 1, RestoreSeconds <- 1,
    Producers <- {"p1", "p2"}, High <- 3, Low <- 1, PaceMaxTime <- 2,
    MaxEvents <- 4, MaxBackoffs <- 2, Providers <- {"e1", "e2"},
    PoolTasks <- {"t1", "t2"}, PoolThreshold <- 2, PoolMaxCalls <- 4,
    Threads <- {"t1", "t2"}, Keys <- {"k"}, RpcThreshold <- 50,
    MinSamples <- 2, RpcWindow <- 1, OpenTime <- 1, Timeout <- 1,
    RpcMaxCalls <- 4, RpcMaxTime <- 2, LimiterCallers <- {"c1"},
    FailureThreshold <- 2, RecoveryTimeout <- 1, Limit <- 2,
    LimiterWindow <- 2, MaxSkew <- 1, LimiterMaxTime <- 3,
    state <- limiterState, failureCount <- limiterFailureCount,
    age <- limiterAge, calling <- limiterCalling, queue <- paceQueue,
    attempt <- clientAttempt

(* The variables of each component, and their value while another one runs. *)
horizonClientVars == <<clientPc, clientAttempt, wake, lock, clientTokens,
                       clientElapsed, clientRate, clientPause, row429,
                       leaked, extensions>>
horizonClientOff == clientPc = 0 /\ clientAttempt = 0 /\ wake = 0 /\ lock = 0 /\
                    clientTokens = 0 /\ clientElapsed = 0 /\
                    clientRate = 0 /\ clientPause = 0 /\ row429 = 0 /\
                    leaked = 0 /\ extensions = 0
horizonGuardVars == <<server, guardCache, guardCall, accepted, refused,
                      requests, upgrades, guardCalls>>
horizonGuardOff == server = 0 /\ guardCache = 0 /\ guardCall = 0 /\
                   accepted = 0 /\ refused = 0 /\ requests = 0 /\
                   upgrades = 0 /\ guardCalls = 0
streamPacingVars == <<paceNow, paceRate, paceTokens, lastRefill, last429,
                      grants, paceQueue, paused, pacePc, backoffs>>
streamPacingOff == paceNow = 0 /\ paceRate = 0 /\ paceTokens = 0 /\
                   lastRefill = 0 /\ last429 = 0 /\ grants = 0 /\
                   paceQueue = 0 /\ paused = 0 /\ pacePc = 0 /\ backoffs = 0
evmProviderPoolVars == <<failures, open, poolCall, probed, poolCalls>>
evmProviderPoolOff == failures = 0 /\ open = 0 /\ poolCall = 0 /\
                      probed = 0 /\ poolCalls = 0
rpcBreakerVars == <<outcomes, openedAt, rpcCache, thr, fresh, rpcCalls,
                    rpcNow, reopened>>
rpcBreakerOff == outcomes = 0 /\ openedAt = 0 /\ rpcCache = 0 /\ thr = 0 /\
                 fresh = 0 /\ rpcCalls = 0 /\ rpcNow = 0 /\ reopened = 0
rateLimiterVars == <<limiterState, limiterFailureCount, limiterAge,
                     limiterCalling, limiterT, skew, counter, local, byRedis,
                     byLocal>>
rateLimiterOff == limiterState = 0 /\ limiterFailureCount = 0 /\
                  limiterAge = 0 /\ limiterCalling = 0 /\ limiterT = 0 /\
                  skew = 0 /\ counter = 0 /\ local = 0 /\ byRedis = 0 /\
                  byLocal = 0

callLimitsVars == <<horizonClientVars, horizonGuardVars, streamPacingVars,
                    evmProviderPoolVars, rpcBreakerVars, rateLimiterVars>>
apiStreamsVars == <<serverVars, sseVars, grpcVars, sdkVars>>
suiteVars ==
    <<focus, vars, callLimitsVars, apiStreamsVars>>

SuiteInit ==
    /\ focus \in Focus
    /\ Init
    /\ IF focus = "HorizonClient" THEN CallLimits!ClientInit ELSE horizonClientOff
    /\ IF focus = "HorizonGuard" THEN CallLimits!GuardInit ELSE horizonGuardOff
    /\ IF focus = "StreamPacing" THEN CallLimits!PaceInit ELSE streamPacingOff
    /\ IF focus = "EvmProviderPool" THEN CallLimits!PoolInit ELSE evmProviderPoolOff
    /\ IF focus = "RpcBreaker" THEN CallLimits!RpcInit ELSE rpcBreakerOff
    /\ IF focus = "RateLimiter" THEN CallLimits!LimiterInit ELSE rateLimiterOff
    /\ ServerInit /\ SseInit /\ SdkInit
    /\ GrpcInit /\ (focus # "GrpcStream" => scored = <<>>)

HostNext ==
    /\ focus = "CircuitBreaker" /\ Next
    /\ UNCHANGED <<focus, callLimitsVars, apiStreamsVars>>

HorizonClientNext ==
    /\ focus = "HorizonClient" /\ CallLimits!ClientNext
    /\ UNCHANGED <<focus, vars, apiStreamsVars, horizonGuardVars,
                    streamPacingVars, evmProviderPoolVars, rpcBreakerVars,
                    rateLimiterVars>>

HorizonGuardNext ==
    /\ focus = "HorizonGuard" /\ CallLimits!GuardNext
    /\ UNCHANGED <<focus, vars, apiStreamsVars, horizonClientVars,
                    streamPacingVars, evmProviderPoolVars, rpcBreakerVars,
                    rateLimiterVars>>

StreamPacingNext ==
    /\ focus = "StreamPacing" /\ CallLimits!PaceNext
    /\ UNCHANGED <<focus, vars, apiStreamsVars, horizonClientVars,
                    horizonGuardVars, evmProviderPoolVars, rpcBreakerVars,
                    rateLimiterVars>>

EvmProviderPoolNext ==
    /\ focus = "EvmProviderPool" /\ CallLimits!PoolNext
    /\ UNCHANGED <<focus, vars, apiStreamsVars, horizonClientVars,
                    horizonGuardVars, streamPacingVars, rpcBreakerVars,
                    rateLimiterVars>>

RpcBreakerNext ==
    /\ focus = "RpcBreaker" /\ CallLimits!RpcNext
    /\ UNCHANGED <<focus, vars, apiStreamsVars, horizonClientVars,
                    horizonGuardVars, streamPacingVars, evmProviderPoolVars,
                    rateLimiterVars>>

RateLimiterNext ==
    /\ focus = "RateLimiter" /\ CallLimits!LimiterNext
    /\ UNCHANGED <<focus, vars, apiStreamsVars, horizonClientVars,
                    horizonGuardVars, streamPacingVars, evmProviderPoolVars,
                    rpcBreakerVars>>

ApiServerNext ==
    /\ focus = "ApiServer" /\ ServerNext
    /\ UNCHANGED <<focus, vars, callLimitsVars, sseVars,
                    grpcVars, sdkVars>>

SseStreamNext ==
    /\ focus = "SseStream" /\ SseNext
    /\ UNCHANGED <<focus, vars, callLimitsVars, serverVars,
                    grpcVars, sdkVars>>

GrpcStreamNext ==
    /\ focus = "GrpcStream" /\ GrpcNext
    /\ UNCHANGED <<focus, vars, callLimitsVars, serverVars,
                    sseVars, sdkVars>>

AlertStreamClientNext ==
    /\ focus = "AlertStreamClient" /\ SdkNext
    /\ UNCHANGED <<focus, vars, callLimitsVars, serverVars,
                    sseVars, grpcVars>>

SuiteNext ==
    \/ HostNext \/ HorizonClientNext \/ HorizonGuardNext \/
       StreamPacingNext \/ EvmProviderPoolNext \/ RpcBreakerNext \/
       RateLimiterNext \/ ApiServerNext \/ SseStreamNext \/ GrpcStreamNext \/
       AlertStreamClientNext

SuiteSpec ==
    /\ SuiteInit /\ [][SuiteNext]_suiteVars
    \* The breaker: time passes and every call ends.
    /\ WF_vars(focus = "CircuitBreaker" /\ Tick)
    /\ \A c \in Callers :
          /\ WF_vars(focus = "CircuitBreaker" /\ CallAdmitted(c))
          /\ WF_vars(focus = "CircuitBreaker" /\ (RecordSuccess(c) \/ RecordFailure(c)))
    \* The API server: see ServerFairness of ApiStreams.
    /\ \A s \in Sockets :
          /\ WF_serverVars(focus = "ApiServer" /\ Accepted(s))
          /\ WF_serverVars(focus = "ApiServer" /\ AuthRecheck(s))
          /\ WF_serverVars(focus = "ApiServer" /\ AuthDrop(s))
          /\ WF_serverVars(focus = "ApiServer" /\ CloseNext(s))
    /\ WF_serverVars(focus = "ApiServer" /\ CloseResources)

-----------------------------------------------------------------------------
(* Calls are limited as promised, whoever asks: at most Limit requests in a *)
(* window of the rate limiter, also when Redis fails; grants of a stream as *)
(* far apart as its rate; no more than one request past each pause of the   *)
(* Horizon client; consecutive failures of an EVM provider bounded; answers *)
(* of a failing contract node that are errors or were once true; and no     *)
(* Horizon server of an unsupported version accepted.                       *)
CallsAreLimited ==
    /\ focus = "RateLimiter" => CallLimits!LimiterTypeOK /\ CallLimits!WindowIsBounded
    /\ focus = "StreamPacing" => CallLimits!PaceTypeOK /\ CallLimits!PacingHolds
    /\ focus = "HorizonClient" => CallLimits!ClientTypeOK /\ CallLimits!OneLeakPerPause
    /\ focus = "EvmProviderPool" => CallLimits!PoolTypeOK /\ CallLimits!FailuresBounded
    /\ focus = "RpcBreaker" => CallLimits!RpcTypeOK /\ CallLimits!RpcAnswersAreHonest
    /\ focus = "HorizonGuard" => CallLimits!GuardTypeOK /\ CallLimits!VersionsAreChecked
=============================================================================
