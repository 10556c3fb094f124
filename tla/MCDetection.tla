----------------------------- MODULE MCDetection ----------------------------
(*****************************************************************************)
(* What a score is made of: the oracle's quorum on a score and the contracts *)
(* that hold it (ChainContracts) down to their arithmetic                    *)
(* (PairingArithmetic), with the algorithms that find and weigh suspicious   *)
(* trading (RingSearch, TradePatterns, StatisticalSignals, CausalAnalysis,   *)
(* ScoreInference).                                                          *)
(*                                                                           *)
(* A behaviour is about one component, named by focus; the others keep the   *)
(* value they start with.                                                    *)
(*****************************************************************************)
EXTENDS OracleQuorum, Integers, Sequences, FiniteSets

CONSTANT Focus  \* the components whose behaviours a run explores

VARIABLES
    focus,  \* the component a behaviour is about
    admin, store, oracle, proofs, answers, submits, oracleScored, time,
    signed, stored,
    limbA, limbB, limbM, given, curvePt, curveRef, extX, low, high, lm, hm,
    rounds, pc, twistPt, twistRef,
    sccPhase, adj, work, stack, index, lowlink, sccs, limits, kind, graph,
    known, added, cache, answer, shards, workerLimit, edges, owner, count,
    failed, shardRings, stale, plan, hops, timedPhase, todo, cycle, timed, pointers, curMax, best,
    enumerated, seen, timedFound, exhausted,
    pathAdj, totalEdges, walletEdges, walletNodes, seenOps, toCheck,
    found, cycles,
    pathNewest, pathInOrder, arrivals, trades, sandwichInOrder, sessions,
    anomalies, seenKeys, ammNewest, ammInOrder, batches,
    benfordNow, benfordTrades, buf, benfordCounts, temporalTrades,
    temporalNow, model, temporalAnswer, rows, adwinWidth, adwinTotal, fired,
    adwinPc, window, adwinSeen, ph,
    enough, fitted, fits, lock, thread, values, methods, together, requests,
    faults, served, indep, selectionAdj, sep, level, i, removed, selectionPc,
    models, last, shown, sent, out, scoreTrades, file, worker, trainer, saves,
    overlap, corrections, crashes, training

(* A cubic extension, and its elements with a first coordinate 0, 1 or 3. *)
MCModulus == <<-2, 0, 0>>
MCInputs == {<<a, b, c>> \in {0, 1, 3} \X (0 .. 6) \X (0 .. 6) : a # 0 \/ b # 0 \/ c # 0}

(* Graphs: the edges each may have. *)
MCEdges == {<<1, 2>>, <<2, 1>>, <<2, 3>>, <<3, 1>>, <<3, 4>>, <<4, 3>>, <<4, 4>>}
MCTradePairs == {<<1, 2>>, <<2, 1>>, <<2, 3>>, <<3, 1>>, <<3, 4>>}
MCLimits == {[nodes |-> 3, mmap |-> 3, shard |-> FALSE], [nodes |-> 3, mmap |-> 4, shard |-> TRUE],
             [nodes |-> 4, mmap |-> 5, shard |-> FALSE]}
MCShardEdges == {<<1, 2>>, <<2, 3>>, <<3, 4>>, <<4, 1>>}
MCTimedEdges == {<<1, 2>>, <<2, 1>>, <<2, 3>>, <<3, 1>>, <<3, 3>>}
Hop(t, x) == [t |-> t, xlm |-> x]
MCPayments ==
    {<<>>, <<Hop(0, 5)>>, <<Hop(2, 1), Hop(1, 5)>>, <<Hop(1, 5), Hop(0, 1), Hop(4, 5)>>}

(* Routes of path payments, as nodes <<account, asset>>. *)
MCPathNodes == {<<1, 1>>, <<1, 2>>, <<2, 1>>, <<3, 1>>}
Path(src, dst, amount, bridged) ==
    [src |-> src, dst |-> dst, amount |-> amount, bridged |-> bridged]
MCRoutes ==
    {Path(<<1, 1>>, <<2, 1>>, 2, FALSE), Path(<<2, 1>>, <<3, 1>>, 2, TRUE),
     Path(<<3, 1>>, <<1, 1>>, 2, FALSE), Path(<<3, 1>>, <<1, 1>>, 1, FALSE),
     Path(<<1, 2>>, <<2, 1>>, 2, FALSE)}

(* Trades around a sandwich: before, victim, after. *)
Shape(a, p, b, x, m) == [acct |-> a, pool |-> p, buy |-> b, price |-> x, amt |-> m]
MCShapes ==
    {Shape("a", TRUE, TRUE, 10, 10), Shape("a", TRUE, FALSE, 13, 10), Shape("a", TRUE, FALSE, 12, 20),
     Shape("v", TRUE, TRUE, 11, 20), Shape("v", FALSE, TRUE, 11, 20)}

MCPairs == {<<1, 2>>, <<3, 1>>}
MCWeight == [rf |-> 25, xgb |-> 75]
MCCalSets == {[k \in 1 .. 30 |-> 10 * k]}
MCRapsSets ==
    UNION {[1 .. n -> {<<<<6, 3, 1>>, 1>>, <<<<6, 3, 1>>, 2>>, <<<<2, 2, 6>>, 1>>, <<<<4, 4, 2>>, 3>>}] : n \in 1 .. 2}

ChainContracts == INSTANCE ChainContracts WITH
    Q <- 11, NumBits <- 2, MaxScore <- 2, Wallets <- {"w1", "w2"},
    Callers <- {"adm"}, Hashes <- {4}, MaxSubmits <- 2, MaxProofs <- 1,
    Nodes <- {"n1", "n2", "n3"}, Faulty <- {"n3"}, Values <- {1, 2},
    Threshold <- 2, MaxAge <- 1, MaxTime <- 2, scored <- oracleScored

PairingArithmetic == INSTANCE PairingArithmetic WITH
    Limbs <- 2, Bits <- 2, Moduli <- {5, 7}, CurveP <- 7, Order <- 13,
    ExtP <- 7, N <- 3, Modulus <- MCModulus, Inputs <- MCInputs, TwistP <- 7,
    MaxScalar <- 4

RingSearch == INSTANCE RingSearch WITH
    SccNodes <- 1 .. 4, SccEdges <- MCEdges, RingNodes <- 1 .. 4,
    TradePairs <- MCTradePairs, Amounts <- {0, 1}, MaxTrades <- 4,
    Limits <- MCLimits, MaxExactNodes <- 2,
    ShardPossibleEdges <- MCShardEdges, LateEdges <- {<<4, 1>>}, GraphCounts <- {2}, ShardCounts <- {3}, OverlapHops <- 1,
    MinRing <- 2, WorkerLimits <- {4, 5}, MaxCommunities <- 3,
    Accounts <- 1 .. 3, TimedPossibleEdges <- MCTimedEdges,
    Payments <- MCPayments, RootAccounts <- {3}, MaxLength <- 3,
    MaxComponent <- 3, Window <- 2, MinXlm <- 2, MaxCycles <- 2, TimeLimited <- FALSE

TradePatterns == INSTANCE TradePatterns WITH
    Nodes <- MCPathNodes, Routes <- MCRoutes,
    PathWindow <- 0, MaxDepth <- 2, MaxNodesPerWallet <- 1,
    MaxEdgesPerWallet <- 2, MaxGraphEdges <- 3, MinRatio <- 95,
    MinScore <- 60, MaxOps <- 4, PathMaxTime <- 1, MaxHops <- 4,
    Shapes <- MCShapes, MaxTrades <- 4, SandwichMaxTime <- 2,
    SandwichWindow <- 1, MaxLedgerGap <- 1, Slippage <- 0, FeeRate <- 0, PoolFee <- 3,
    MinProfit <- 10, LedgerWindow <- 2, MinVictim <- 10, MinImpact <- 3,
    MinConfidence <- 400, Baseline <- <<1, 2, 3>>, Keys <- {"k1"},
    OpAmounts <- {2}, TradeAmounts <- {40}, Partners <- {"c1"},
    MaxSessions <- 2, MaxTenure <- 2, MinVolumeRatio <- 5, AmmMaxTime <- 2,
    MaxBatches <- 2, adj <- pathAdj

StatisticalSignals == INSTANCE StatisticalSignals WITH
    BenfordAmounts <- {0, 14, 30}, Pairs <- MCPairs, StreamWindows <- {1, 2},
    Unclean <- {3}, RoundedDown <- {30}, KsMinN <- 2, MinSample <- 2, Target <- 1, MaxWidth <- 3, BenfordMaxTrades <- 3,
    BenfordMaxTime <- 2, TemporalAmounts <- {2}, BinWidth <- 1, Bins <- 4,
    FitBins <- 0, MinTrades <- 2, Limit <- 3, Parts <- {100},
    TemporalMaxTrades <- 4, TemporalMaxTime <- 5, Values <- {0, 3},
    MaxBuckets <- 2, MaxValues <- 7, Scale <- 840, Delta <- 2,
    Threshold <- 900, answer <- temporalAnswer, pc <- adwinPc,
    seen <- adwinSeen

CausalAnalysis == INSTANCE CausalAnalysis WITH
    Procs <- {"p1", "p2"}, ThreadIds <- {1, 2}, EffectFeatures <- {"f1"},
    MaxRequests <- 3, MaxFaults <- 1, P <- 3, MaxConditioning <- 1,
    adj <- selectionAdj

ScoreInference == INSTANCE ScoreInference WITH
    Wallets <- {"w1"}, Voters <- {"rf", "xgb"}, Weight <- MCWeight,
    Votes <- {850, 905, 950}, Adversarial <- {0, 80}, QHats <- {10},
    Mads <- {100}, Sandwich <- {<<50, 10>>}, Temporal <- {-1, 20},
    TemporalWeight <- 30, Delta <- 5, MaxTrades <- 3,
    Order <- <<"m1", "m2">>, Workers <- {"w1", "w2"}, CalSets <- MCCalSets,
    RapsSets <- MCRapsSets, Alpha <- 100, Tests <- {200},
    MaxCorrections <- 2, MaxCrashes <- 1, MaxTraining <- 1,
    trades <- scoreTrades

(* The variables of each component, and their value while another one runs. *)
zkThresholdVars == <<admin, store, oracle, proofs, answers, submits>>
zkThresholdOff == admin = 0 /\ store = 0 /\ oracle = 0 /\ proofs = 0 /\
                  answers = 0 /\ submits = 0
oracleContractVars == <<oracleScored, time, signed, stored>>
oracleContractOff == oracleScored = 0 /\ time = 0 /\ signed = 0 /\ stored = 0
limbArithmeticVars == <<limbA, limbB, limbM, given>>
limbArithmeticOff == limbA = 0 /\ limbB = 0 /\ limbM = 0 /\ given = 0
curvePointsVars == <<curvePt, curveRef>>
curvePointsOff == curvePt = 0 /\ curveRef = 0
extensionFieldVars == <<extX, low, high, lm, hm, rounds, pc>>
extensionFieldOff == extX = 0 /\ low = 0 /\ high = 0 /\ lm = 0 /\ hm = 0 /\
                     rounds = 0 /\ pc = 0
twistPointsVars == <<twistPt, twistRef>>
twistPointsOff == twistPt = 0 /\ twistRef = 0
tarjanSccVars == <<sccPhase, adj, work, stack, index, lowlink, sccs>>
tarjanSccOff == sccPhase = 0 /\ adj = 0 /\ work = 0 /\ stack = 0 /\
                index = 0 /\ lowlink = 0 /\ sccs = 0
ringDetectionVars == <<limits, kind, graph, known, added, cache, answer>>
ringDetectionOff == limits = 0 /\ kind = 0 /\ graph = 0 /\ known = 0 /\
                    added = 0 /\ cache = 0 /\ answer = 0
graphShardingVars == <<shards, workerLimit, edges, owner, count, failed,
                       shardRings, stale, plan>>
graphShardingOff == shards = 0 /\ workerLimit = 0 /\ edges = 0 /\ owner = 0 /\
                    count = 0 /\ failed = 0 /\ shardRings = 0 /\ stale = 0 /\
                    plan = 0
timedCyclesVars == <<hops, timedPhase, todo, cycle, timed, pointers, curMax,
                     best, enumerated, seen, timedFound, exhausted>>
timedCyclesOff == hops = 0 /\ timedPhase = 0 /\ todo = 0 /\ cycle = 0 /\
                  timed = 0 /\ pointers = 0 /\ curMax = 0 /\ best = 0 /\
                  enumerated = 0 /\ seen = 0 /\ timedFound = 0 /\
                  exhausted = 0
pathCyclesVars == <<pathAdj, totalEdges, walletEdges, walletNodes, seenOps,
                    toCheck, found, cycles, pathNewest, pathInOrder, arrivals>>
pathCyclesOff == pathAdj = 0 /\ totalEdges = 0 /\ walletEdges = 0 /\
                 walletNodes = 0 /\ seenOps = 0 /\ toCheck = 0 /\
                 found = 0 /\ cycles = 0 /\
                 pathNewest = 0 /\ pathInOrder = 0 /\ arrivals = 0
sandwichDetectionVars == <<trades, sandwichInOrder>>
sandwichDetectionOff == trades = 0 /\ sandwichInOrder = 0
ammSessionsVars == <<sessions, anomalies, seenKeys, ammNewest, ammInOrder,
                     batches>>
ammSessionsOff == sessions = 0 /\ anomalies = 0 /\ seenKeys = 0 /\
                  ammNewest = 0 /\ ammInOrder = 0 /\ batches = 0
benfordEngineVars == <<benfordNow, benfordTrades, buf, benfordCounts>>
benfordEngineOff == benfordNow = 0 /\ benfordTrades = 0 /\ buf = 0 /\
                    benfordCounts = 0
temporalPatternsVars == <<temporalTrades, temporalNow, model, temporalAnswer>>
temporalPatternsOff == temporalTrades = 0 /\ temporalNow = 0 /\ model = 0 /\
                       temporalAnswer = 0
driftDetectorsVars == <<rows, adwinWidth, adwinTotal, fired, adwinPc, window,
                        adwinSeen, ph>>
driftDetectorsOff == rows = 0 /\ adwinWidth = 0 /\ adwinTotal = 0 /\
                     fired = 0 /\ adwinPc = 0 /\ window = 0 /\
                     adwinSeen = 0 /\ ph = 0
causalExplanationVars == <<enough, fitted, fits, lock, thread, values,
                           methods, together, requests, faults, served>>
causalExplanationOff == enough = 0 /\ fitted = 0 /\ fits = 0 /\ lock = 0 /\
                        thread = 0 /\ values = 0 /\ methods = 0 /\
                        together = 0 /\ requests = 0 /\ faults = 0 /\
                        served = 0
causalSelectionVars == <<indep, selectionAdj, sep, level, i, removed,
                         selectionPc>>
causalSelectionOff == indep = 0 /\ selectionAdj = 0 /\ sep = 0 /\
                      level = 0 /\ i = 0 /\ removed = 0 /\ selectionPc = 0
inferenceVars == <<models, last, shown, sent, out, scoreTrades>>
inferenceOff == models = 0 /\ last = 0 /\ shown = 0 /\ sent = 0 /\ out = 0 /\
                scoreTrades = 0
conformalVars == <<file, worker, trainer, saves, overlap, corrections,
                   crashes, training>>
conformalOff == file = 0 /\ worker = 0 /\ trainer = 0 /\ saves = 0 /\ overlap = 0 /\
                corrections = 0 /\ crashes = 0 /\ training = 0

chainContractsVars == <<zkThresholdVars, oracleContractVars>>
pairingArithmeticVars == <<limbArithmeticVars, curvePointsVars,
                           extensionFieldVars, twistPointsVars>>
ringSearchVars == <<tarjanSccVars, ringDetectionVars, graphShardingVars,
                    timedCyclesVars>>
tradePatternsVars == <<pathCyclesVars, sandwichDetectionVars, ammSessionsVars>>
statisticalSignalsVars == <<benfordEngineVars, temporalPatternsVars,
                            driftDetectorsVars>>
causalAnalysisVars == <<causalExplanationVars, causalSelectionVars>>
scoreInferenceVars == <<inferenceVars, conformalVars>>
suiteVars ==
    <<focus, vars, chainContractsVars, pairingArithmeticVars, ringSearchVars,
      tradePatternsVars, statisticalSignalsVars, causalAnalysisVars,
      scoreInferenceVars>>

SuiteInit ==
    /\ focus \in Focus
    /\ Init
    /\ IF focus = "ZkThreshold" THEN ChainContracts!ZkInit ELSE zkThresholdOff
    /\ IF focus = "OracleContract" THEN ChainContracts!OracleInit ELSE oracleContractOff
    /\ IF focus = "LimbArithmetic" THEN PairingArithmetic!LimbInit ELSE limbArithmeticOff
    /\ IF focus = "CurvePoints" THEN PairingArithmetic!CurveInit ELSE curvePointsOff
    /\ IF focus = "ExtensionField" THEN PairingArithmetic!ExtInit ELSE extensionFieldOff
    /\ IF focus = "TwistPoints" THEN PairingArithmetic!TwistInit ELSE twistPointsOff
    /\ IF focus = "TarjanScc" THEN RingSearch!SccInit ELSE tarjanSccOff
    /\ IF focus = "RingDetection" THEN RingSearch!RingInit ELSE ringDetectionOff
    /\ IF focus = "GraphSharding" THEN RingSearch!ShardInit ELSE graphShardingOff
    /\ IF focus = "TimedCycles" THEN RingSearch!TimedInit ELSE timedCyclesOff
    /\ IF focus = "PathCycles" THEN TradePatterns!PathInit ELSE pathCyclesOff
    /\ IF focus = "SandwichDetection" THEN TradePatterns!SandwichInit ELSE sandwichDetectionOff
    /\ IF focus = "AmmSessions" THEN TradePatterns!AmmInit ELSE ammSessionsOff
    /\ IF focus = "BenfordEngine" THEN StatisticalSignals!BenfordInit ELSE benfordEngineOff
    /\ IF focus = "TemporalPatterns" THEN StatisticalSignals!TemporalInit ELSE temporalPatternsOff
    /\ IF focus = "DriftDetectors" THEN StatisticalSignals!AdwinInit ELSE driftDetectorsOff
    /\ IF focus = "CausalExplanation" THEN CausalAnalysis!EffectInit ELSE causalExplanationOff
    /\ IF focus = "CausalSelection" THEN CausalAnalysis!SelectionInit ELSE causalSelectionOff
    /\ IF focus = "Inference" THEN ScoreInference!ScoreInit ELSE inferenceOff
    /\ IF focus = "Conformal" THEN ScoreInference!IntervalInit ELSE conformalOff

HostNext ==
    /\ focus = "OracleQuorum" /\ Next
    /\ UNCHANGED <<focus, chainContractsVars, pairingArithmeticVars,
                    ringSearchVars, tradePatternsVars,
                    statisticalSignalsVars, causalAnalysisVars,
                    scoreInferenceVars>>

ZkThresholdNext ==
    /\ focus = "ZkThreshold" /\ ChainContracts!ZkNext
    /\ UNCHANGED <<focus, vars, pairingArithmeticVars, ringSearchVars,
                    tradePatternsVars, statisticalSignalsVars,
                    causalAnalysisVars, scoreInferenceVars,
                    oracleContractVars>>

OracleContractNext ==
    /\ focus = "OracleContract" /\ ChainContracts!OracleNext
    /\ UNCHANGED <<focus, vars, pairingArithmeticVars, ringSearchVars,
                    tradePatternsVars, statisticalSignalsVars,
                    causalAnalysisVars, scoreInferenceVars, zkThresholdVars>>

LimbArithmeticNext ==
    /\ focus = "LimbArithmetic" /\ PairingArithmetic!LimbNext
    /\ UNCHANGED <<focus, vars, chainContractsVars, ringSearchVars,
                    tradePatternsVars, statisticalSignalsVars,
                    causalAnalysisVars, scoreInferenceVars, curvePointsVars,
                    extensionFieldVars, twistPointsVars>>

CurvePointsNext ==
    /\ focus = "CurvePoints" /\ PairingArithmetic!CurveNext
    /\ UNCHANGED <<focus, vars, chainContractsVars, ringSearchVars,
                    tradePatternsVars, statisticalSignalsVars,
                    causalAnalysisVars, scoreInferenceVars,
                    limbArithmeticVars, extensionFieldVars, twistPointsVars>>

ExtensionFieldNext ==
    /\ focus = "ExtensionField" /\ PairingArithmetic!ExtNext
    /\ UNCHANGED <<focus, vars, chainContractsVars, ringSearchVars,
                    tradePatternsVars, statisticalSignalsVars,
                    causalAnalysisVars, scoreInferenceVars,
                    limbArithmeticVars, curvePointsVars, twistPointsVars>>

TwistPointsNext ==
    /\ focus = "TwistPoints" /\ PairingArithmetic!TwistNext
    /\ UNCHANGED <<focus, vars, chainContractsVars, ringSearchVars,
                    tradePatternsVars, statisticalSignalsVars,
                    causalAnalysisVars, scoreInferenceVars,
                    limbArithmeticVars, curvePointsVars, extensionFieldVars>>

TarjanSccNext ==
    /\ focus = "TarjanScc" /\ RingSearch!SccNext
    /\ UNCHANGED <<focus, vars, chainContractsVars, pairingArithmeticVars,
                    tradePatternsVars, statisticalSignalsVars,
                    causalAnalysisVars, scoreInferenceVars,
                    ringDetectionVars, graphShardingVars, timedCyclesVars>>

RingDetectionNext ==
    /\ focus = "RingDetection" /\ RingSearch!RingNext
    /\ UNCHANGED <<focus, vars, chainContractsVars, pairingArithmeticVars,
                    tradePatternsVars, statisticalSignalsVars,
                    causalAnalysisVars, scoreInferenceVars, tarjanSccVars,
                    graphShardingVars, timedCyclesVars>>

GraphShardingNext ==
    /\ focus = "GraphSharding" /\ RingSearch!ShardNext
    /\ UNCHANGED <<focus, vars, chainContractsVars, pairingArithmeticVars,
                    tradePatternsVars, statisticalSignalsVars,
                    causalAnalysisVars, scoreInferenceVars, tarjanSccVars,
                    ringDetectionVars, timedCyclesVars>>

TimedCyclesNext ==
    /\ focus = "TimedCycles" /\ RingSearch!TimedNext
    /\ UNCHANGED <<focus, vars, chainContractsVars, pairingArithmeticVars,
                    tradePatternsVars, statisticalSignalsVars,
                    causalAnalysisVars, scoreInferenceVars, tarjanSccVars,
                    ringDetectionVars, graphShardingVars>>

PathCyclesNext ==
    /\ focus = "PathCycles" /\ TradePatterns!PathNext
    /\ UNCHANGED <<focus, vars, chainContractsVars, pairingArithmeticVars,
                    ringSearchVars, statisticalSignalsVars,
                    causalAnalysisVars, scoreInferenceVars,
                    sandwichDetectionVars, ammSessionsVars>>

SandwichDetectionNext ==
    /\ focus = "SandwichDetection" /\ TradePatterns!SandwichNext
    /\ UNCHANGED <<focus, vars, chainContractsVars, pairingArithmeticVars,
                    ringSearchVars, statisticalSignalsVars,
                    causalAnalysisVars, scoreInferenceVars, pathCyclesVars,
                    ammSessionsVars>>

AmmSessionsNext ==
    /\ focus = "AmmSessions" /\ TradePatterns!AmmNext
    /\ UNCHANGED <<focus, vars, chainContractsVars, pairingArithmeticVars,
                    ringSearchVars, statisticalSignalsVars,
                    causalAnalysisVars, scoreInferenceVars, pathCyclesVars,
                    sandwichDetectionVars>>

BenfordEngineNext ==
    /\ focus = "BenfordEngine" /\ StatisticalSignals!BenfordNext
    /\ UNCHANGED <<focus, vars, chainContractsVars, pairingArithmeticVars,
                    ringSearchVars, tradePatternsVars, causalAnalysisVars,
                    scoreInferenceVars, temporalPatternsVars,
                    driftDetectorsVars>>

TemporalPatternsNext ==
    /\ focus = "TemporalPatterns" /\ StatisticalSignals!TemporalNext
    /\ UNCHANGED <<focus, vars, chainContractsVars, pairingArithmeticVars,
                    ringSearchVars, tradePatternsVars, causalAnalysisVars,
                    scoreInferenceVars, benfordEngineVars, driftDetectorsVars>>

DriftDetectorsNext ==
    /\ focus = "DriftDetectors" /\ StatisticalSignals!AdwinNext
    /\ UNCHANGED <<focus, vars, chainContractsVars, pairingArithmeticVars,
                    ringSearchVars, tradePatternsVars, causalAnalysisVars,
                    scoreInferenceVars, benfordEngineVars,
                    temporalPatternsVars>>

CausalExplanationNext ==
    /\ focus = "CausalExplanation" /\ CausalAnalysis!EffectNext
    /\ UNCHANGED <<focus, vars, chainContractsVars, pairingArithmeticVars,
                    ringSearchVars, tradePatternsVars,
                    statisticalSignalsVars, scoreInferenceVars,
                    causalSelectionVars>>

CausalSelectionNext ==
    /\ focus = "CausalSelection" /\ CausalAnalysis!SelectionNext
    /\ UNCHANGED <<focus, vars, chainContractsVars, pairingArithmeticVars,
                    ringSearchVars, tradePatternsVars,
                    statisticalSignalsVars, scoreInferenceVars,
                    causalExplanationVars>>

InferenceNext ==
    /\ focus = "Inference" /\ ScoreInference!ScoreNext
    /\ UNCHANGED <<focus, vars, chainContractsVars, pairingArithmeticVars,
                    ringSearchVars, tradePatternsVars,
                    statisticalSignalsVars, causalAnalysisVars, conformalVars>>

ConformalNext ==
    /\ focus = "Conformal" /\ ScoreInference!IntervalNext
    /\ UNCHANGED <<focus, vars, chainContractsVars, pairingArithmeticVars,
                    ringSearchVars, tradePatternsVars,
                    statisticalSignalsVars, causalAnalysisVars, inferenceVars>>

SuiteNext ==
    \/ HostNext \/ ZkThresholdNext \/ OracleContractNext \/
       LimbArithmeticNext \/ CurvePointsNext \/ ExtensionFieldNext \/
       TwistPointsNext \/ TarjanSccNext \/ RingDetectionNext \/
       GraphShardingNext \/ TimedCyclesNext \/ PathCyclesNext \/
       SandwichDetectionNext \/ AmmSessionsNext \/ BenfordEngineNext \/
       TemporalPatternsNext \/ DriftDetectorsNext \/ CausalExplanationNext \/
       CausalSelectionNext \/ InferenceNext \/ ConformalNext

SuiteSpec ==
    /\ SuiteInit /\ [][SuiteNext]_suiteVars

-----------------------------------------------------------------------------
(* The chain holds what honest parties put there: a score a quorum of the   *)
(* oracle's nodes signed, a proof bound to the commitment it is about, and  *)
(* arithmetic whose results are those of the fields and curves it claims.   *)
ContractsAreHonest ==
    /\ focus = "ZkThreshold" => ChainContracts!ZkTypeOK /\ ChainContracts!AcceptedIsBound
    /\ focus = "OracleContract" => ChainContracts!OracleTypeOK /\ ChainContracts!ChainScoreIsHonest
    /\ focus = "LimbArithmetic" => PairingArithmetic!LimbTypeOK /\ PairingArithmetic!LimbsAreExact
    /\ focus = "CurvePoints" => PairingArithmetic!CurveTypeOK /\ PairingArithmetic!GroupLawHolds
    /\ focus = "ExtensionField" => PairingArithmetic!ExtTypeOK /\ PairingArithmetic!InverseIsExact
    /\ focus = "TwistPoints" => PairingArithmetic!TwistTypeOK /\ PairingArithmetic!SumsStayOnTwist

(* Detection finds what is there and nothing else: components, rings and    *)
(* cycles are those of the graph, sharded or cached; the fast pass and the  *)
(* slow one agree; statistics are those of the trades in their windows.     *)
DetectionIsSound ==
    /\ focus = "TarjanScc" => RingSearch!SccTypeOK /\ RingSearch!ComponentsAreExact
    /\ focus = "RingDetection" => RingSearch!RingTypeOK /\ RingSearch!RingsAreTrue
    /\ focus = "GraphSharding" => RingSearch!ShardTypeOK /\ RingSearch!ShardingLosesNothing
    /\ focus = "TimedCycles" => RingSearch!CyclesAreTight
    /\ focus = "PathCycles" => TradePatterns!PathTypeOK /\ TradePatterns!PathCyclesAreSound
    /\ focus = "SandwichDetection" => TradePatterns!SandwichTypeOK /\ TradePatterns!DetectorsAgree
    /\ focus = "AmmSessions" => TradePatterns!AmmTypeOK /\ TradePatterns!SessionsAreSound
    /\ focus = "BenfordEngine" => StatisticalSignals!BenfordTypeOK /\ StatisticalSignals!BenfordIsConsistent
    /\ focus = "TemporalPatterns" => StatisticalSignals!TemporalTypeOK /\ StatisticalSignals!AnalysisIsSound
    /\ focus = "DriftDetectors" => StatisticalSignals!AdwinTypeOK /\ StatisticalSignals!WindowIsExact

(* A second pass over the trades finds the sandwiches the first one found.  *)
PassesAgree == [][focus = "SandwichDetection" => TradePatterns!PassesAgreeStep]_suiteVars

(* A score and what is said about it belong together: weights and overrides *)
(* as documented, an interval that covers what it was calibrated on, an     *)
(* explanation by the graph that was fitted, features kept with a reason.   *)
ScoresAreSound ==
    /\ focus = "Inference" => ScoreInference!ScoreTypeOK /\ ScoreInference!InferenceIsSound
    /\ focus = "Conformal" => ScoreInference!IntervalTypeOK /\ ScoreInference!CalibrationIsSound
    /\ focus = "CausalExplanation" => CausalAnalysis!EffectTypeOK /\ CausalAnalysis!ExplanationsAreHonest
    /\ focus = "CausalSelection" => CausalAnalysis!SelectionTypeOK /\ CausalAnalysis!SelectionIsJustified

(* "verify_threshold's proof argument is the fixed-layout encoding produced *)
(* by detection/zk_prover.py::serialize_proof_bytes" (zk_verifier lib.rs):  *)
(* the proof of the commitment that is on chain is accepted.                *)
HonestProofVerifies == focus = "ZkThreshold" => ChainContracts!HonestProofVerifies

(* "Scalar multiplication" (zk_verifier pairing.rs): n times a point of the *)
(* twist is the point added n times.                                        *)
ScalarIsMultiple == focus = "TwistPoints" => PairingArithmetic!ScalarIsMultiple
=============================================================================
