----------------------------- MODULE MCIngestion ----------------------------
(*****************************************************************************)
(* From a source to the windows: the checkpoint of a stream, with the        *)
(* sources trades are read from (TradeSources), the queues they pass         *)
(* (TradeQueues), the windows they are counted in (FeatureWindows) and the   *)
(* buffers and the bus of their events (EventFlow).                          *)
(*                                                                           *)
(* A behaviour is about one component, named by focus; the others keep the   *)
(* value they start with.                                                    *)
(*****************************************************************************)
EXTENDS StreamCheckpoint, EventFlow, Integers, Sequences, FiniteSets

CONSTANT Focus  \* the components whose behaviours a run explores

VARIABLES
    focus,  \* the component a behaviour is about
    ledger, loadNow, loadStored, loadSeen, file, tracker, task, early, loads,
    faults, balances, timed, dedup, at, swap, redis, redisUp, fallback, left,
    got, keys, news, returned, solanaLost, calls, solanaNow, route, amounts,
    hopLost, fetched, recent, known,
    strategy, intakeDedup, bad, intakeHead, intakePc, running, intakeLink,
    intakePos, intakeCursor, intakeSaved, intakeEvents, hand, queue,
    intakeSeen, taken, dropped, excused, abandoned, intakeExits, letterRow,
    asked, filing, doing, handled, letterFailed, alerted, crashes,
    filterFile, loader, lastMtime, pipe, timers, stopped, lateReloads, apply,
    verdict, rejections, edited, written, edits, trades, now,
    aggregateKnown, windows, total, partners, newest, ordered, aggregateSeen,
    windowNow, windowWindow, windowLast, windowRow, offered, accepted

(* Files of filters, and trades that fall on either side of each filter. *)
MCConfigs ==
    {<<>>,
     <<[kind |-> "asset_pair_whitelist", pairs |-> {"a"}], [kind |-> "minimum_volume", min |-> 2]>>,
     <<[kind |-> "asset_pair_blacklist", pairs |-> {"a"}],
       [kind |-> "asset_type", types |-> {"native"}],
       [kind |-> "account_exclusion", accounts |-> {"x"}]>>}
MCTrades ==
    {[pair |-> "a", volume |-> 1, types |-> {"native"}, accounts |-> {"y"}],
     [pair |-> "b", volume |-> 2, types |-> {"native"}, accounts |-> {"x"}],
     [pair |-> "a", volume |-> 3, types |-> {"native", "credit_alphanum4"}, accounts |-> {"y"}]}

TradeSources == INSTANCE TradeSources WITH
    ChunkHours <- 1, LastHour <- 1, Keys <- {"k1", "k2"},
    Procs <- {"p1", "p2"}, Concurrency <- 1, PageSize <- 1, MaxTrades <- 2,
    MaxLoads <- 2, MaxFaults <- 1, Owners <- {"a", "b"}, Mints <- {"x", "y"},
    Deltas <- {-1, 0, 1}, MaxAccounts <- 3, Sigs <- {"s1", "s2"},
    Adapters <- {"a1", "a2"}, ReplayWindow <- 1, TTL <- 1, MaxKeys <- 1,
    MaxTime <- 3, MaxCalls <- 2, Assets <- {"x", "y"}, MaxHops <- 1,
    MaxPath <- 2, seen <- loadSeen, stored <- loadStored, up <- redisUp

TradeQueues == INSTANCE TradeQueues WITH
    IntakeMaxTrades <- 2, Depth <- 1, IntakeMaxEvents <- 2, MaxExits <- 1,
    LetterReplayers <- {"r1", "r2"}, MaxEntries <- 1, MaxFailures <- 2,
    MaxCrashes <- 1, Configs <- MCConfigs, FilterTrades <- MCTrades,
    MaxEdits <- 2, FilterMaxTrades <- 1, MaxTime <- 2,
    dedup <- intakeDedup, head <- intakeHead, link <- intakeLink,
    pos <- intakePos, saved <- intakeSaved, events <- intakeEvents,
    seen <- intakeSeen, exits <- intakeExits, row <- letterRow,
    file <- filterFile

FeatureWindows == INSTANCE FeatureWindows WITH
    Wallets <- {"w1", "w2"}, Amounts <- {0, 12}, AggregateMaxTime <- 2,
    ShortWindow <- 1, LongWindow <- 2, RecentLegs <- 3, MaxLookback <- 1,
    AggregateMaxTrades <- 3, Tolerance <- 2, MaxSize <- 2,
    WindowMaxTime <- 4, WindowMaxTrades <- 3, known <- aggregateKnown,
    seen <- aggregateSeen, now <- windowNow, window <- windowWindow,
    last <- windowLast, row <- windowRow

(* The variables of each component, and their value while another one runs. *)
historicalLoadVars == <<ledger, loadNow, loadStored, loadSeen, file, tracker,
                        task, early, loads, faults>>
historicalLoadOff == ledger = 0 /\ loadNow = 0 /\ loadStored = 0 /\
                     loadSeen = 0 /\ file = 0 /\ tracker = 0 /\ task = 0 /\
                     early = 0 /\ loads = 0 /\ faults = 0
solanaSwapsVars == <<balances, timed>>
solanaSwapsOff == balances = 0 /\ timed = 0
solanaIngestVars == <<dedup, at, swap, redis, redisUp, fallback, left, got, keys,
                      news, returned, solanaLost, calls, solanaNow>>
solanaIngestOff == dedup = 0 /\ at = 0 /\ swap = 0 /\ redis = 0 /\ redisUp = 0 /\
                   fallback = 0 /\ left = 0 /\ got = 0 /\ keys = 0 /\
                   news = 0 /\ returned = 0 /\ solanaLost = 0 /\ calls = 0 /\
                   solanaNow = 0
pathPaymentHopsVars == <<route, amounts, hopLost, fetched, recent, known>>
pathPaymentHopsOff == route = 0 /\ amounts = 0 /\ hopLost = 0 /\
                      fetched = 0 /\ recent = 0 /\ known = 0
tradeIntakeVars == <<strategy, intakeDedup, bad, intakeHead, intakePc,
                     running, intakeLink, intakePos, intakeCursor,
                     intakeSaved, intakeEvents, hand, queue, intakeSeen,
                     taken, dropped, excused, abandoned, intakeExits>>
tradeIntakeOff == strategy = 0 /\ intakeDedup = 0 /\ bad = 0 /\
                  intakeHead = 0 /\ intakePc = 0 /\ running = 0 /\
                  intakeLink = 0 /\ intakePos = 0 /\ intakeCursor = 0 /\
                  intakeSaved = 0 /\ intakeEvents = 0 /\ hand = 0 /\
                  queue = 0 /\ intakeSeen = 0 /\ taken = 0 /\ dropped = 0 /\
                  excused = 0 /\ abandoned = 0 /\ intakeExits = 0
tradeDLQVars == <<letterRow, asked, filing, doing, handled, letterFailed,
                  alerted, crashes>>
tradeDLQOff == letterRow = 0 /\ asked = 0 /\ filing = 0 /\ doing = 0 /\
               handled = 0 /\ letterFailed = 0 /\ alerted = 0 /\ crashes = 0
tradeFiltersVars == <<filterFile, loader, lastMtime, pipe, timers, stopped,
                      lateReloads, apply, verdict, rejections, edited,
                      written, edits, trades, now>>
tradeFiltersOff == filterFile = 0 /\ loader = 0 /\ lastMtime = 0 /\
                   pipe = 0 /\ timers = 0 /\ stopped = 0 /\
                   lateReloads = 0 /\ apply = 0 /\ verdict = 0 /\
                   rejections = 0 /\ edited = 0 /\ written = 0 /\
                   edits = 0 /\ trades = 0 /\ now = 0
streamingFeaturesVars == <<aggregateKnown, windows, total, partners, newest,
                           ordered, aggregateSeen>>
streamingFeaturesOff == aggregateKnown = 0 /\ windows = 0 /\ total = 0 /\
                        partners = 0 /\ newest = 0 /\ ordered = 0 /\
                        aggregateSeen = 0
walletWindowVars == <<windowNow, windowWindow, windowLast, windowRow,
                      offered, accepted>>
walletWindowOff == windowNow = 0 /\ windowWindow = 0 /\ windowLast = 0 /\
                   windowRow = 0 /\ offered = 0 /\ accepted = 0

tradeSourcesVars == <<historicalLoadVars, solanaSwapsVars, solanaIngestVars,
                      pathPaymentHopsVars>>
tradeQueuesVars == <<tradeIntakeVars, tradeDLQVars, tradeFiltersVars>>
eventFlowVars == <<replayVars, busVars, pipeVars>>
featureWindowsVars == <<streamingFeaturesVars, walletWindowVars>>
suiteVars ==
    <<focus, vars, tradeSourcesVars, tradeQueuesVars, eventFlowVars, featureWindowsVars>>

SuiteInit ==
    /\ focus \in Focus
    /\ Init
    /\ IF focus = "HistoricalLoad" THEN TradeSources!LoadInit ELSE historicalLoadOff
    /\ IF focus = "SolanaSwaps" THEN TradeSources!SwapInit ELSE solanaSwapsOff
    /\ IF focus = "SolanaIngest" THEN TradeSources!SolanaInit ELSE solanaIngestOff
    /\ IF focus = "PathPaymentHops" THEN TradeSources!HopInit ELSE pathPaymentHopsOff
    /\ IF focus = "TradeIntake" THEN TradeQueues!IntakeInit ELSE tradeIntakeOff
    /\ IF focus = "TradeDLQ" THEN TradeQueues!LetterInit ELSE tradeDLQOff
    /\ IF focus = "TradeFilters" THEN TradeQueues!FilterInit ELSE tradeFiltersOff
    /\ IF focus = "StreamingFeatures" THEN FeatureWindows!AggregateInit ELSE streamingFeaturesOff
    /\ IF focus = "WalletWindow" THEN FeatureWindows!WindowInit ELSE walletWindowOff
    /\ ReplayInit /\ BusInit /\ PipeInit
    \* One of the settings where they play no part.
    /\ focus # "StreamCheckpoint" => legacy = None
    /\ focus # "EventBus" => backend = "kafka" /\ up
    /\ focus # "ScoringPipeline" => mode = "run" /\ ~submit /\ high = {}

HostNext ==
    /\ focus = "StreamCheckpoint" /\ Next
    /\ UNCHANGED <<focus, eventFlowVars, tradeSourcesVars, tradeQueuesVars,
                    featureWindowsVars>>

HistoricalLoadNext ==
    /\ focus = "HistoricalLoad" /\ TradeSources!LoadNext
    /\ UNCHANGED <<focus, vars, eventFlowVars, tradeQueuesVars, featureWindowsVars,
                    solanaSwapsVars, solanaIngestVars, pathPaymentHopsVars>>

SolanaSwapsNext ==
    /\ focus = "SolanaSwaps" /\ TradeSources!SwapNext
    /\ UNCHANGED <<focus, vars, eventFlowVars, tradeQueuesVars, featureWindowsVars,
                    historicalLoadVars, solanaIngestVars, pathPaymentHopsVars>>

SolanaIngestNext ==
    /\ focus = "SolanaIngest" /\ TradeSources!SolanaNext
    /\ UNCHANGED <<focus, vars, eventFlowVars, tradeQueuesVars, featureWindowsVars,
                    historicalLoadVars, solanaSwapsVars, pathPaymentHopsVars>>

PathPaymentHopsNext ==
    /\ focus = "PathPaymentHops" /\ TradeSources!HopNext
    /\ UNCHANGED <<focus, vars, eventFlowVars, tradeQueuesVars, featureWindowsVars,
                    historicalLoadVars, solanaSwapsVars, solanaIngestVars>>

TradeIntakeNext ==
    /\ focus = "TradeIntake" /\ TradeQueues!IntakeNext
    /\ UNCHANGED <<focus, vars, eventFlowVars, tradeSourcesVars, featureWindowsVars, tradeDLQVars, tradeFiltersVars>>

ReplayBufferNext ==
    /\ focus = "ReplayBuffer" /\ ReplayNext
    /\ UNCHANGED <<focus, vars, tradeSourcesVars, tradeQueuesVars,
                    featureWindowsVars, busVars, pipeVars>>

TradeDLQNext ==
    /\ focus = "TradeDLQ" /\ TradeQueues!LetterNext
    /\ UNCHANGED <<focus, vars, eventFlowVars, tradeSourcesVars, featureWindowsVars,
                    tradeIntakeVars, tradeFiltersVars>>

TradeFiltersNext ==
    /\ focus = "TradeFilters" /\ TradeQueues!FilterNext
    /\ UNCHANGED <<focus, vars, eventFlowVars, tradeSourcesVars, featureWindowsVars,
                    tradeIntakeVars, tradeDLQVars>>

EventBusNext ==
    /\ focus = "EventBus" /\ BusNext
    /\ UNCHANGED <<focus, vars, tradeSourcesVars, tradeQueuesVars,
                    featureWindowsVars, replayVars, pipeVars>>

ScoringPipelineNext ==
    /\ focus = "ScoringPipeline" /\ PipeNext
    /\ UNCHANGED <<focus, vars, tradeSourcesVars, tradeQueuesVars,
                    featureWindowsVars, replayVars, busVars>>

StreamingFeaturesNext ==
    /\ focus = "StreamingFeatures" /\ FeatureWindows!AggregateNext
    /\ UNCHANGED <<focus, vars, eventFlowVars, tradeSourcesVars, tradeQueuesVars,
                    walletWindowVars>>

WalletWindowNext ==
    /\ focus = "WalletWindow" /\ FeatureWindows!WindowNext
    /\ UNCHANGED <<focus, vars, eventFlowVars, tradeSourcesVars, tradeQueuesVars,
                    streamingFeaturesVars>>

SuiteNext ==
    \/ HostNext \/ HistoricalLoadNext \/ SolanaSwapsNext \/
       SolanaIngestNext \/ PathPaymentHopsNext \/ TradeIntakeNext \/
       ReplayBufferNext \/ TradeDLQNext \/ TradeFiltersNext \/
       EventBusNext \/ ScoringPipelineNext \/ StreamingFeaturesNext \/
       WalletWindowNext

SuiteSpec ==
    /\ SuiteInit /\ [][SuiteNext]_suiteVars
    \* A supervisor restarts the command, its loop runs, and Horizon answers.
    /\ WF_vars(focus = "StreamCheckpoint" /\ Start)
    /\ WF_vars(focus = "StreamCheckpoint" /\ Connect)
    /\ WF_vars(focus = "StreamCheckpoint" /\ AddTrade)
    /\ WF_vars(focus = "StreamCheckpoint" /\ Advance)
    /\ WF_vars(focus = "StreamCheckpoint" /\ pc = "resume" /\ Fail)
    /\ WF_vars(focus = "StreamCheckpoint" /\ pc = "yielded" /\ CleanExit)
    /\ WF_vars(focus = "StreamCheckpoint" /\ Deliver)

-----------------------------------------------------------------------------
(* A window is what its trades make it: in the order of their times, with   *)
(* the totals of the trades still inside it, of trades the filters in force *)
(* let through.                                                             *)
WindowsAreExact ==
    /\ focus = "WalletWindow" => FeatureWindows!WindowTypeOK /\ FeatureWindows!GetIsOrderedAndComplete
    /\ focus = "StreamingFeatures" =>
          FeatureWindows!AggregateTypeOK /\ FeatureWindows!AggregatesMatchTrades
    /\ focus = "TradeFilters" => TradeQueues!FilterTypeOK /\ TradeQueues!FiltersFollowTheFile

(* Every trade of a source is stored, waiting, or accounted for: behind the *)
(* checkpoint, as a dead letter with its reason, or in a chunk not complete.*)
TradesAreAccounted ==
    /\ focus = "TradeIntake" => TradeQueues!IntakeTypeOK /\ TradeQueues!BehindCheckpointIsAccounted
    /\ focus = "TradeDLQ" => TradeQueues!LetterTypeOK /\ TradeQueues!StatusHasItsReason
    /\ focus = "HistoricalLoad" => TradeSources!LoadTypeOK /\ TradeSources!CompleteMeansStored
    /\ focus = "SolanaSwaps" => TradeSources!TradesAreTrue
    /\ focus = "SolanaIngest" => TradeSources!SolanaTypeOK /\ TradeSources!NewOncePerLifetime
    /\ focus = "PathPaymentHops" => TradeSources!HopsAreTheRoute

(* "Return True when ``trade`` is new; records it in the dedup store."      *)
(* (solana_adapter.py): a new trade is returned by the ingest that saw it.  *)
NewTradeIsReturned == focus = "SolanaIngest" => TradeSources!NewTradeIsReturned
=============================================================================
