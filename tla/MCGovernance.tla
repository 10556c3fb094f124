---------------------------- MODULE MCGovernance ----------------------------
(*****************************************************************************)
(* What may change at run time: the proposals of governance, with the        *)
(* administration of a running system (Administration), the models that go   *)
(* live (ModelLifecycle) and the rounds of federated learning                *)
(* (FederatedLearning).                                                      *)
(*                                                                           *)
(* A behaviour is about one component, named by focus; the others keep the   *)
(* value they start with.                                                    *)
(*****************************************************************************)
EXTENDS Governance, Integers, Sequences, FiniteSets

CONSTANT Focus  \* the components whose behaviours a run explores

VARIABLES
    focus,  \* the component a behaviour is about
    tokens, known, audit, call, effects, jobs, adminNow, adminFaults,
    commits, counter, client, configCache, thread, overlap, answer, bumped,
    configNow, configFaults, inode, path, tmp, writer, reader, loadedCache,
    used, touched, loadedNow, reads, feedback, history, weights, day, updates,
    registryFile, latest, op, cut, dangling, registryOps, retrainLive,
    retrainFile, meta, reports, retrainRuns, job, candidate, trained,
    retrainDied, overlapped, canaryRows, canaryRuns, means, loss, data, run,
    ckpt, lstmFile, lstmSum, lstm, saved, lstmRuns, reloads, stage, ts,
    believed, rest, cal, train, test, random, hour, driftOps, snaps,
    recorded, driftAlerts, pc, raced, told, driftDied, trend, labels,
    degraded,
    admission, registered, roundHistory, update, pending, roundId, rounds,
    wedged, roundStage, auto, roundAudit, released, failures, roundLabels,
    fl, based, torn, robustStage, robustG, bad, order, trimmed, w, cap,
    capped, protocol, secret, mask, reported, sum, total, share, received,
    repeats

Administration == INSTANCE Administration WITH
    AdminWorkers <- {"w1", "w2"}, Calls <- {"q1", "q2"},
    Actions <- {"config", "retrain"}, ElevationTTL <- 1, MaxTokens <- 1,
    MaxEntries <- 3, AdminMaxFaults <- 1, AdminMaxTime <- 1,
    Threads <- {<<"p1", 1>>, <<"p2", 1>>}, TTL <- 1, MaxWrites <- 1,
    ConfigMaxFaults <- 1, ConfigMaxTime <- 2, Writers <- {"w1", "w2"},
    Readers <- {"r1"}, MaxInodes <- 3, LoadedMaxTime <- 2, MaxReads <- 3,
    Models <- {"a", "b", "c"}, WeightWorkers <- {"w1"}, One <- 6000,
    MinWeight <- 600, MaxWeight <- 3600, MaxDelta <- 1200, Alpha <- 5,
    AlphaOf <- 10, WindowDays <- 0, Slack <- 12, MaxFeedback <- 2,
    MaxUpdates <- 2, MaxDay <- 1

ModelLifecycle == INSTANCE ModelLifecycle WITH
    RegistryNames <- {"a", "b"}, RegistryVersions <- {1, 2},
    RegistryProcs <- {"p1", "p2"}, RegistryMaxOps <- 3,
    RetrainProcs <- {"p1", "p2"}, RetrainNames <- {"a"}, Aucs <- {0, 1},
    MaxVersion <- 2, MaxReports <- 2, CanaryVersions <- {"v1"},
    Scores <- {0, 3}, Thresholds <- {1}, AlertRates <- {0, 2},
    NormalMax <- 1, Sustained <- 2, CanaryMaxRows <- 3, CanaryMaxRuns <- 1,
    Losses <- {1, 2}, Patience <- 2, CheckpointEvery <- 2, Workers <- {"w1"},
    MaxEpochs <- 2, LstmMaxRuns <- 2, MaxReloads <- 1, SplitMaxRows <- 5,
    Times <- {0, 2, 3}, CalDivisor <- 4, TestDivisor <- 2, Window <- 1,
    Gap <- 1, Splits <- 2, Checkers <- {"c1", "c2"}, DriftMaxRows <- 3,
    KeepRows <- 2, Cooldown <- 2, Day <- 1, MinSamples <- 2, MaxHour <- 3,
    DriftMaxOps <- 3, live <- retrainLive

FederatedLearning == INSTANCE FederatedLearning WITH
    RoundParticipants <- {"p1", "p2"}, MinParticipants <- 2,
    Samples <- {1, 3}, MaxSamples <- 3, GrowthFactor <- 2, Budget <- 2,
    UseKrum <- TRUE, MaxFailures <- 1, MaxRoundId <- 2, FlClients <- {"p1"},
    N <- 5, Values <- {0, 3, 10}, Weights <- {0, 1, 7}, Caps <- {10, 30, 50},
    TrimPct <- 20, SecureParticipants <- {1, 2, 3}, Updates <- {-1, 2},
    Ring <- 16, Masks <- {3, 15}, Shares <- {4}, MaxRepeats <- 1,
    history <- roundHistory, audit <- roundAudit, labels <- roundLabels

(* The variables of each component, and their value while another one runs. *)
adminActionsVars == <<tokens, known, audit, call, effects, jobs, adminNow,
                      adminFaults>>
adminActionsOff == tokens = 0 /\ known = 0 /\ audit = 0 /\ call = 0 /\
                   effects = 0 /\ jobs = 0 /\ adminNow = 0 /\ adminFaults = 0
runtimeConfigVars == <<commits, counter, client, configCache, thread,
                       overlap, answer, bumped, configNow, configFaults>>
runtimeConfigOff == commits = 0 /\ counter = 0 /\ client = 0 /\
                    configCache = 0 /\ thread = 0 /\ overlap = 0 /\
                    answer = 0 /\ bumped = 0 /\ configNow = 0 /\
                    configFaults = 0
runtimeWeightsVars == <<inode, path, tmp, writer, reader, loadedCache, used,
                        touched, loadedNow, reads>>
runtimeWeightsOff == inode = 0 /\ path = 0 /\ tmp = 0 /\ writer = 0 /\
                     reader = 0 /\ loadedCache = 0 /\ used = 0 /\
                     touched = 0 /\ loadedNow = 0 /\ reads = 0
ensembleWeightsVars == <<feedback, history, weights, day, updates>>
ensembleWeightsOff == feedback = 0 /\ history = 0 /\ weights = 0 /\
                      day = 0 /\ updates = 0
modelRegistryVars == <<registryFile, latest, op, cut, dangling, registryOps>>
modelRegistryOff == registryFile = 0 /\ latest = 0 /\ op = 0 /\ cut = 0 /\
                    dangling = 0 /\ registryOps = 0
retrainingVars == <<retrainLive, retrainFile, meta, reports, retrainRuns,
                    job, candidate, trained, retrainDied, overlapped>>
retrainingOff == retrainLive = 0 /\ retrainFile = 0 /\ meta = 0 /\
                 reports = 0 /\ retrainRuns = 0 /\ job = 0 /\
                 candidate = 0 /\ trained = 0 /\ retrainDied = 0 /\
                 overlapped = 0
canaryRolloutVars == <<canaryRows, canaryRuns, means>>
canaryRolloutOff == canaryRows = 0 /\ canaryRuns = 0 /\ means = 0
lstmTrainingVars == <<loss, data, run, ckpt, lstmFile, lstmSum, lstm, saved,
                      lstmRuns, reloads>>
lstmTrainingOff == loss = 0 /\ data = 0 /\ run = 0 /\ ckpt = 0 /\
                   lstmFile = 0 /\ lstmSum = 0 /\ lstm = 0 /\ saved = 0 /\
                   lstmRuns = 0 /\ reloads = 0
trainingSplitVars == <<stage, ts, believed, rest, cal, train, test, random>>
trainingSplitOff == stage = 0 /\ ts = 0 /\ believed = 0 /\ rest = 0 /\
                    cal = 0 /\ train = 0 /\ test = 0 /\ random = 0
driftMonitorVars == <<hour, driftOps, snaps, recorded, driftAlerts, pc,
                      raced, told, driftDied, trend, labels, degraded>>
driftMonitorOff == hour = 0 /\ driftOps = 0 /\ snaps = 0 /\ recorded = 0 /\
                   driftAlerts = 0 /\ pc = 0 /\ raced = 0 /\ told = 0 /\
                   driftDied = 0 /\ trend = 0 /\ labels = 0 /\ degraded = 0
federatedRoundsVars == <<admission, registered, roundHistory, update,
                         pending, roundId, rounds, wedged, roundStage, auto,
                         roundAudit, released, failures, roundLabels, fl,
                         based, torn>>
federatedRoundsOff == admission = 0 /\ registered = 0 /\ roundHistory = 0 /\
                      update = 0 /\ pending = 0 /\ roundId = 0 /\
                      rounds = 0 /\ wedged = 0 /\ roundStage = 0 /\
                      auto = 0 /\ roundAudit = 0 /\ released = 0 /\
                      failures = 0 /\ roundLabels = 0 /\ fl = 0 /\
                      based = 0 /\ torn = 0
flSessionVars == <<roundLabels, fl, based, torn>>
flSessionOff == roundLabels = 0 /\ fl = 0 /\ based = 0 /\ torn = 0
robustAggregationVars == <<robustStage, robustG, bad, order, trimmed, w, cap,
                           capped>>
robustAggregationOff == robustStage = 0 /\ robustG = 0 /\ bad = 0 /\
                        order = 0 /\ trimmed = 0 /\ w = 0 /\ cap = 0 /\
                        capped = 0
secureAggregationVars == <<protocol, secret, mask, reported, sum, total,
                           share, received, repeats>>
secureAggregationOff == protocol = 0 /\ secret = 0 /\ mask = 0 /\
                        reported = 0 /\ sum = 0 /\ total = 0 /\ share = 0 /\
                        received = 0 /\ repeats = 0

administrationVars == <<adminActionsVars, runtimeConfigVars,
                        runtimeWeightsVars, ensembleWeightsVars>>
modelLifecycleVars == <<modelRegistryVars, retrainingVars, canaryRolloutVars,
                        lstmTrainingVars, trainingSplitVars, driftMonitorVars>>
federatedLearningVars == <<federatedRoundsVars, robustAggregationVars,
                           secureAggregationVars>>
suiteVars ==
    <<focus, vars, administrationVars, modelLifecycleVars,
      federatedLearningVars>>

SuiteInit ==
    /\ focus \in Focus
    /\ Init
    /\ IF focus = "AdminActions" THEN Administration!AdminInit ELSE adminActionsOff
    /\ IF focus = "RuntimeConfig" THEN Administration!ConfigInit ELSE runtimeConfigOff
    /\ IF focus = "RuntimeWeights" THEN Administration!LoadedInit ELSE runtimeWeightsOff
    /\ IF focus = "EnsembleWeights" THEN Administration!WeightInit ELSE ensembleWeightsOff
    /\ IF focus = "ModelRegistry" THEN ModelLifecycle!RegistryInit ELSE modelRegistryOff
    /\ IF focus = "Retraining" THEN ModelLifecycle!RetrainInit ELSE retrainingOff
    /\ IF focus = "CanaryRollout" THEN ModelLifecycle!CanaryInit ELSE canaryRolloutOff
    /\ IF focus = "LstmTraining" THEN ModelLifecycle!LstmInit ELSE lstmTrainingOff
    /\ IF focus = "TrainingSplit" THEN ModelLifecycle!SplitInit ELSE trainingSplitOff
    /\ IF focus = "DriftMonitor" THEN ModelLifecycle!DriftInit ELSE driftMonitorOff
    /\ CASE focus = "FederatedRounds" -> FederatedLearning!RoundInit /\ flSessionOff
         [] focus = "FlSession" -> FederatedLearning!FlInit
         [] OTHER -> federatedRoundsOff
    /\ IF focus = "RobustAggregation" THEN FederatedLearning!RobustInit ELSE robustAggregationOff
    /\ IF focus = "SecureAggregation" THEN FederatedLearning!SecureInit ELSE secureAggregationOff

HostNext ==
    /\ focus = "Governance" /\ Next
    /\ UNCHANGED <<focus, administrationVars, modelLifecycleVars,
                    federatedLearningVars>>

AdminActionsNext ==
    /\ focus = "AdminActions" /\ Administration!AdminNext
    /\ UNCHANGED <<focus, vars, modelLifecycleVars, federatedLearningVars,
                    runtimeConfigVars, runtimeWeightsVars,
                    ensembleWeightsVars>>

RuntimeConfigNext ==
    /\ focus = "RuntimeConfig" /\ Administration!ConfigNext
    /\ UNCHANGED <<focus, vars, modelLifecycleVars, federatedLearningVars,
                    adminActionsVars, runtimeWeightsVars, ensembleWeightsVars>>

RuntimeWeightsNext ==
    /\ focus = "RuntimeWeights" /\ Administration!LoadedNext
    /\ UNCHANGED <<focus, vars, modelLifecycleVars, federatedLearningVars,
                    adminActionsVars, runtimeConfigVars, ensembleWeightsVars>>

EnsembleWeightsNext ==
    /\ focus = "EnsembleWeights" /\ Administration!WeightNext
    /\ UNCHANGED <<focus, vars, modelLifecycleVars, federatedLearningVars,
                    adminActionsVars, runtimeConfigVars, runtimeWeightsVars>>

ModelRegistryNext ==
    /\ focus = "ModelRegistry" /\ ModelLifecycle!RegistryNext
    /\ UNCHANGED <<focus, vars, administrationVars, federatedLearningVars,
                    retrainingVars, canaryRolloutVars, lstmTrainingVars,
                    trainingSplitVars, driftMonitorVars>>

RetrainingNext ==
    /\ focus = "Retraining" /\ ModelLifecycle!RetrainNext
    /\ UNCHANGED <<focus, vars, administrationVars, federatedLearningVars,
                    modelRegistryVars, canaryRolloutVars, lstmTrainingVars,
                    trainingSplitVars, driftMonitorVars>>

CanaryRolloutNext ==
    /\ focus = "CanaryRollout" /\ ModelLifecycle!CanaryNext
    /\ UNCHANGED <<focus, vars, administrationVars, federatedLearningVars,
                    modelRegistryVars, retrainingVars, lstmTrainingVars,
                    trainingSplitVars, driftMonitorVars>>

LstmTrainingNext ==
    /\ focus = "LstmTraining" /\ ModelLifecycle!LstmNext
    /\ UNCHANGED <<focus, vars, administrationVars, federatedLearningVars,
                    modelRegistryVars, retrainingVars, canaryRolloutVars,
                    trainingSplitVars, driftMonitorVars>>

TrainingSplitNext ==
    /\ focus = "TrainingSplit" /\ ModelLifecycle!SplitNext
    /\ UNCHANGED <<focus, vars, administrationVars, federatedLearningVars,
                    modelRegistryVars, retrainingVars, canaryRolloutVars,
                    lstmTrainingVars, driftMonitorVars>>

DriftMonitorNext ==
    /\ focus = "DriftMonitor" /\ ModelLifecycle!DriftNext
    /\ UNCHANGED <<focus, vars, administrationVars, federatedLearningVars,
                    modelRegistryVars, retrainingVars, canaryRolloutVars,
                    lstmTrainingVars, trainingSplitVars>>

FederatedRoundsNext ==
    /\ focus = "FederatedRounds" /\ FederatedLearning!RoundNext
    /\ UNCHANGED <<flSessionVars, focus, vars, administrationVars, modelLifecycleVars,
                    robustAggregationVars, secureAggregationVars>>

FlSessionNext ==
    /\ focus = "FlSession" /\ FederatedLearning!FlNext
    /\ UNCHANGED <<focus, vars, administrationVars, modelLifecycleVars,
                    robustAggregationVars, secureAggregationVars>>

RobustAggregationNext ==
    /\ focus = "RobustAggregation" /\ FederatedLearning!RobustNext
    /\ UNCHANGED <<focus, vars, administrationVars, modelLifecycleVars,
                    federatedRoundsVars, secureAggregationVars>>

SecureAggregationNext ==
    /\ focus = "SecureAggregation" /\ FederatedLearning!SecureNext
    /\ UNCHANGED <<focus, vars, administrationVars, modelLifecycleVars,
                    federatedRoundsVars, robustAggregationVars>>

SuiteNext ==
    \/ HostNext \/ AdminActionsNext \/ RuntimeConfigNext \/
       RuntimeWeightsNext \/ EnsembleWeightsNext \/ ModelRegistryNext \/
       RetrainingNext \/ CanaryRolloutNext \/ LstmTrainingNext \/
       TrainingSplitNext \/ DriftMonitorNext \/ FederatedRoundsNext \/ FlSessionNext \/
       RobustAggregationNext \/ SecureAggregationNext

SuiteSpec ==
    /\ SuiteInit /\ [][SuiteNext]_suiteVars
    \* close_expired runs from cron; an execution commits or is rolled back.
    /\ WF_vars(focus = "Governance" /\ (MarkFailed \/ MarkExecuted \/ ExecuteDies))
    /\ SF_vars(focus = "Governance" /\ Close(Cron))

-----------------------------------------------------------------------------
(* A setting is what the last accountable change made it: a change arrives  *)
(* at every process within its time, an elevated action has its elevation   *)
(* and its audit row, weights are those of the file and sum to one.         *)
ConfigIsApplied ==
    /\ focus = "RuntimeConfig" => Administration!ConfigTypeOK /\ Administration!ChangesArriveInTime
    /\ focus = "AdminActions" => Administration!AdminTypeOK /\ Administration!AdminIsAccountable
    /\ focus = "RuntimeWeights" => Administration!LoadedTypeOK /\ Administration!CacheFollowsTheFile
    /\ focus = "EnsembleWeights" =>
          Administration!WeightTypeOK /\ Administration!WeightsStayFeasible

(* A model goes live behind its gates: better than the one it replaces,     *)
(* loadable, judged on its canary's evidence, trained reproducibly on data  *)
(* that does not leak, and watched for drift.                               *)
ModelsAreGated ==
    /\ focus = "Retraining" => ModelLifecycle!RetrainTypeOK /\ ModelLifecycle!RetrainingIsGated
    /\ focus = "ModelRegistry" => ModelLifecycle!RegistryTypeOK /\ ModelLifecycle!LatestLoads
    /\ focus = "CanaryRollout" => ModelLifecycle!CanaryTypeOK /\ ModelLifecycle!VerdictsFollowEvidence
    /\ focus = "LstmTraining" => ModelLifecycle!LstmTypeOK /\ ModelLifecycle!TrainingIsReproducible
    /\ focus = "TrainingSplit" => ModelLifecycle!SplitTypeOK /\ ModelLifecycle!SplitDoesNotLeak
    /\ focus = "DriftMonitor" => ModelLifecycle!DriftTypeOK /\ ModelLifecycle!DriftReportsAreSound

(* A federated round counts what was sent to it: updates belong to the      *)
(* round, the budget is spent once per round, a few outliers move nothing,  *)
(* and the sum of the shares is the sum of the updates.                     *)
FederationIsSound ==
    /\ focus = "FederatedRounds" =>
          FederatedLearning!RoundTypeOK /\ FederatedLearning!RoundsAreAccounted
    /\ focus = "FlSession" => /\ FederatedLearning!FlTypeOK
                              /\ FederatedLearning!RoundsAreAccounted
                              /\ FederatedLearning!UpdatesFitTheirRound
    /\ focus = "RobustAggregation" => FederatedLearning!AggregationIsRobust
    /\ focus = "SecureAggregation" =>
          FederatedLearning!SecureTypeOK /\ FederatedLearning!SumsAreTrue
=============================================================================
