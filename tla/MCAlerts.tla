------------------------------ MODULE MCAlerts ------------------------------
(*****************************************************************************)
(* From an alert to its answer: the delivery of webhooks, with the alerts,   *)
(* cases and reports that follow a score (Compliance) and the queries that   *)
(* read them (ApiQueries).                                                   *)
(*                                                                           *)
(* A behaviour is about one component, named by focus; the others keep the   *)
(* value they start with.                                                    *)
(*****************************************************************************)
EXTENDS WebhookDelivery, Integers, Sequences, FiniteSets

CONSTANT Focus  \* the components whose behaviours a run explores

VARIABLES
    focus,  \* the component a behaviour is about
    alertActive, lastScore, streak, rules, log, seen, task, dlq, op, sentFor,
    posts, acked, retries, retryCrashes, score, claims, verdicts,
    caseRequest, caseNow, sarNow, scores, alerts, reviewed, sarRequest,
    exports, packages, clock, rows, handler, labels, loop, since, batch, mem,
    saved, floor, applied, times, late, restarts, faults, lists, adm, told,
    vectors,
    queryRows, nextId, cache, req, queryNow, store, revision, writes, index,
    version, indexed, similarDue, similarHandler, requests, jobs, keyed,
    batchHandler, batchActive, lost, running, answers, batchNow, batchCrashes,
    good, todo, calling, down, always, ever, answer, flips

MCOwner == [r \in Rows |-> IF r = 3 THEN "b" ELSE "a"]

Compliance == INSTANCE Compliance WITH
    AlertScores <- {40, 75, 85, 95}, Threshold <- 70, AlertMaxScores <- 5,
    Payloads <- {"p1", "p2"}, Operators <- {"o1", "o2"}, MaxAttempts <- 2,
    MaxRetries <- 2, MaxCrashes <- 1, Cases <- {1}, Analysts <- {"a", "b"},
    Requests <- {"q1", "q2"}, CaseScores <- {0, 60}, LockTimeout <- 1,
    Cap <- 1, Day <- 2, MaxClaims <- 3, MaxVerdicts <- 1, CaseMaxTime <- 2,
    SarWorkers <- {"w1", "w2"}, SarScores <- {60, 90}, MinScore <- 70,
    RateLimit <- 1, SarHour <- 0, EndDate <- 0, SarMaxTime <- 1,
    SarMaxScores <- 1, MaxAlerts <- 1, MaxExports <- 1, NumModels <- 2,
    LabelWorkers <- {"w1", "w2"}, LabelHour <- 3, MinSeries <- 4,
    MaxLabels <- 2, MaxRestarts <- 1, MaxFaults <- 1, MaxClock <- 7,
    Wallets <- {"w1", "w2"}, Admins <- {"a1", "a2"}, MaxEntries <- 3,
    MaxVectors <- 2, active <- alertActive, crashes <- retryCrashes

ApiQueries == INSTANCE ApiQueries WITH
    Offers <- {<<"w1", 40>>, <<"w2", 80>>}, Requests <- {"r1", "r2"},
    PageSize <- 1, MinScore <- 70, MaxRows <- 2, MaxAge <- 0,
    QueryMaxTime <- 1, SimilarWallets <- {1, 2}, Versions <- {1, 2},
    Vectors <- {1, 3}, SimilarWorkers <- {"w1", "w2"}, K <- 1,
    MinSimilarity <- 9, MaxWrites <- 2, MaxRequests <- 2,
    BatchWorkers <- {"w1", "w2"}, Keys <- {"k"}, MaxConcurrent <- 1,
    JobTTL <- 0, KeyWindow <- 0, MaxJobs <- 2, MaxCrashes <- 1,
    BatchMaxTime <- 1, ModelFiles <- <<"rf", "gnn">>, Optional <- {"gnn"},
    BusEnabled <- TRUE, MaxFlips <- 4,
    rows <- queryRows, due <- similarDue, active <- batchActive,
    crashes <- batchCrashes

(* The variables of each component, and their value while another one runs. *)
alertEngineVars == <<alertActive, lastScore, streak, rules, log, seen>>
alertEngineOff == alertActive = 0 /\ lastScore = 0 /\ streak = 0 /\
                   rules = 0 /\ log = 0 /\ seen = 0
webhookRetryVars == <<task, dlq, op, sentFor, posts, acked, retries,
                        retryCrashes>>
webhookRetryOff == task = 0 /\ dlq = 0 /\ op = 0 /\ sentFor = 0 /\
                    posts = 0 /\ acked = 0 /\ retries = 0 /\ retryCrashes = 0
analystCasesVars == <<score, claims, verdicts, caseRequest, caseNow>>
analystCasesOff == score = 0 /\ claims = 0 /\ verdicts = 0 /\
                    caseRequest = 0 /\ caseNow = 0
sarExportVars == <<sarNow, scores, alerts, reviewed, sarRequest, exports,
                     packages>>
sarExportOff == sarNow = 0 /\ scores = 0 /\ alerts = 0 /\ reviewed = 0 /\
                 sarRequest = 0 /\ exports = 0 /\ packages = 0
feedbackLoopVars == <<clock, rows, handler, labels, loop, since, batch,
                        mem, saved, floor, applied, times, late, restarts,
                        faults>>
feedbackLoopOff == clock = 0 /\ rows = 0 /\ handler = 0 /\ labels = 0 /\
                    loop = 0 /\ since = 0 /\ batch = 0 /\ mem = 0 /\
                    saved = 0 /\ floor = 0 /\ applied = 0 /\ times = 0 /\
                    late = 0 /\ restarts = 0 /\ faults = 0
walletListsVars == <<lists, adm, told, vectors>>
walletListsOff == lists = 0 /\ adm = 0 /\ told = 0 /\ vectors = 0
scoreQueriesVars == <<queryRows, nextId, cache, req, queryNow>>
scoreQueriesOff == queryRows = 0 /\ nextId = 0 /\ cache = 0 /\ req = 0 /\
                    queryNow = 0
similarWalletsVars == <<store, revision, writes, index, version, indexed,
                          similarDue, similarHandler, requests>>
similarWalletsOff == store = 0 /\ revision = 0 /\ writes = 0 /\ index = 0 /\
                      version = 0 /\ indexed = 0 /\ similarDue = 0 /\
                      similarHandler = 0 /\ requests = 0
batchJobsVars == <<jobs, keyed, batchHandler, batchActive, lost, running,
                     answers, batchNow, batchCrashes>>
batchJobsOff == jobs = 0 /\ keyed = 0 /\ batchHandler = 0 /\
                 batchActive = 0 /\ lost = 0 /\ running = 0 /\ answers = 0 /\
                 batchNow = 0 /\ batchCrashes = 0
healthReportVars == <<good, todo, calling, down, always, ever, answer, flips>>
healthReportOff == good = 0 /\ todo = 0 /\ calling = 0 /\ down = 0 /\
                    always = 0 /\ ever = 0 /\ answer = 0 /\ flips = 0

complianceVars == <<alertEngineVars, webhookRetryVars, analystCasesVars,
                      sarExportVars, feedbackLoopVars, walletListsVars>>
apiQueriesVars == <<scoreQueriesVars, similarWalletsVars, batchJobsVars,
                      healthReportVars>>
suiteVars ==
    <<focus, vars, complianceVars, apiQueriesVars>>

SuiteInit ==
    /\ focus \in Focus
    /\ Init
    /\ IF focus = "AlertEngine" THEN Compliance!AlertInit ELSE alertEngineOff
    /\ IF focus = "WebhookRetry" THEN Compliance!RetryInit ELSE webhookRetryOff
    /\ IF focus = "AnalystCases" THEN Compliance!CaseInit ELSE analystCasesOff
    /\ IF focus = "SarExport" THEN Compliance!SarInit ELSE sarExportOff
    /\ IF focus = "FeedbackLoop" THEN Compliance!LabelInit ELSE feedbackLoopOff
    /\ IF focus = "WalletLists" THEN Compliance!ListedInit ELSE walletListsOff
    /\ IF focus = "ScoreQueries" THEN ApiQueries!QueryInit ELSE scoreQueriesOff
    /\ IF focus = "SimilarWallets" THEN ApiQueries!SimilarInit ELSE similarWalletsOff
    /\ IF focus = "BatchJobs" THEN ApiQueries!BatchInit ELSE batchJobsOff
    /\ IF focus = "HealthReport" THEN ApiQueries!HealthInit ELSE healthReportOff

HostNext ==
    /\ focus = "WebhookDelivery" /\ Next
    /\ UNCHANGED <<focus, complianceVars, apiQueriesVars>>

AlertEngineNext ==
    /\ focus = "AlertEngine" /\ Compliance!AlertNext
    /\ UNCHANGED <<focus, vars, apiQueriesVars, webhookRetryVars,
                    analystCasesVars, sarExportVars, feedbackLoopVars,
                    walletListsVars>>

WebhookRetryNext ==
    /\ focus = "WebhookRetry" /\ Compliance!RetryNext
    /\ UNCHANGED <<focus, vars, apiQueriesVars, alertEngineVars,
                    analystCasesVars, sarExportVars, feedbackLoopVars,
                    walletListsVars>>

AnalystCasesNext ==
    /\ focus = "AnalystCases" /\ Compliance!CaseNext
    /\ UNCHANGED <<focus, vars, apiQueriesVars, alertEngineVars,
                    webhookRetryVars, sarExportVars, feedbackLoopVars,
                    walletListsVars>>

SarExportNext ==
    /\ focus = "SarExport" /\ Compliance!SarNext
    /\ UNCHANGED <<focus, vars, apiQueriesVars, alertEngineVars,
                    webhookRetryVars, analystCasesVars, feedbackLoopVars,
                    walletListsVars>>

FeedbackLoopNext ==
    /\ focus = "FeedbackLoop" /\ Compliance!LabelNext
    /\ UNCHANGED <<focus, vars, apiQueriesVars, alertEngineVars,
                    webhookRetryVars, analystCasesVars, sarExportVars,
                    walletListsVars>>

WalletListsNext ==
    /\ focus = "WalletLists" /\ Compliance!ListedNext
    /\ UNCHANGED <<focus, vars, apiQueriesVars, alertEngineVars,
                    webhookRetryVars, analystCasesVars, sarExportVars,
                    feedbackLoopVars>>

ScoreQueriesNext ==
    /\ focus = "ScoreQueries" /\ ApiQueries!QueryNext
    /\ UNCHANGED <<focus, vars, complianceVars, similarWalletsVars,
                    batchJobsVars, healthReportVars>>

SimilarWalletsNext ==
    /\ focus = "SimilarWallets" /\ ApiQueries!SimilarNext
    /\ UNCHANGED <<focus, vars, complianceVars, scoreQueriesVars,
                    batchJobsVars, healthReportVars>>

BatchJobsNext ==
    /\ focus = "BatchJobs" /\ ApiQueries!BatchNext
    /\ UNCHANGED <<focus, vars, complianceVars, scoreQueriesVars,
                    similarWalletsVars, healthReportVars>>

HealthReportNext ==
    /\ focus = "HealthReport" /\ ApiQueries!HealthNext
    /\ UNCHANGED <<focus, vars, complianceVars, scoreQueriesVars,
                    similarWalletsVars, batchJobsVars>>

SuiteNext ==
    \/ HostNext \/ AlertEngineNext \/ WebhookRetryNext \/ AnalystCasesNext \/
       SarExportNext \/ FeedbackLoopNext \/ WalletListsNext \/
       ScoreQueriesNext \/ SimilarWalletsNext \/ BatchJobsNext \/
       HealthReportNext

SuiteSpec ==
    /\ SuiteInit /\ [][SuiteNext]_suiteVars
    \* Time passes, the loop keeps polling and every started task ends.
    /\ WF_vars(focus = "WebhookDelivery" /\ TimePasses)
    /\ WF_vars(focus = "WebhookDelivery" /\ Poll)
    /\ \A t \in Task : WF_vars(focus = "WebhookDelivery" /\ t \in tasks /\ TaskStep(t))

-----------------------------------------------------------------------------
(* An alert is raised when the scores call for one, and its payload is      *)
(* delivered, waiting, or with the operators, never twice with one of them. *)
AlertsAreAccounted ==
    /\ focus = "AlertEngine" => Compliance!AlertTypeOK /\ Compliance!AlertFollowsScores
    /\ focus = "WebhookRetry" => Compliance!RetryTypeOK /\ Compliance!PayloadsAreAccounted

(* Who reads or rules on a score sees what is stored: a query answers from  *)
(* the current version, a batch runs once, a case has one holder, a report  *)
(* was reviewed, a reward belongs to its label.                             *)
AnswersAreCurrent ==
    /\ focus = "ScoreQueries" => ApiQueries!QueryTypeOK /\ ApiQueries!QueriesAreCurrent
    /\ focus = "SimilarWallets" => ApiQueries!SimilarTypeOK /\ ApiQueries!AnswersFitTheIndex
    /\ focus = "BatchJobs" => ApiQueries!BatchTypeOK /\ ApiQueries!BatchesAreOnce
    /\ focus = "HealthReport" => ApiQueries!HealthTypeOK /\ ApiQueries!HealthIsHonest
    /\ focus = "WalletLists" => Compliance!ListedTypeOK /\ Compliance!ListsFollowAdmins
    /\ focus = "AnalystCases" => Compliance!CaseTypeOK /\ Compliance!CasesAreHeldOnce
    /\ focus = "SarExport" => Compliance!SarTypeOK /\ Compliance!PackagesAreReviewed
    /\ focus = "FeedbackLoop" => Compliance!LabelTypeOK /\ Compliance!RewardsAreAccounted
=============================================================================
