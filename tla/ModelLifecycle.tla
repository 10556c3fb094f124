--------------------------- MODULE ModelLifecycle ---------------------------
(*****************************************************************************)
(* The life of a model: the registry, gated retraining, canary runs,         *)
(* resumable training, the split of the data and the watch for drift.        *)
(*****************************************************************************)
EXTENDS Integers, Sequences, FiniteSets, FiniteSetsExt, SequencesExt

-----------------------------------------------------------------------------
(***************************************************************************)
(* detection/model_registry.py with detection/model_signing.py: versioned  *)
(* model files, their HMAC files, and one pointer file per model name that *)
(* says which version is served.  Saving, promoting and rolling back write *)
(* these files one by one, from the retraining job and from the API at the *)
(* same time; a process may die between any two writes.                    *)
(*                                                                         *)
(* What the robustness gates measure is data: a gate may pass or fail, but *)
(* it needs the reference model, and so the pointer, to be loadable.       *)
(***************************************************************************)

CONSTANTS RegistryNames,        \* model names
          RegistryVersions,     \* version hashes, the same for two saves in one minute
          RegistryProcs,        \* processes that change the registry
          RegistryMaxOps        \* bound: operations begun

RegistryNone == 0               \* Versions are positive

VARIABLES
    registryFile,       \* file[n][v]: "none", "unsigned" (no or another file's HMAC) or "whole"
    latest,     \* the pointer: "absent", "empty" (truncated) or a version
    op,         \* op[p]: what p is in the middle of
    cut,        \* history: names with a write that was begun and not finished
    dangling,   \* history: names rolled back to a version that does not load
    registryOps         \* operations begun

registryVars == <<registryFile, latest, op, cut, dangling, registryOps>>

RegistryIdle == [at |-> "idle", names |-> {}, v |-> RegistryNone, checked |-> TRUE]
Stages == {"idle", "dump", "sign", "truncate", "point"}
Pointer == {[is |-> k, v |-> RegistryNone] : k \in {"absent", "empty"}}
             \cup {[is |-> "version", v |-> v] : v \in RegistryVersions}

RegistryTypeOK ==
    /\ registryFile \in [RegistryNames -> [RegistryVersions -> {"none", "unsigned", "whole"}]]
    /\ latest \in [RegistryNames -> Pointer]
    /\ op \in [RegistryProcs -> [at : Stages, names : SUBSET RegistryNames,
                               v : RegistryVersions \cup {RegistryNone}, checked : BOOLEAN]]
    /\ cut \subseteq RegistryNames /\ dangling \subseteq RegistryNames /\ registryOps \in 0 .. RegistryMaxOps

RegistryInit ==
            /\ registryFile = [n \in RegistryNames |-> [v \in RegistryVersions |-> "none"]]
            /\ latest = [n \in RegistryNames |-> [is |-> "absent", v |-> RegistryNone]]
            /\ op = [p \in RegistryProcs |-> RegistryIdle] /\ cut = {} /\ dangling = {} /\ registryOps = 0

\* load_versioned_model: safe_joblib_load verifies the HMAC.
Loads(n, v) == registryFile[n][v] = "whole"

\* get_current_version and the load of the reference model: no pointer means
\* no reference; an empty pointer file names a version that does not exist.
ReferenceLoads(n) ==
    \/ latest[n].is = "absent"
    \/ latest[n].is = "version" /\ Loads(n, latest[n].v)

Begin(p, at, S, v, checked) ==
    /\ op[p] = RegistryIdle /\ registryOps < RegistryMaxOps /\ registryOps' = registryOps + 1
    /\ op' = [op EXCEPT ![p] = [at |-> at, names |-> S, v |-> v, checked |-> checked]]

-----------------------------------------------------------------------------
\* promote_model and save_versioned_model: the gates, then the four writes.
SaveVersionedModel(p, n, v) ==
    /\ ReferenceLoads(n) /\ Begin(p, "dump", {n}, v, TRUE)
    /\ UNCHANGED <<registryFile, latest, cut, dangling>>

DumpModel(p) ==
    /\ op[p].at = "dump" /\ op' = [op EXCEPT ![p].at = "sign"]
    /\ registryFile' = [n \in RegistryNames |-> IF n \in op[p].names
                                                  THEN [registryFile[n] EXCEPT ![op[p].v] = "unsigned"] ELSE registryFile[n]]
    /\ UNCHANGED <<latest, cut, dangling, registryOps>>

\* sign_model_file reads what is there now, whoever wrote it last.
SignModelFile(p) ==
    /\ op[p].at = "sign" /\ op' = [op EXCEPT ![p].at = "truncate"]
    /\ registryFile' = [n \in RegistryNames |-> IF n \in op[p].names
                                                  THEN [registryFile[n] EXCEPT ![op[p].v] = "whole"] ELSE registryFile[n]]
    /\ UNCHANGED <<latest, cut, dangling, registryOps>>

\* promote_model_version: candidates and references load, the gate passes,
\* then one pointer after the other is written.
PromoteModelVersion(p, S, v) ==
    /\ S # {} /\ \A n \in S : Loads(n, v) /\ ReferenceLoads(n)
    /\ Begin(p, "truncate", S, v, TRUE) /\ UNCHANGED <<registryFile, latest, cut, dangling>>

\* rollback_model looks at nothing before it writes the pointer.
RollbackModel(p, n, v) ==
    /\ Begin(p, "truncate", {n}, v, FALSE) /\ UNCHANGED <<registryFile, latest, cut, dangling>>

\* open(latest_path, "w"), for the first name that is left ...
TruncatePointer(p, n) ==
    /\ op[p].at = "truncate" /\ n \in op[p].names
    /\ latest' = [latest EXCEPT ![n] = [is |-> "empty", v |-> RegistryNone]]
    /\ op' = [op EXCEPT ![p].at = "point"]
    /\ UNCHANGED <<registryFile, cut, dangling, registryOps>>

\* ... and write(version).
WritePointer(p, n) ==
    /\ op[p].at = "point" /\ n \in op[p].names /\ latest[n].is # "absent"
    /\ latest' = [latest EXCEPT ![n] = [is |-> "version", v |-> op[p].v]]
    /\ op' = [op EXCEPT ![p] = IF op[p].names = {n} THEN RegistryIdle
                               ELSE [op[p] EXCEPT !.at = "truncate", !.names = @ \ {n}]]
    /\ dangling' = IF op[p].checked \/ Loads(n, op[p].v) THEN dangling \ {n}
                                                         ELSE dangling \cup {n}
    /\ UNCHANGED <<registryFile, cut, registryOps>>

\* The process dies, or a write raises; what it had left undone stays so.
RegistryDies(p) ==
            /\ op[p] # RegistryIdle /\ op' = [op EXCEPT ![p] = RegistryIdle] /\ cut' = cut \cup op[p].names
            /\ UNCHANGED <<registryFile, latest, dangling, registryOps>>

RegistryNext ==
            \E p \in RegistryProcs :
              \/ DumpModel(p) \/ SignModelFile(p) \/ RegistryDies(p)
              \/ \E n \in RegistryNames : TruncatePointer(p, n) \/ WritePointer(p, n)
              \/ \E v \in RegistryVersions :
                   \/ \E n \in RegistryNames : SaveVersionedModel(p, n, v) \/ RollbackModel(p, n, v)
                   \/ \E S \in SUBSET RegistryNames : PromoteModelVersion(p, S, v)

RegistrySpec == RegistryInit /\ [][RegistryNext]_registryVars
-----------------------------------------------------------------------------
Busy(n) == \E p \in RegistryProcs : n \in op[p].names

(* The served version loads.  Two processes may save, promote and roll     *)
(* back at once, even the same version: when nobody is writing a name its  *)
(* pointer names a file with a matching HMAC, unless a write of that name  *)
(* was cut short or the operator rolled it back to a version without one.  *)
LatestLoads ==
    \A n \in RegistryNames : Busy(n) \/ n \in cut \cup dangling \/ ReferenceLoads(n)

-----------------------------------------------------------------------------
(* cli.py retrain-check, with model_training.save_models and the version    *)
(* pointers of model_registry: drift or poor feedback starts a training, the *)
(* candidates are compared with the metadata of the live ensemble, checked   *)
(* for stability and robustness, and then written file by file.              *)

CONSTANTS RetrainProcs,        \* retrain-check processes: the scheduler's, an operator's
          RetrainNames,        \* models of the ensemble
          Aucs,         \* AUC-ROC values
          MaxVersion,   \* bound: candidate ensembles trained
          MaxReports    \* bound: drift reports, one per check

RetrainNone == 0               \* the version that is live at the start
RetrainVersions == 0 .. MaxVersion

VARIABLES
    live,       \* live[n]: the version in {n}_latest.txt
    retrainFile,       \* file[n]: the version in {n}.joblib
    meta,       \* training_metadata.json: [version, auc, shap]
    reports,    \* drift_reports rows
    retrainRuns,       \* retrain_runs rows: [name, old, new, promoted]
    job,        \* job[p]: what process p holds in memory
    candidate,  \* history: candidate[v]: how version v was judged
    trained,    \* versions trained so far
    retrainDied, overlapped    \* history: a process died half-way; two were active at once

retrainVars == <<live, retrainFile, meta, reports, retrainRuns, job, candidate, trained, retrainDied, overlapped>>

Steps == {"idle", "train", "reference", "gate", "file", "pointer", "metadata", "extras",
          "shap", "rollback", "record"}

NoCandidate == [auc |-> [n \in RetrainNames |-> 0], old |-> [n \in RetrainNames |-> 0],
                stable |-> TRUE, robust |-> TRUE, forced |-> FALSE]
IdleJob == [step |-> "idle", version |-> RetrainNone, oldAuc |-> [n \in RetrainNames |-> 0], oldShap |-> FALSE,
            oldVersions |-> [n \in RetrainNames |-> RetrainNone], left |-> {}, promoted |-> FALSE]

RetrainTypeOK ==
    /\ live \in [RetrainNames -> RetrainVersions] /\ retrainFile \in [RetrainNames -> RetrainVersions]
    /\ meta \in [version : RetrainVersions, auc : [RetrainNames -> Aucs], shap : BOOLEAN]
    /\ retrainRuns \subseteq [name : RetrainNames, old : RetrainVersions, new : RetrainVersions, promoted : BOOLEAN]
    /\ trained \in RetrainVersions /\ reports \in 0 .. MaxReports
    /\ \A p \in RetrainProcs : job[p].step \in Steps /\ job[p].left \subseteq RetrainNames

RetrainInit ==
           /\ live = [n \in RetrainNames |-> RetrainNone] /\ retrainFile = live
           /\ meta = [version |-> RetrainNone, auc |-> [n \in RetrainNames |-> 1], shap |-> TRUE]
           /\ reports = 0 /\ retrainRuns = {} /\ trained = 0
           /\ job = [p \in RetrainProcs |-> IdleJob]
           /\ candidate = [v \in RetrainVersions |-> NoCandidate]
           /\ retrainDied = FALSE /\ overlapped = FALSE

files == <<live, retrainFile, meta>>
Others(p) == {q \in RetrainProcs \ {p} : job[q].step # "idle"}

----------------------------------------------------------------------------
(* The drift report is saved; without drift, poor F1 or --force-retrain the *)
(* command ends there.                                                       *)
Check(p) ==
    /\ job[p].step = "idle" /\ reports < MaxReports
    /\ reports' = reports + 1
    /\ \E drift, poor, force \in BOOLEAN :
          job' = IF drift \/ poor \/ force
                 THEN [job EXCEPT ![p] = [IdleJob EXCEPT !.step = "train", !.oldAuc = meta.auc,
                                                         !.oldShap = meta.shap]]
                 ELSE job
    /\ overlapped' = (overlapped \/ (Others(p) # {} /\ job' # job))
    /\ UNCHANGED <<files, retrainRuns, candidate, trained, retrainDied>>

Promoted_IgnoreStability(c) == \E n \in RetrainNames : c.auc[n] >= c.old[n]

\* promoted: some model is not worse, and the importances are stable or the
\* operator insists.
Promoted(c) == (\E n \in RetrainNames : c.auc[n] >= c.old[n]) /\ (c.stable \/ c.forced)

(* train_ensemble; compare_importance_stability calls everything stable if  *)
(* the old metadata holds no importances.                                    *)
Train(p) ==
    /\ job[p].step = "train" /\ trained < MaxVersion
    /\ trained' = trained + 1
    /\ \E auc \in [RetrainNames -> Aucs], similar, robust, force \in BOOLEAN :
          LET c == [auc |-> auc, old |-> job[p].oldAuc, robust |-> robust, forced |-> force,
                    stable |-> similar \/ ~job[p].oldShap]
          IN  /\ candidate' = [candidate EXCEPT ![trained'] = c]
              /\ job' = [job EXCEPT ![p] = [@ EXCEPT !.step = "reference", !.version = trained',
                                     !.oldVersions = live, !.promoted = Promoted(c)]]
    /\ UNCHANGED <<files, reports, retrainRuns, retrainDied, overlapped>>

(* training_reference.csv is replaced whatever was decided: the generator's *)
(* seed is fixed, so the rows are the same.                                  *)
WriteReference(p) ==
    /\ job[p].step = "reference"
    /\ job' = [job EXCEPT ![p].step = IF job[p].promoted THEN "gate" ELSE "rollback",
                          ![p].left = RetrainNames]
    /\ UNCHANGED <<files, reports, retrainRuns, candidate, trained, retrainDied, overlapped>>

\* validate_model_promotion_robustness raises: nothing more is written.
Gate(p) == IF candidate[job[p].version].robust THEN [job[p] EXCEPT !.step = "file"] ELSE IdleJob

CheckRobustness(p) ==
    /\ job[p].step = "gate"
    /\ job' = [job EXCEPT ![p] = Gate(p)]
    /\ UNCHANGED <<files, reports, retrainRuns, candidate, trained, retrainDied, overlapped>>

\* {n}.joblib is dumped and signed, then the versioned file of the same model.
SaveFile(p, n) ==
    /\ job[p].step = "file" /\ n \in job[p].left
    /\ retrainFile' = [retrainFile EXCEPT ![n] = job[p].version]
    /\ job' = [job EXCEPT ![p].step = "pointer", ![p].left = @ \ {n}]
    /\ UNCHANGED <<live, meta, reports, retrainRuns, candidate, trained, retrainDied, overlapped>>

\* Then the pointers of the models saved so far, until all are.
SavePointer(p) ==
    /\ job[p].step = "pointer"
    /\ live' = [n \in RetrainNames |-> IF n \in job[p].left THEN live[n] ELSE job[p].version]
    /\ job' = [job EXCEPT ![p].step = IF job[p].left = {} THEN "metadata" ELSE "file"]
    /\ UNCHANGED <<retrainFile, meta, reports, retrainRuns, candidate, trained, retrainDied, overlapped>>

\* The new metadata holds no importances until save_shap_importances.
SaveMetadata(p) ==
    /\ job[p].step = "metadata"
    /\ meta' = [version |-> job[p].version, auc |-> candidate[job[p].version].auc, shap |-> FALSE]
    /\ job' = [job EXCEPT ![p].step = "extras"]
    /\ UNCHANGED <<live, retrainFile, reports, retrainRuns, candidate, trained, retrainDied, overlapped>>

\* Calibrators, metrics.json and the meta-learner, which re-writes metadata.
SaveExtras(p) ==
    /\ job[p].step = "extras"
    /\ job' = [job EXCEPT ![p].step = "shap"]
    /\ UNCHANGED <<files, reports, retrainRuns, candidate, trained, retrainDied, overlapped>>

\* The importances are merged into whatever metadata is there; the model
\* cards that follow change nothing here.
SaveShap(p) ==
    /\ job[p].step = "shap"
    /\ meta' = [meta EXCEPT !.shap = TRUE]
    /\ job' = [job EXCEPT ![p].step = "record", ![p].left = RetrainNames]
    /\ UNCHANGED <<live, retrainFile, reports, retrainRuns, candidate, trained, retrainDied, overlapped>>

\* Not promoted: the pointers are set to the versions read before.
Rollback(p) ==
    /\ job[p].step = "rollback"
    /\ live' = job[p].oldVersions
    /\ job' = [job EXCEPT ![p].step = "record", ![p].left = RetrainNames]
    /\ UNCHANGED <<retrainFile, meta, reports, retrainRuns, candidate, trained, retrainDied, overlapped>>

SaveRetrainRun(p, n) ==
    /\ job[p].step = "record" /\ n \in job[p].left
    /\ retrainRuns' = retrainRuns \cup {[name |-> n, old |-> job[p].oldVersions[n], new |-> live[n],
                                         promoted |-> job[p].promoted]}
    /\ job' = [job EXCEPT ![p] = IF job[p].left = {n} THEN IdleJob ELSE [@ EXCEPT !.left = @ \ {n}]]
    /\ UNCHANGED <<files, reports, candidate, trained, retrainDied, overlapped>>

RetrainDies(p) ==
           /\ job[p].step # "idle" /\ job' = [job EXCEPT ![p] = IdleJob]
           /\ retrainDied' = TRUE
           /\ UNCHANGED <<files, reports, retrainRuns, candidate, trained, overlapped>>

RetrainNext == \E p \in RetrainProcs :
           \/ Check(p) \/ Train(p) \/ WriteReference(p) \/ CheckRobustness(p)
           \/ (\E n \in RetrainNames : SaveFile(p, n) \/ SaveRetrainRun(p, n))
           \/ SavePointer(p) \/ SaveMetadata(p) \/ SaveExtras(p) \/ SaveShap(p)
           \/ Rollback(p) \/ RetrainDies(p)

RetrainSpec == RetrainInit /\ [][RetrainNext]_retrainVars

----------------------------------------------------------------------------
Live == {live[n] : n \in RetrainNames} \ {RetrainNone}

\* Every live version passed the three gates.
LivePassedGates ==
    \A v \in Live : LET c == candidate[v] IN
        c.robust /\ (c.stable \/ c.forced) /\ \E n \in RetrainNames : c.auc[n] >= c.old[n]

\* One retraining at a time, undisturbed, leaves one version everywhere.
EnsembleIsOne ==
    ~retrainDied /\ ~overlapped /\ (\A p \in RetrainProcs : job[p] = IdleJob) =>
        \A n \in RetrainNames : /\ live[n] = meta.version /\ retrainFile[n] = meta.version
                                /\ meta.version # RetrainNone => meta.auc = candidate[meta.version].auc /\ meta.shap

\* What retrain_runs says of a promotion is what the pointers did.
RunsAreTrue ==
    ~retrainDied /\ ~overlapped => \A r \in retrainRuns : r.promoted <=> r.new # r.old

(* An ensemble goes live only through the stability, AUC and robustness      *)
(* gates, and one undisturbed retraining leaves files, pointers, metadata    *)
(* and history in step.                                                      *)
RetrainingIsGated == LivePassedGates /\ EnsembleIsOne /\ RunsAreTrue

-----------------------------------------------------------------------------
(***************************************************************************)
(* detection/shadow_scoring.py: a candidate model scores beside production *)
(* and every pair of scores is stored; a canary run is started for a       *)
(* candidate and evaluated, possibly again, against its threshold, while   *)
(* other workers keep storing scores.                                      *)
(*                                                                         *)
(* Scores are small integers.  Means are compared by cross-multiplication, *)
(* as sums: [n, sum].                                                      *)
(***************************************************************************)

CONSTANTS CanaryVersions, Scores,
          Thresholds, AlertRates,     \* divergences, of scores and of alert rates
          NormalMax, Sustained,       \* divergence_out_of_range
          CanaryMaxRows, CanaryMaxRuns            \* bounds

VARIABLES
    canaryRows,       \* table shadow_scores, by id: [version, production, shadow]
    canaryRuns,       \* table canary_runs, by id
    means       \* the window means handed to divergence_out_of_range

canaryVars == <<canaryRows, canaryRuns, means>>

Divergence(r) == IF r.production > r.shadow THEN r.production - r.shadow
                                            ELSE r.shadow - r.production

\* COUNT and AVG of one SELECT.
Evidence(s) == [n |-> Len(s), sum |-> FoldSeq(LAMBDA r, acc : acc + Divergence(r), 0, s)]

CanaryTypeOK == /\ Len(canaryRows) <= CanaryMaxRows /\ Len(canaryRuns) <= CanaryMaxRuns
                /\ \A i \in DOMAIN canaryRuns : canaryRuns[i].status \in {"running", "passed", "rolled_back"}

CanaryInit == canaryRows = <<>> /\ canaryRuns = <<>> /\ means = <<>>

StoreShadowScore(v, p, s) ==
    /\ Len(canaryRows) < CanaryMaxRows
    /\ canaryRows' = Append(canaryRows, [version |-> v, production |-> p, shadow |-> s])
    /\ UNCHANGED <<canaryRuns, means>>

StartCanary(v, t) ==
    /\ Len(canaryRuns) < CanaryMaxRuns
    /\ canaryRuns' = Append(canaryRuns, [candidate |-> v, threshold |-> t, status |-> "running",
                                         since |-> Len(canaryRows), of |-> [n |-> 0, sum |-> 0], alerts |-> 0])
    /\ UNCHANGED <<canaryRows, means>>

Exceeded(e, alerts, t) == e.sum > t * e.n \/ alerts > t

\* evaluate_canary: every stored score counts, whichever candidate it is of,
\* and a run that was already judged is judged again.
EvaluateCanary(i, alerts) ==
    LET e == Evidence(canaryRows) IN
    /\ i \in DOMAIN canaryRuns
    /\ canaryRuns' = [canaryRuns EXCEPT ![i].status = IF Exceeded(e, alerts, canaryRuns[i].threshold)
                                                        THEN "rolled_back" ELSE "passed",
                                        ![i].of = e, ![i].alerts = alerts]
    /\ UNCHANGED <<canaryRows, means>>

\* A monitoring window closes with its mean; only the last ones matter.
WindowMean(m) == /\ means' = SubSeq(Append(means, m), Max({1, Len(means) + 2 - Sustained}),
                                    Len(means) + 1)
                 /\ UNCHANGED <<canaryRows, canaryRuns>>

DivergenceOutOfRange == /\ Len(means) >= Sustained
                        /\ \A i \in Len(means) - Sustained + 1 .. Len(means) : means[i] > NormalMax

CanaryNext ==
          \/ \E v \in CanaryVersions, p, s \in Scores : StoreShadowScore(v, p, s)
          \/ \E v \in CanaryVersions, t \in Thresholds : StartCanary(v, t)
          \/ \E i \in 1 .. CanaryMaxRuns, a \in AlertRates : EvaluateCanary(i, a)
          \/ \E m \in Scores : WindowMean(m)

CanarySpec == CanaryInit /\ [][CanaryNext]_canaryVars
-----------------------------------------------------------------------------
\* get_shadow_report: the stored divergences in order, and their percentile.
CanarySorted ==
    LET d    == [i \in DOMAIN canaryRows |-> Divergence(canaryRows[i])]
        Before(j, i) == d[j] < d[i] \/ (d[j] = d[i] /\ j < i)
    IN [k \in DOMAIN canaryRows |->
          d[CHOOSE i \in DOMAIN canaryRows : Cardinality({j \in DOMAIN canaryRows : Before(j, i)}) = k - 1]]

NearestRank(s, percent) ==
    LET index == (((Len(s) * percent) + 99) \div 100) - 1
    IN IF s = <<>> THEN 0 ELSE s[Min({Max({0, index}), Len(s) - 1}) + 1]

(* The verdict recorded on a run follows from the evidence recorded with   *)
(* it, and that evidence is all scores stored up to one moment, though     *)
(* workers store more meanwhile and runs are judged again; and the         *)
(* reported percentile is a stored divergence with at most that share      *)
(* above it.                                                               *)
VerdictsFollowEvidence ==
    /\ \A i \in DOMAIN canaryRuns : canaryRuns[i].status # "running" =>
         /\ canaryRuns[i].of = Evidence(SubSeq(canaryRows, 1, canaryRuns[i].of.n))
         /\ (canaryRuns[i].status = "rolled_back") <=>
              \/ canaryRuns[i].of.sum > canaryRuns[i].threshold * canaryRuns[i].of.n
              \/ canaryRuns[i].alerts > canaryRuns[i].threshold
    /\ canaryRows # <<>> =>
         LET p95 == NearestRank(CanarySorted, 95)
         IN 100 * Cardinality({i \in DOMAIN canaryRows : Divergence(canaryRows[i]) > p95}) <= 5 * Len(canaryRows)
    /\ DivergenceOutOfRange => Min({means[i] : i \in DOMAIN means}) > NormalMax

-----------------------------------------------------------------------------
(***************************************************************************)
(* scripts/train_lstm_autoencoder.py: training with early stopping,        *)
(* checkpoints and resumption, the model file and its checksum, and the    *)
(* reader of both in an API worker (temporal_router._get_lstm_model,       *)
(* temporal_patterns.load_lstm_autoencoder).                               *)
(*                                                                         *)
(* The script seeds every generator, and a checkpoint carries weights,     *)
(* optimiser and generator states, so the weights are named by the data    *)
(* set and the number of epochs trained on it, and the validation loss of  *)
(* an epoch is a fixed function of them (any function: chosen in Init).    *)
(***************************************************************************)

CONSTANTS Losses,             \* values of a validation loss
          Patience, CheckpointEvery,
          Workers,            \* API processes
          MaxEpochs, LstmMaxRuns, MaxReloads   \* bounds

Datasets == {1, 2}
Inf == Max(Losses) + 1        \* float("inf"), above every loss
NoWeights == [data |-> 0, epoch |-> 0]
Torn == [data |-> 0, epoch |-> 1]        \* a file being written
LstmIdle == [pc |-> "idle"]

VARIABLES
    loss,       \* the validation loss of each data set and epoch
    data,       \* what feature_distribution_snapshots now holds
    run,        \* the training process
    ckpt,       \* epoch -> checkpoint file, or Idle when there is none
    lstmFile, lstmSum,  \* lstm_autoencoder.pt and the weights its .sha256 is of
    lstm,       \* worker -> [loaded, model]: _lstm_loaded, _lstm_model
    saved,      \* history: weights that were saved completely
    lstmRuns, reloads

lstmVars == <<loss, data, run, ckpt, lstmFile, lstmSum, lstm, saved, lstmRuns, reloads>>

Weights == [data : Datasets, epoch : 1 .. MaxEpochs]

LstmTypeOK ==
    /\ data \in Datasets /\ saved \subseteq Weights
    /\ run.pc \in {"idle", "epoch", "open", "write", "sum"}
    /\ lstmFile \in Weights \cup {NoWeights, Torn} /\ lstmSum \in Weights \cup {NoWeights}
    /\ lstm \in [Workers -> [loaded : BOOLEAN, model : Weights \cup {NoWeights}]]

LstmInit ==
        /\ loss \in [Datasets -> [1 .. MaxEpochs -> Losses]] /\ data = 1 /\ run = LstmIdle
        /\ ckpt = [e \in 1 .. MaxEpochs |-> LstmIdle] /\ lstmFile = NoWeights /\ lstmSum = NoWeights
        /\ lstm = [w \in Workers |-> [loaded |-> FALSE, model |-> NoWeights]]
        /\ saved = {} /\ lstmRuns = 0 /\ reloads = 0

NewSnapshots == /\ data' = 3 - data /\ lstmRuns < LstmMaxRuns
                /\ UNCHANGED <<loss, run, ckpt, lstmFile, lstmSum, lstm, saved, lstmRuns, reloads>>

\* _train without a checkpoint.
Fresh(epochs) ==
    [pc |-> "epoch", data |-> data, epochs |-> epochs, epoch |-> 0, best |-> Inf,
     bestEpoch |-> 0, patience |-> 0, rested |-> FALSE]

\* _train with one: everything but the number of epochs is the checkpoint's.
\* rested (history) marks training continued after it had stopped early.
FromCheckpoint(c, epochs) ==
    [c EXCEPT !.pc = "epoch", !.epochs = epochs, !.rested = @ \/ c.patience >= Patience]

Start(epochs) ==
    /\ run = LstmIdle /\ lstmRuns < LstmMaxRuns /\ lstmRuns' = lstmRuns + 1
    /\ run' = Fresh(epochs)
    /\ UNCHANGED <<loss, data, ckpt, lstmFile, lstmSum, lstm, saved, reloads>>

\* --resume-from-checkpoint: another data set, or no epoch left, is an error.
Resume(e, epochs) ==
    /\ run = LstmIdle /\ lstmRuns < LstmMaxRuns /\ lstmRuns' = lstmRuns + 1 /\ ckpt[e] # LstmIdle
    /\ run' = IF ckpt[e].data = data /\ epochs > e THEN FromCheckpoint(ckpt[e], epochs) ELSE LstmIdle
    /\ UNCHANGED <<loss, data, ckpt, lstmFile, lstmSum, lstm, saved, reloads>>

\* One epoch: train, validate, keep the best, checkpoint, stop.
Epoch ==
    LET e == run.epoch + 1
        better == loss[run.data][e] < run.best
        after == [run EXCEPT !.epoch = e,
                     !.best = IF better THEN loss[run.data][e] ELSE @,
                     !.bestEpoch = IF better THEN e ELSE @,
                     !.patience = IF better THEN 0 ELSE @ + 1]
        stop == ~better /\ after.patience >= Patience
    IN /\ run.pc = "epoch"
       /\ run' = [after EXCEPT !.pc = IF stop \/ e = run.epochs THEN "open" ELSE "epoch"]
       /\ ckpt' = IF e % CheckpointEvery = 0 \/ e = run.epochs \/ stop
                    THEN [ckpt EXCEPT ![e] = after] ELSE ckpt
       /\ UNCHANGED <<loss, data, lstmFile, lstmSum, lstm, saved, lstmRuns, reloads>>

BestState == [data |-> run.data, epoch |-> run.bestEpoch]

\* torch.save rewrites the model file in place; the checksum follows.
SaveModel ==
    /\ run.pc \in {"open", "write", "sum"}
    /\ run' = CASE run.pc = "open" -> [run EXCEPT !.pc = "write"]
                [] run.pc = "write" -> [run EXCEPT !.pc = "sum"]
                [] run.pc = "sum" -> LstmIdle
    /\ lstmFile' = IF run.pc = "sum" THEN lstmFile ELSE IF run.pc = "open" THEN Torn ELSE BestState
    /\ lstmSum' = IF run.pc = "sum" THEN lstmFile ELSE lstmSum
    /\ saved' = IF run.pc = "write" THEN saved \cup {BestState} ELSE saved
    /\ UNCHANGED <<loss, data, ckpt, lstm, lstmRuns, reloads>>

LstmCrash == /\ run # LstmIdle /\ run' = LstmIdle
             /\ UNCHANGED <<loss, data, ckpt, lstmFile, lstmSum, lstm, saved, lstmRuns, reloads>>

\* A checksum file that is there must be that of the model file.
Verified == lstmSum = NoWeights \/ lstmSum = lstmFile

\* _get_lstm_model tries once per process, and a failure is final.
LstmLoad(w) ==
        /\ ~lstm[w].loaded
        /\ lstm' = [lstm EXCEPT ![w] = [loaded |-> TRUE,
                      model |-> IF Verified /\ lstmFile # Torn THEN lstmFile ELSE NoWeights]]
        /\ UNCHANGED <<loss, data, run, ckpt, lstmFile, lstmSum, saved, lstmRuns, reloads>>

RestartWorker(w) ==
    /\ lstm[w].loaded /\ reloads < MaxReloads /\ reloads' = reloads + 1
    /\ lstm' = [lstm EXCEPT ![w] = [loaded |-> FALSE, model |-> NoWeights]]
    /\ UNCHANGED <<loss, data, run, ckpt, lstmFile, lstmSum, saved, lstmRuns>>

LstmNext ==
        \/ NewSnapshots \/ Epoch \/ SaveModel \/ LstmCrash
        \/ \E n \in 1 .. MaxEpochs : Start(n) \/ \E e \in 1 .. MaxEpochs : Resume(e, n)
        \/ \E w \in Workers : LstmLoad(w) \/ RestartWorker(w)

LstmSpec == LstmInit /\ [][LstmNext]_lstmVars
-----------------------------------------------------------------------------
\* The epochs before or at n whose loss is below every earlier one.
Improved(d, n) == {k \in 1 .. n : \A j \in 1 .. k - 1 : loss[d][j] > loss[d][k]}

\* Where training that is never interrupted stops.
Stopped(d, n) ==
    Min({e \in 1 .. n : e - Max(Improved(d, e)) >= Patience} \cup {n})

(* Reproducible: however training crashes and is resumed from whichever    *)
(* checkpoint file, what it is about to save is what uninterrupted         *)
(* training of the same length on the same data saves - unless it was      *)
(* resumed from the checkpoint of an early stop, whose extra epoch the     *)
(* loop runs before it looks at the patience again.  And a worker serves   *)
(* weights that a run saved completely, though files are rewritten in      *)
(* place while workers read them.                                          *)
TrainingIsReproducible ==
    /\ run.pc = "open" /\ ~run.rested =>
         run.bestEpoch = Max(Improved(run.data, Stopped(run.data, run.epochs)))
    /\ \A w \in Workers : lstm[w].model \in saved \cup {NoWeights}

-----------------------------------------------------------------------------
(* detection/dataset.py and the splits of detection/model_training.py: the  *)
(* rows of a training set are cut into calibration, training and test rows  *)
(* by time with a purge gap, or at random when the gap leaves nothing, and  *)
(* the stacking folds walk forward over the training rows.                  *)

CONSTANTS SplitMaxRows,              \* bound: rows
          Times,                \* their timestamps
          CalDivisor,           \* 1 / val_ratio of the calibration split
          TestDivisor,          \* 1 / val_ratio of the test split
          Window, Gap,          \* max_window_days, gap_days
          Splits                \* n_splits of the walk-forward folds

VARIABLES
    stage,      \* "start", "data", "held", "split" or "failed"
    ts,         \* ts[i]: the timestamp of row i
    believed,   \* the timestamp the second split uses for a remaining row
    rest, cal,  \* the first split: remaining and calibration rows, in order
    train, test,    \* the second one
    random      \* history: the splits that fell back to a random one

splitVars == <<stage, ts, believed, rest, cal, train, test, random>>

SplitTypeOK ==
    /\ stage \in {"start", "data", "held", "split", "failed"}
    /\ ts \in UNION {[1 .. n -> Times] : n \in 0 .. SplitMaxRows}
    /\ ToSet(rest) \cup ToSet(cal) \cup ToSet(train) \cup ToSet(test) \subseteq 1 .. SplitMaxRows
    /\ random \subseteq {"cal", "test"}

SplitInit ==
         /\ stage = "start" /\ ts = <<>> /\ believed = <<>> /\ random = {}
         /\ rest = <<>> /\ cal = <<>> /\ train = <<>> /\ test = <<>>

\* A data set of at least two rows with a timestamp each.
SplitLoad ==
         /\ stage = "start" /\ stage' = "data"
         /\ \E n \in 2 .. SplitMaxRows : ts' \in [1 .. n -> Times]
         /\ UNCHANGED <<believed, rest, cal, train, test, random>>

----------------------------------------------------------------------------
\* np.argsort over the rows given: the k-th has k - 1 rows before it.
SplitSorted(rows, time) ==
    LET Before(r) == {q \in rows : time[q] < time[r] \/ (time[q] = time[r] /\ q < r)}
    IN  [k \in 1 .. Cardinality(rows) |-> CHOOSE r \in rows : Cardinality(Before(r)) = k - 1]

\* cutoff_ts is the timestamp at position int(n * (1 - val_ratio)), from 0;
\* the rows too close to it on either side are in neither part.
ByTime(rows, time, divisor) ==
    LET sorted == SplitSorted(rows, time)
        cutoff == time[sorted[(Len(sorted) * (divisor - 1)) \div divisor + 1]]
    IN  <<SelectSeq(sorted, LAMBDA r : time[r] < cutoff - Window),
          SelectSeq(sorted, LAMBDA r : time[r] >= cutoff + Gap)>>

ByRow(rows) == SplitSorted(rows, [r \in rows |-> 0])

\* train_test_split: a random choice of ceil(n / divisor) rows.  The order
\* it returns them in is one of many; here, by row.
RandomSplits(rows, divisor) ==
    {<<ByRow(rows \ val), ByRow(val)>> :
        val \in kSubset((Cardinality(rows) + divisor - 1) \div divisor, rows)}

\* temporal_train_val_split falls back when no validation row is left.
Splits2(rows, time, divisor) ==
    LET s == ByTime(rows, time, divisor)
    IN  IF s[2] = <<>> THEN RandomSplits(rows, divisor) ELSE {s}
FallsBack(rows, time, divisor) == ByTime(rows, time, divisor)[2] = <<>>

\* _extract_timestamps_from_array: the earliest timestamps, by position.
BelievedTimes(order) ==
    LET sorted == SplitSorted(DOMAIN ts, ts)
    IN  [i \in ToSet(order) |-> ts[sorted[CHOOSE k \in 1 .. Len(order) : order[k] = i]]]

\* The calibration rows are held out first.
HoldOut ==
    /\ stage = "data"
    /\ \E s \in Splits2(DOMAIN ts, ts, CalDivisor) :
          /\ rest' = s[1] /\ cal' = s[2] /\ believed' = BelievedTimes(s[1])
          /\ stage' = IF s[1] = <<>> THEN "failed" ELSE "held"
    /\ random' = IF FallsBack(DOMAIN ts, ts, CalDivisor) THEN {"cal"} ELSE {}
    /\ UNCHANGED <<ts, train, test>>

\* The remaining rows are split again by the timestamps they are given; a
\* random split of one row raises.
Split ==
    /\ stage = "held"
    /\ LET rows == ToSet(rest)  empty == FallsBack(rows, believed, TestDivisor)
       IN  /\ random' = IF empty THEN random \cup {"test"} ELSE random
           /\ IF empty /\ Len(rest) < 2
              THEN stage' = "failed" /\ UNCHANGED <<train, test>>
              ELSE \E s \in Splits2(rows, believed, TestDivisor) :
                     train' = s[1] /\ test' = s[2] /\ stage' = "split"
    /\ UNCHANGED <<ts, believed, rest, cal>>

SplitDone == stage \in {"split", "failed"} /\ UNCHANGED splitVars

SplitNext == SplitLoad \/ HoldOut \/ Split \/ SplitDone

SplitSpec == SplitInit /\ [][SplitNext]_splitVars

----------------------------------------------------------------------------
(* model_training._walk_forward_cv over n rows: positions from 0.           *)
FoldSize(n) == n \div (Splits + 1)
Fold(n, f) ==
    LET trainEnd == FoldSize(n) * (f + 1)  valStart == trainEnd + Gap
    IN  [train |-> 0 .. trainEnd - 1, val |-> valStart .. Min({valStart + FoldSize(n), n}) - 1]
WalkForward(n) ==
    {Fold(n, f) : f \in {f \in 0 .. Splits - 1 :
        Cardinality(Fold(n, f).train) >= 2 /\ Cardinality(Fold(n, f).val) >= 2}}

(* dataset.walk_forward_cv: the folds cut the time span.  Times are         *)
(* multiplied by Splits + 1, so that a fold's duration is the span.         *)
TimeFold(i) ==
    LET first == Min(ToSet(ts))  span == Max(ToSet(ts)) - first  k == Splits + 1
        trainEnd == k * first + span * i  valStart == trainEnd + k * Gap
    IN  [train |-> {r \in DOMAIN ts : k * ts[r] < trainEnd},
         val |-> {r \in DOMAIN ts : k * ts[r] >= valStart /\ k * ts[r] < valStart + span}]
TimeFolds == {TimeFold(i) : i \in {i \in 1 .. Splits : TimeFold(i).train # {} /\ TimeFold(i).val # {}}}

(* data_leakage_audit: the earliest validation window begins after the last *)
(* training row.                                                            *)
AuditPasses(tr, val) ==
    tr = {} \/ val = {} \/ Min({ts[v] : v \in val}) - Window >= Max({ts[t] : t \in tr})

----------------------------------------------------------------------------
\* No row is used twice.
RowsUsedOnce ==
    /\ ToSet(cal) \cap ToSet(rest) = {}
    /\ ToSet(train) \cap ToSet(test) = {} /\ ToSet(train) \cup ToSet(test) \subseteq ToSet(rest)

\* Whatever was split by time keeps the purge gap in true time.
GapKept ==
    /\ "cal" \notin random => \A c \in ToSet(cal), r \in ToSet(rest) : ts[c] - ts[r] > Gap + Window
    /\ random = {} => /\ \A v \in ToSet(test), t \in ToSet(train) : ts[v] - ts[t] > Gap + Window
                      /\ AuditPasses(ToSet(train), ToSet(test))

\* Folds train on the past only, and validate each row at most once.
FoldsWalkForward ==
    /\ stage = "start" => \A n \in 0 .. 12 : \A f \in WalkForward(n) :
          /\ \A t \in f.train, v \in f.val : t + Gap < v /\ v < n
          /\ \A g \in WalkForward(n) : f # g => f.val \cap g.val = {}
    /\ ts # <<>> => \A f \in TimeFolds : \A t \in f.train, v \in f.val : ts[t] + Gap < ts[v]

(* Neither the double split, whose second half works on timestamps recovered *)
(* by position, nor the folds let a row later than the purge gap into         *)
(* training, unless a split fell back to a random one.                        *)
SplitDoesNotLeak == RowsUsedOnce /\ GapKept /\ FoldsWalkForward

-----------------------------------------------------------------------------
(* detection/drift_monitor.py: the snapshots of scored features and their   *)
(* pruning, the PSI alert with its cooldown and its webhooks, the PSI trend *)
(* of a feature, and the F1 of analyst feedback.  PSI values are numbers    *)
(* the histograms give; here they are chosen from small sets.               *)

CONSTANTS Checkers,         \* processes that run the checks
          DriftMaxRows, KeepRows,    \* MAX_SNAPSHOT_ROWS, MIN_SNAPSHOT_ROWS_AFTER_PRUNE
          Cooldown,         \* cooldown_hours
          Day,              \* hours of the trend's window
          MinSamples,       \* performance_min_feedback_samples
          MaxHour,          \* bound: the clock
          DriftMaxOps            \* bound: operations in all

Hours == 0 .. MaxHour
Psis == {0, 12, 30}         \* hundredths: nothing, a warning, critical
Outcomes == {"tp", "fp", "fn", "tn"}    \* of a labelled prediction

VARIABLES
    hour, driftOps,
    snaps,      \* snaps[h]: snapshot rows of time h
    recorded,   \* history: recorded[h]: rows ever inserted with time h
    driftAlerts,     \* feature_drift rows: [at, by]
    pc,         \* pc[c]: "idle", "insert" or "notify"
    raced,      \* history: alerts inserted after another's query and before its insert
    told,       \* history: alerts whose webhooks were enqueued
    driftDied,       \* history: alerts whose process died before that
    trend,      \* feature_psi_trend of one feature: [at, psi, level]
    labels,     \* feedback_labels: [at, outcome]
    degraded    \* model_degradation rows

driftVars == <<hour, driftOps, snaps, recorded, driftAlerts, pc, raced, told, driftDied, trend, labels, degraded>>

DriftTypeOK ==
    /\ hour \in Hours /\ driftOps \in 0 .. DriftMaxOps
    /\ snaps \in [Hours -> Nat] /\ recorded \in [Hours -> Nat]
    /\ driftAlerts \subseteq [at : Hours, by : Checkers] /\ told \cup driftDied \cup raced \subseteq driftAlerts
    /\ \A c \in Checkers : pc[c].step \in {"idle", "insert", "notify"}

DriftIdle == [step |-> "idle", at |-> 0]

DriftInit ==
         /\ hour = 0 /\ driftOps = 0 /\ snaps = [h \in Hours |-> 0] /\ recorded = snaps
         /\ driftAlerts = {} /\ raced = {} /\ told = {} /\ driftDied = {}
         /\ pc = [c \in Checkers |-> DriftIdle]
         /\ trend = <<>> /\ labels = <<>> /\ degraded = 0

DriftTick ==
         /\ hour < MaxHour /\ hour' = hour + 1
         /\ UNCHANGED <<driftOps, snaps, recorded, driftAlerts, pc, raced, told, driftDied, trend, labels, degraded>>

Operation == driftOps < DriftMaxOps /\ driftOps' = driftOps + 1
alerting == <<driftAlerts, pc, raced, told, driftDied>>

----------------------------------------------------------------------------
Total(f, S) == MapThenSumSet(LAMBDA h : f[h], S)

\* The times of the KeepRows newest rows: their sub-select.
NewestTimes(f) == {h \in Hours : f[h] > 0 /\ Total(f, {g \in Hours : g > h}) < KeepRows}

\* The DELETE spares every row that shares its time with one of them.
Pruned(f) == [h \in Hours |-> IF h \in NewestTimes(f) THEN f[h] ELSE 0]

\* A batch is inserted and committed, then the table is pruned if it is over.
RecordScoredFeatures(n) ==
    /\ Operation
    /\ LET grown == [snaps EXCEPT ![hour] = @ + n]
       IN  snaps' = IF Total(grown, Hours) > DriftMaxRows THEN Pruned(grown) ELSE grown
    /\ recorded' = [recorded EXCEPT ![hour] = @ + n]
    /\ UNCHANGED <<hour, alerting, trend, labels, degraded>>

\* run_drift_report and compute_per_feature_psi read the rows of the window.
ReportRows(days) == {h \in Hours : snaps[h] > 0 /\ h + days >= hour}

\* check_psi_and_alert: enough features drifted and nobody alerted lately.
CoolingDown == \E a \in driftAlerts : a.at + Cooldown > hour

CheckPsi(c) ==
    /\ Operation
    /\ ReportRows(MaxHour) # {} /\ pc[c] = DriftIdle /\ ~CoolingDown
    /\ pc' = [pc EXCEPT ![c] = [step |-> "insert", at |-> hour]]
    /\ UNCHANGED <<hour, snaps, recorded, driftAlerts, raced, told, driftDied, trend, labels, degraded>>

InsertAlert(c) ==
    /\ pc[c].step = "insert"
    /\ driftAlerts' = driftAlerts \cup {[at |-> hour, by |-> c]}
    /\ raced' = IF CoolingDown THEN raced \cup {[at |-> hour, by |-> c]} ELSE raced
    /\ pc' = [pc EXCEPT ![c] = [step |-> "notify", at |-> hour]]
    /\ UNCHANGED <<hour, driftOps, snaps, recorded, told, driftDied, trend, labels, degraded>>

\* The webhooks of the alert are enqueued; a failure is swallowed.
Notify(c) ==
    /\ pc[c].step = "notify"
    /\ told' = told \cup {[at |-> pc[c].at, by |-> c]}
    /\ pc' = [pc EXCEPT ![c] = DriftIdle]
    /\ UNCHANGED <<hour, driftOps, snaps, recorded, driftAlerts, raced, driftDied, trend, labels, degraded>>

DriftDies(c) ==
         /\ pc[c] # DriftIdle
         /\ driftDied' = IF pc[c].step = "notify" THEN driftDied \cup {[at |-> pc[c].at, by |-> c]} ELSE driftDied
         /\ pc' = [pc EXCEPT ![c] = DriftIdle]
         /\ UNCHANGED <<hour, driftOps, snaps, recorded, driftAlerts, raced, told, trend, labels, degraded>>

----------------------------------------------------------------------------
\* DriftMonitor._escalate with the default thresholds.
Escalate(psi) == IF psi >= 25 THEN "critical" ELSE IF psi >= 20 THEN "error"
                 ELSE IF psi >= 10 THEN "warning" ELSE "ok"

\* evaluate: the value is recorded first, then its trend is read.
Evaluate(psi) ==
    /\ Operation
    /\ trend' = Append(trend, [at |-> hour, psi |-> psi, level |-> Escalate(psi)])
    /\ UNCHANGED <<hour, snaps, recorded, alerting, labels, degraded>>

Recent(t) == SelectSeq(t, LAMBDA r : r.at + Day >= hour)
Earlier(t) == SelectSeq(t, LAMBDA r : r.at + Day < hour)

\* compute_trend: against the last value before the day, or the day's first.
ComputeTrend ==
    LET rows == Recent(trend)  previous == Earlier(trend)
        base == IF previous # <<>> THEN Last(previous) ELSE Head(rows)
        delta == Last(rows).psi - base.psi
    IN  IF rows = <<>> \/ (previous = <<>> /\ Len(rows) = 1) THEN "stable"
        ELSE IF delta > 2 THEN "rising" ELSE IF delta < -2 THEN "falling" ELSE "stable"

RecordFeedback(o) ==
    /\ Operation
    /\ labels' = Append(labels, [at |-> hour, outcome |-> o])
    /\ UNCHANGED <<hour, snaps, recorded, alerting, trend, degraded>>

Count(o) == Len(SelectSeq(labels, LAMBDA l : l.outcome = o))

\* compute_performance_metrics, as fractions <<numerator, denominator>>.
Precision == IF Count("tp") + Count("fp") = 0 THEN <<1, 1>>
             ELSE <<Count("tp"), Count("tp") + Count("fp")>>
Recall == IF Count("tp") + Count("fn") = 0 THEN <<0, 1>>
          ELSE <<Count("tp"), Count("tp") + Count("fn")>>
F1 == LET p == Precision  r == Recall
          sum == p[1] * r[2] + r[1] * p[2]
      IN  IF sum = 0 THEN <<0, 1>> ELSE <<2 * p[1] * r[1], sum>>

\* check_degradation against a baseline F1 of one half and a drop of 0.05:
\* the alert is saved each time, there is no cooldown here.
CheckDegradation ==
    /\ Operation
    /\ Len(labels) >= MinSamples
    /\ 20 * F1[1] < 9 * F1[2]
    /\ degraded' = degraded + 1
    /\ UNCHANGED <<hour, snaps, recorded, alerting, trend, labels>>

DriftNext ==
         \/ DriftTick
         \/ \E n \in 1 .. KeepRows + 1 : RecordScoredFeatures(n)
         \/ \E c \in Checkers : CheckPsi(c) \/ InsertAlert(c) \/ Notify(c) \/ DriftDies(c)
         \/ \E psi \in Psis : Evaluate(psi)
         \/ \E o \in Outcomes : RecordFeedback(o)
         \/ CheckDegradation

DriftSpec == DriftInit /\ [][DriftNext]_driftVars

----------------------------------------------------------------------------
\* Two alerts within a cooldown only when their checks overlapped.
CooldownHolds ==
    \A a, b \in driftAlerts : a # b /\ a.at <= b.at /\ b.at < a.at + Cooldown =>
        a \in raced \/ b \in raced

\* An alert that silences the next ones was announced, or is about to be.
AlertIsTold ==
    \A a \in driftAlerts : a \in told \cup driftDied \/ pc[a.by] = [step |-> "notify", at |-> a.at]

\* Pruning drops the oldest times first, and never below KeepRows rows.
NewestKept ==
    /\ \A g, h \in Hours : g < h /\ snaps[g] > 0 => snaps[h] = recorded[h]
    /\ Total(snaps, Hours) >= Min({KeepRows, Total(recorded, Hours)})

\* The F1 computed by way of precision and recall is 2tp / (2tp + fp + fn).
F1IsHarmonicMean ==
    LET tp == Count("tp")  wrong == Count("fp") + Count("fn")
    IN  IF tp = 0 THEN F1[1] = 0 ELSE F1[1] * (2 * tp + wrong) = 2 * tp * F1[2]

\* A trend is reported only for two values, and rises only if the value did.
TrendFollowsValues ==
    /\ ComputeTrend = "rising" => \E i \in 1 .. Len(trend) : trend[i].psi < Last(trend).psi
    /\ ComputeTrend = "falling" => \E i \in 1 .. Len(trend) : trend[i].psi > Last(trend).psi

(* Drift is announced once per cooldown although checks interleave and die; *)
(* the pruned snapshots are the newest; F1 and the trend are what they say. *)
DriftReportsAreSound ==
    CooldownHolds /\ AlertIsTold /\ NewestKept /\ F1IsHarmonicMean /\ TrendFollowsValues

=============================================================================
