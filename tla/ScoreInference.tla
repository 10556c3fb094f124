--------------------------- MODULE ScoreInference ---------------------------
(*****************************************************************************)
(* From features to a score: the ensemble vote with its interval, and the    *)
(* calibration of that interval.                                             *)
(*****************************************************************************)
EXTENDS Integers, Sequences, FiniteSets, FiniteSetsExt, SequencesExt

-----------------------------------------------------------------------------
(***************************************************************************)
(* detection/model_inference.py, detection/risk_score.py and the account   *)
(* loop of run_pipeline.py: loading the ensemble, the score of one feature *)
(* vector and of a batch, its conformal interval, the blend with Benford   *)
(* and the other signals, and the incremental scorer of cli.py that        *)
(* reports a score only when it moved by Delta.  Votes are in permille;    *)
(* scores, intervals and weights in percent.  What a model, the            *)
(* meta-learner or the temporal model predicts is external.  The rolling   *)
(* window that score_on_trade fills first is a component of its own.       *)
(***************************************************************************)

CONSTANTS
    Wallets,
    Voters,         \* random_forest, xgboost, lightgbm
    Weight,         \* voter -> ensemble weight
    Votes,          \* predict_proba, in permille
    Adversarial,    \* adversarial_feature_score
    QHats,          \* q_hat of the calibrators that may be loaded
    Mads,           \* benford_mad, in percent of its threshold
    Sandwich,       \* <<signal, weight>>
    Temporal,       \* temporal predictions; -1 where the history is too short
    TemporalWeight, \* settings.temporal_weight
    Delta,          \* score_delta_threshold
    MaxTrades

VARIABLES
    models,    \* loaded models
    last,      \* _last_scores, -999 for none
    shown,     \* per wallet the last score computed
    sent,      \* per wallet the last score given to the caller
    out,       \* what the pipeline made of the account at hand
    trades

scoreVars == <<models, last, shown, sent, out, trades>>

Loading == Voters \cup {"temporal_lstm", "sequence_model"}
Files == Loading \cup {"meta_learner", "gnn"}
FileStates == {"absent", "good", "unverified", "unloadable"}
NoOut == [ok |-> FALSE, piped |-> FALSE]

ScoreTypeOK ==
    /\ models \subseteq Files /\ trades \in 0 .. MaxTrades
    /\ \A w \in Wallets : last[w] \in {-999} \cup (0 .. 100)

ScoreInit ==
         /\ models = {} /\ last = [w \in Wallets |-> -999]
         /\ shown = [w \in Wallets |-> -999] /\ sent = [w \in Wallets |-> -999]
         /\ out = NoOut /\ trades = 0

-----------------------------------------------------------------------------
\* round() of Python: halves go to the even neighbour.
Round(n, d) ==
    LET q == n \div d
        r == 2 * (n % d)
    IN  IF r > d \/ (r = d /\ q % 2 = 1) THEN q + 1 ELSE q
Clamp(x) == Max({0, Min({100, x})})

\* What load_models returns: a checkpoint of the GNN only with torch_geometric.
Loaded(at, pyg) == {f \in Files : at[f] = "good" /\ (f = "gnn" => pyg)}

\* _load_models_base: every file of its list but two must verify and load with
\* joblib.  The list got temporal_model.pt as well, which torch writes and no
\* one signs: where that file is present, nothing loads.  A meta-learner that
\* verifies and does not load is left out.
Loads(at, pyg) ==
    /\ \A f \in Loading : at[f] \in {"absent", "good"}
    /\ at["sequence_model"] = "absent"
    /\ pyg => at["gnn"] \in {"absent", "good"}
    /\ at["meta_learner"] # "unverified"
    /\ Loaded(at, pyg) # {}

\* load_models, once per process; a process without models does not score.
LoadModels(at, pyg) ==
    /\ models = {}
    /\ models' = IF Loads(at, pyg) THEN Loaded(at, pyg) ELSE {}
    /\ UNCHANGED <<last, shown, sent, out, trades>>

-----------------------------------------------------------------------------
Voting == models \cap Voters
TotalWeight == MapThenSumSet(LAMBDA v : Weight[v], Voting)
UsesMeta == "meta_learner" \in models /\ Cardinality(Voting) >= 2

\* Scoring raises otherwise, and with it the run or the stream ends.
CanScore == UsesMeta \/ TotalWeight > 0

\* The ensemble's probability, as permille over a denominator.
Ensemble(p, meta) ==
    IF UsesMeta THEN [num |-> meta, den |-> 1]
    ELSE [num |-> MapThenSumSet(LAMBDA v : p[v] * Weight[v], Voting), den |-> TotalWeight]

\* apply_adversarial_boost
Boost(base, adv) == IF adv < 60 THEN base ELSE Clamp(base + ((20 * (adv - 60)) \div 40))

\* score_feature_vector, in percent: rounded, then boosted.
Single(p, meta, adv) ==
    LET e == Ensemble(p, meta) IN [num |-> Boost(Round(e.num, 10 * e.den), adv), den |-> 1]

\* score_feature_matrix, in percent: neither rounded nor boosted.  Its wrapper
\* looks for "gnn" among the feature vectors, where it never is.
Batch(p, meta) == LET e == Ensemble(p, meta) IN [num |-> e.num, den |-> 10 * e.den]

\* score_with_uncertainty with calibrators: the widest of them.
Interval(s, cals) ==
    LET q == Max(cals)
    IN  [lower |-> Max({0, s - q}), upper |-> Min({100, s + q}),
         classes |-> {0} \cup (IF 100 - s <= q THEN {1} ELSE {})]

\* RiskScore.combine with the sandwich signal; its copula and causal terms have
\* weight 0 in every call, where they change nothing.
Combine(prob, mad, sw) ==
    LET ten == 3 * Min({mad, 100}) * prob.den + 7 * prob.num
    IN  Clamp(Round((100 - sw[2]) * ten + 10 * sw[2] * sw[1] * prob.den, 1000 * prob.den))

\* adjust_score_with_temporal
Adjusted(score, t) ==
    IF "temporal_lstm" \notin models \/ t = -1 THEN score
    ELSE Clamp(Round((100 - TemporalWeight) * score + TemporalWeight * t, 100))

AfterScore_Always(w, s) == [last EXCEPT ![w] = s]

\* IncrementalScorer.score_on_trade: the baseline moves with what is reported.
Moved(w, s) == s - last[w] >= Delta \/ last[w] - s >= Delta
AfterScore(w, s) == IF Moved(w, s) THEN [last EXCEPT ![w] = s] ELSE last

\* ModelInference.score and the report.  Its GNN fusion looks for a model of a
\* name that load_models never returns.
ScoreOnTrade(w, p, meta, adv, mad) ==
    LET s == Combine(Single(p, meta, adv), mad, <<0, 0>>)
    IN  /\ trades < MaxTrades /\ trades' = trades + 1 /\ CanScore /\ out = NoOut
        /\ last' = AfterScore(w, s)
        /\ shown' = [shown EXCEPT ![w] = s]
        /\ sent' = IF Moved(w, s) THEN [sent EXCEPT ![w] = s] ELSE sent
        /\ UNCHANGED <<models, out>>

\* One account of a pipeline run: the batch probability without calibrators,
\* the single one and its interval with them.  The pipeline and the stream are
\* commands of their own: no process runs both.
ScoreAccount(p, meta, adv, cals, mad, sw, t) ==
    LET prob == IF cals = {} THEN Batch(p, meta) ELSE Single(p, meta, adv)
        base == [ok |-> TRUE, votes |-> {p[v] : v \in Voting}, adv |-> adv, meta |-> UsesMeta,
                 prob |-> prob, calibrated |-> cals # {},
                 score |-> Adjusted(Combine(prob, mad, sw), t)]
    IN  /\ CanScore /\ ~out.ok /\ trades = 0
        /\ out' = IF cals = {} THEN base ELSE [interval |-> Interval(prob.num, cals)] @@ base
        /\ UNCHANGED <<models, last, shown, sent, trades>>

\* The loop goes on to the next account.
NextAccount ==
    /\ out.ok /\ out' = [NoOut EXCEPT !.piped = TRUE]
    /\ UNCHANGED <<models, last, shown, sent, trades>>

ScoreNext ==
         \/ \E at \in [Files -> FileStates], pyg \in BOOLEAN : LoadModels(at, pyg)
         \/ \E p \in [Voters -> Votes], meta \in Votes, adv \in Adversarial, mad \in Mads :
             \/ \E w \in Wallets : ScoreOnTrade(w, p, meta, adv, mad)
             \/ \E cals \in SUBSET QHats, sw \in Sandwich, t \in Temporal :
                    ScoreAccount(p, meta, adv, cals, mad, sw, t)
         \/ NextAccount
ScoreSpec == ScoreInit /\ [][ScoreNext]_scoreVars

-----------------------------------------------------------------------------
(***************************************************************************)
(* The ensemble stays between its lowest and highest vote, but for the     *)
(* rounding of a single vector and a boost, which only raises it.  The     *)
(* conformal interval holds the ensemble's score, and class 1 is in the    *)
(* prediction set exactly if the interval reaches 100.  No wallet drifts   *)
(* away from what its caller was last told: however many small steps are   *)
(* left out, the score computed last is less than Delta from the one       *)
(* reported last.                                                          *)
(***************************************************************************)
InferenceIsSound ==
    /\ out.ok =>
        LET slack == IF out.calibrated THEN 5 ELSE 0
            p == out.prob
        IN  /\ ~out.meta => 10 * p.num >= (Min(out.votes) - slack) * p.den
            /\ ~out.meta /\ (out.calibrated => out.adv < 60) =>
                    10 * p.num <= (Max(out.votes) + slack) * p.den
            /\ 0 <= p.num /\ p.num <= 100 * p.den /\ out.score \in 0 .. 100
            /\ out.calibrated =>
                /\ out.interval.lower <= p.num /\ p.num <= out.interval.upper
                /\ 1 \in out.interval.classes <=> out.interval.upper = 100
    /\ \A w \in Wallets :
        /\ (shown[w] = -999) = (sent[w] = -999)
        /\ shown[w] - sent[w] \in (1 - Delta) .. (Delta - 1)

-----------------------------------------------------------------------------
(* conformal.py with its users in model_training.py, model_inference.py and  *)
(* POST /feedback (api/main.py): calibrators live in JSON files that         *)
(* training writes, scoring loads, and every analyst correction under drift  *)
(* loads, adapts and writes back.  open(path, "w") empties a file and        *)
(* closing it writes the text; a text written over another's may leave the   *)
(* tail of the longer one.  Probabilities, quantiles and scores are in       *)
(* thousandths.                                                              *)

CONSTANTS Order,       \* _CALIBRATION_FILENAMES: the calibrated models
          Workers,     \* threads of the API's process
          CalSets,     \* calibration sets: sequences of 1 - p(true class)
          RapsSets,    \* sequences of <<softmax in tenths, label>>
          Alpha,       \* the miscoverage, in thousandths
          Tests,       \* probabilities that are scored
          MaxCorrections, MaxCrashes, MaxTraining

VARIABLES
    file,        \* per model: NoFile, Empty, Garbled or [q, n, base, hits, size]
    worker,      \* per worker: [pc, p, label, cal, todo, seen]
    trainer,     \* the training process: [pc, cal, todo]
    saves,       \* adaptations written to a file since it was calibrated
    overlap,     \* models whose file changed between a load or open and the save
    corrections, \* feedback requests that have ended
    crashes, training

intervalVars == <<file, worker, trainer, saves, overlap, corrections, crashes, training>>

Names == ToSet(Order)
NoFile == [q |-> -1, n |-> 0, base |-> 0, hits |-> 0, size |-> 0]
Empty == [NoFile EXCEPT !.q = -2]
Garbled == [NoFile EXCEPT !.q = -3]
Readable(f) == f.q >= 0
Nothing == [m \in {} |-> 0]
Idle == [pc |-> "idle", p |-> 0, label |-> 0, cal |-> Nothing, todo |-> <<>>, seen |-> Nothing]
NoTraining == [pc |-> "idle", cal |-> Nothing, todo |-> <<>>]

CeilDiv(a, b) == (a + b - 1) \div b
Sorted(s) == SortSeq(s, <)
\* np.quantile(.., method="higher") for the level num / den.
Higher(s, num, den) ==
    LET level == IF num >= den THEN <<1, 1>> ELSE <<num, den>>
    IN  Sorted(s)[1 + CeilDiv(level[1] * (Len(s) - 1), level[2])]

IntervalTypeOK ==
    /\ \A m \in Names : file[m].q >= -3
    /\ \A w \in Workers : worker[w].pc \in {"idle", "load", "adapt", "write", "insert"}
    /\ trainer.pc \in {"idle", "open", "write"} /\ corrections \in 0 .. MaxCorrections

IntervalInit ==
            /\ file = [m \in Names |-> NoFile] /\ worker = [w \in Workers |-> Idle]
            /\ trainer = NoTraining /\ saves = [m \in Names |-> 0] /\ overlap = {}
            /\ corrections = 0 /\ crashes = 0 /\ training = 0

----------------------------------------------------------------------------

\* ceil((n + 1)(1 - alpha)) / n, clamped to 1.
Quantile(s) == Higher(s, CeilDiv((Len(s) + 1) * (1000 - Alpha), 1000), Len(s))

\* ConformalCalibrator.calibrate on a calibration set.
Calibrated(s) ==
    LET q == Quantile(s)
    IN  [q |-> q, n |-> 0, base |-> q, size |-> Len(s),
         hits |-> Cardinality({i \in DOMAIN s : s[i] <= q})]

\* A training run has calibrated its models and saves them one by one.
Train(sets) ==
    /\ trainer.pc = "idle" /\ training < MaxTraining /\ training' = training + 1
    /\ trainer' = [pc |-> "open", cal |-> [m \in Names |-> Calibrated(sets[m])], todo |-> Order]
    /\ UNCHANGED <<file, worker, saves, overlap, corrections, crashes>>

TrainOpen ==
    /\ trainer.pc = "open" /\ trainer' = [trainer EXCEPT !.pc = "write"]
    /\ file' = [file EXCEPT ![Head(trainer.todo)] = Empty]
    /\ UNCHANGED <<worker, saves, overlap, corrections, crashes, training>>

\* What a file may hold once `new' is written to it.
Written(m, new) == IF file[m] = Empty THEN {new} ELSE {new, Garbled}

TrainWrite ==
    LET m == Head(trainer.todo)
    IN  /\ trainer.pc = "write"
        /\ \E f \in Written(m, trainer.cal[m]) :
            /\ file' = [file EXCEPT ![m] = f]
            /\ overlap' = IF f = Garbled THEN overlap \cup {m} ELSE overlap \ {m}
        /\ saves' = [saves EXCEPT ![m] = 0]
        /\ worker' = [w \in Workers |->
                IF m \in DOMAIN worker[w].seen THEN [worker[w] EXCEPT !.seen[m] = -1] ELSE worker[w]]
        /\ trainer' = IF Len(trainer.todo) = 1 THEN NoTraining
                      ELSE [trainer EXCEPT !.pc = "open", !.todo = Tail(@)]
        /\ UNCHANGED <<corrections, crashes, training>>

\* load_calibration leaves out what cannot be read.
LoadCalibration == [m \in {k \in Names : Readable(file[k])} |-> file[m]]

\* score_with_uncertainty: the widest calibrator, or no information at all.
ScoreWithUncertainty(p, cal) ==
    LET q == Max({cal[m].q : m \in DOMAIN cal})
    IN  IF DOMAIN cal = {}
        THEN [lower |-> 0, upper |-> 1000, set |-> {}, guarantee |-> 1000]
        ELSE [lower |-> Max({0, p - q}), upper |-> Min({1000, p + q}),
              set |-> {0} \cup (IF 1000 - p <= q THEN {1} ELSE {}), guarantee |-> 1000 - Alpha]

----------------------------------------------------------------------------
\* submit_analyst_feedback: with a score and active drift the calibrators are
\* adapted before the correction is stored.
SubmitAnalystFeedback(w, p, label) ==
    /\ worker[w].pc = "idle"
    /\ corrections + Cardinality({v \in Workers : worker[v].pc # "idle"}) < MaxCorrections
    /\ \E adapting \in BOOLEAN :
        worker' = [worker EXCEPT ![w] =
            IF adapting THEN [Idle EXCEPT !.p = p, !.label = label, !.pc = "load", !.todo = Order]
            ELSE [Idle EXCEPT !.pc = "insert"]]
    /\ UNCHANGED <<file, trainer, saves, overlap, corrections, crashes, training>>

\* load_calibration reads one file after the other.
AdaptLoad(w) ==
    LET u == worker[w]
        m == Head(u.todo)
        cal == IF Readable(file[m]) THEN (m :> file[m]) @@ u.cal ELSE u.cal
        seen == IF Readable(file[m]) THEN (m :> saves[m]) @@ u.seen ELSE u.seen
    IN  /\ u.pc = "load"
        /\ worker' = [worker EXCEPT ![w].cal = cal, ![w].seen = seen,
                ![w].todo = IF Len(u.todo) > 1 THEN Tail(u.todo)
                            ELSE SelectSeq(Order, LAMBDA k : k \in DOMAIN cal),
                ![w].pc = IF Len(u.todo) > 1 THEN "load" ELSE IF DOMAIN cal = {} THEN "insert" ELSE "adapt"]
        /\ UNCHANGED <<file, trainer, saves, overlap, corrections, crashes, training>>

\* adapt_online with gamma = 0.01.
Adapted(f, covered) ==
    [f EXCEPT !.q = Max({0, f.q + (IF covered THEN -(Alpha \div 100) ELSE (1000 - Alpha) \div 100)}),
              !.n = f.n + 1]

Nonconformity(p, label) == 1000 - (IF label = 1 THEN p ELSE 1000 - p)

\* record_feedback_and_adapt, one calibrator: open(path, "w") empties the file,
\* or fails and ends the adaptation ..
AdaptOpen(w) ==
    LET u == worker[w]
        m == Head(u.todo)
    IN  /\ u.pc = "adapt"
        /\ \/ /\ file' = [file EXCEPT ![m] = Empty]
              /\ worker' = [worker EXCEPT ![w].pc = "write"]
              /\ overlap' = IF u.seen[m] # saves[m] \/ ~Readable(file[m])
                            THEN overlap \cup {m} ELSE overlap
           \/ /\ worker' = [worker EXCEPT ![w] = [Idle EXCEPT !.pc = "insert"]]
              /\ UNCHANGED <<file, overlap>>
        /\ UNCHANGED <<trainer, saves, corrections, crashes, training>>

\* .. and closing it writes the text.
AdaptWrite(w) ==
    LET u == worker[w]
        m == Head(u.todo)
        new == Adapted(u.cal[m], Nonconformity(u.p, u.label) <= u.cal[m].q)
        done == Len(u.todo) = 1
    IN  /\ u.pc = "write"
        /\ \E f \in Written(m, new) : file' = [file EXCEPT ![m] = f]
        /\ saves' = [saves EXCEPT ![m] = @ + 1]
        /\ overlap' = IF u.seen[m] # saves[m] THEN overlap \cup {m} ELSE overlap
        /\ worker' = [worker EXCEPT ![w] =
                IF done THEN [Idle EXCEPT !.pc = "insert"]
                ELSE [u EXCEPT !.todo = Tail(u.todo), !.pc = "adapt"]]
        /\ UNCHANGED <<trainer, corrections, crashes, training>>

\* add_correction inserts its row, or fails with the files already adapted: the
\* request ends either way.
AddCorrection(w) ==
    /\ worker[w].pc = "insert" /\ worker' = [worker EXCEPT ![w] = Idle]
    /\ corrections' = corrections + 1
    /\ UNCHANGED <<file, trainer, saves, overlap, crashes, training>>

\* The API's process dies, or the training run.
IntervalCrash ==
    /\ crashes < MaxCrashes /\ crashes' = crashes + 1
    /\ \/ (\E w \in Workers : worker[w].pc # "idle")
          /\ worker' = [v \in Workers |-> Idle] /\ trainer' = trainer
       \/ trainer.pc # "idle" /\ trainer' = NoTraining /\ worker' = worker
    /\ UNCHANGED <<file, saves, overlap, corrections, training>>

----------------------------------------------------------------------------
\* raps_score with lambda = 0.2 and k_reg = 2; argsort(-p) keeps
\* the order of equal entries: it sorts so few classes by insertion.
RapsScore(p, c) ==
    LET before == {k \in DOMAIN p : p[k] > p[c] \/ (p[k] = p[c] /\ k < c)}
        rank == Cardinality(before) + 1
    IN  FoldFunctionOnSet(+, 0, p, before \cup {c}) + 2 * Max({rank - 2, 0})

PredictSetRaps(p, q) == {c \in DOMAIN p : RapsScore(p, c) <= q}

\* calibrate_raps: q_level = ceil((1 - alpha)(1 + 1/n)) / (1 + 1/n).
CalibrateRaps(s) ==
    LET n == Len(s)
        scores == [i \in DOMAIN s |-> RapsScore(s[i][1], s[i][2])]
    IN  Higher(scores, CeilDiv((1000 - Alpha) * (n + 1), 1000 * n) * n, n + 1)

IntervalNext ==
            \/ \E sets \in [Names -> CalSets] : Train(sets)
            \/ TrainOpen \/ TrainWrite \/ IntervalCrash
            \/ \E w \in Workers :
                \/ \E p \in Tests, label \in {0, 1} : SubmitAnalystFeedback(w, p, label)
                \/ AdaptLoad(w) \/ AdaptOpen(w) \/ AdaptWrite(w) \/ AddCorrection(w)

IntervalSpec == IntervalInit /\ [][IntervalNext]_intervalVars

----------------------------------------------------------------------------
CoverageHolds ==
    \A m \in Names : Readable(file[m]) /\ file[m].n = 0 =>
        file[m].hits * 1000 >= file[m].size * (1000 - Alpha)

RapsCoversCalibration ==
    \A s \in RapsSets :
        LET q == CalibrateRaps(s)
        IN  Cardinality({i \in DOMAIN s : s[i][2] \in PredictSetRaps(s[i][1], q)}) * 1000
                >= Len(s) * (1000 - Alpha)

AnswerIsHonest ==
    \A p \in Tests :
        LET a == ScoreWithUncertainty(p, LoadCalibration)
        IN  /\ a.lower <= p /\ p <= a.upper
            /\ a.guarantee = 1000 => a.lower = 0 /\ a.upper = 1000
            /\ \A m \in Names : Readable(file[m]) =>
                    /\ a.lower <= Max({0, p - file[m].q})
                    /\ a.upper >= Min({1000, p + file[m].q})
                    /\ 1000 - p <= file[m].q => 1 \in a.set

\* The count of adaptations is exact unless two writers overlapped, and only
\* overlap, a writer at work or a crash leaves a file unreadable.
AdaptationsAreCounted ==
    /\ \A m \in Names : Readable(file[m]) /\ m \notin overlap => file[m].n = saves[m]
    /\ \A m \in Names : ~Readable(file[m]) /\ file[m] # NoFile =>
            \/ crashes > 0 \/ m \in overlap
            \/ trainer.pc = "write" /\ Head(trainer.todo) = m
            \/ \E w \in Workers : worker[w].pc = "write" /\ Head(worker[w].todo) = m

\* The threshold a calibration set yields covers its share of that set
\* (calibrate, calibrate_raps: conformal.py), the interval that
\* score_with_uncertainty answers is never narrower than a calibrator it
\* loaded and claims full coverage only as 0..100, and adaptations are lost
\* only to a crash or to a second worker between load and save.
CalibrationIsSound ==
    /\ CoverageHolds /\ AnswerIsHonest /\ AdaptationsAreCounted
    /\ file = [m \in Names |-> NoFile] => RapsCoversCalibration

=============================================================================
