------------------------- MODULE StatisticalSignals -------------------------
(*****************************************************************************)
(* Signals of distributions: first digits of amounts, periodic trading, and  *)
(* drift of a stream of scores.                                              *)
(*****************************************************************************)
EXTENDS Integers, Sequences, FiniteSets, FiniteSetsExt, SequencesExt

-----------------------------------------------------------------------------
(* detection/benford_engine.py: leading digits, the sliding counters of the  *)
(* stream, the adaptive window, the strata by asset pair, and the KS and     *)
(* Kuiper statistics.  Amounts are whole numbers, frequencies are thousandths *)
(* (TLC has no reals); p-values are not computed.                            *)

CONSTANTS BenfordAmounts,          \* base_amount; 0 is not a valid amount
          Pairs,            \* pairs of asset symbols, as numbers, in either order
          StreamWindows,    \* windows of BenfordStreamCounter
          Unclean,          \* symbols that make a pair unsanitizable
          RoundedDown,      \* amounts whose float logarithm falls just short
          MinSample,        \* min_sample_count and MIN_STRATUM_SIZE, 30 each
          KsMinN,           \* KS_MIN_N
          Target, MaxWidth, \* the target window and max_window_days
          BenfordMaxTrades, BenfordMaxTime    \* bounds

VARIABLES
    benfordNow, benfordTrades,    \* the clock; the trades so far: [at, amount, base, counter]
    buf, benfordCounts     \* buf[w], counts[w]: the counter of stream window w

benfordVars == <<benfordNow, benfordTrades, buf, benfordCounts>>

Digits == 1 .. 9
Expected == <<301, 176, 125, 97, 79, 67, 58, 51, 46>>     \* log10(1 + 1/d), thousandths

BenfordTypeOK ==
    /\ benfordNow \in 0 .. BenfordMaxTime /\ Len(benfordTrades) <= BenfordMaxTrades
    /\ \A w \in StreamWindows : Len(buf[w]) <= w /\ benfordCounts[w] \in [Digits -> 0 .. w]

BenfordInit ==
           /\ benfordNow = 0 /\ benfordTrades = <<>>
           /\ buf = [w \in StreamWindows |-> <<>>]
           /\ benfordCounts = [w \in StreamWindows |-> [d \in Digits |-> 0]]

----------------------------------------------------------------------------
Power10[k \in Nat] == IF k = 0 THEN 1 ELSE 10 * Power10[k - 1]

\* first_digit divides by ten until one digit is left.
FirstDigit[v \in Nat] == IF v >= 10 THEN FirstDigit[v \div 10] ELSE v
Magnitude[v \in Nat] == IF v >= 10 THEN 1 + Magnitude[v \div 10] ELSE 0

\* significant_digit: int(mantissa * 10 ** position) % 10, for a position of at
\* least 1.  With the mantissa in 1 .. 10 position 1 is the second digit.
SignificantDigit(v, position) == ((v * Power10[position]) \div Power10[Magnitude[v]]) % 10

\* int(10 ** (log10(amount) % 1)) of BenfordStreamCounter.update: with floats the
\* power of 30, 50, 80, 500 and others is just below the digit and truncated.
FastDigit(v) ==
    LET digit == IF v \in RoundedDown THEN FirstDigit[v] - 1 ELSE FirstDigit[v]
    IN  IF digit = 0 THEN 1 ELSE digit

Valid(a) == a > 0

\* _extract_digit_histogram, digit_distribution.
Histogram(s) == [d \in Digits |-> Len(SelectSeq(s, LAMBDA a : Valid(a) /\ FirstDigit[a] = d))]
Size(s) == Len(SelectSeq(s, Valid))

Abs(x) == IF x < 0 THEN -x ELSE x
BenfordSumOver(f) == MapThenSumSet(LAMBDA d : f[d], Digits)

\* Distance of digit d from what is expected, in thousandths of n.
Off(h, n, d) == 1000 * h[d] - Expected[d] * n

\* mean_absolute_deviation > 0.015.
MadAbove(h, n) == BenfordSumOver([d \in Digits |-> Abs(Off(h, n, d))]) > 135 * n

\* chi_square_statistic, in thousandths.
ChiSquare(h, n) ==
    BenfordSumOver([d \in Digits |-> (Off(h, n, d) * Off(h, n, d)) \div (Expected[d] * n)])

Cumulative(f, d) == MapThenSumSet(LAMBDA e : f[e], 1 .. d)
CdfOff(h, n, d) == 1000 * Cumulative(h, d) - Cumulative(Expected, d) * n

\* compute_ks_statistic and compute_kuiper_statistic, in thousandths of n: only of
\* KsMinN amounts or more.
Testable(n) == n >= KsMinN
KsStatistic(h, n) == Max({Abs(CdfOff(h, n, d)) : d \in Digits})
KuiperStatistic(h, n) == Max({CdfOff(h, n, d) : d \in Digits}) + Max({-CdfOff(h, n, d) : d \in Digits})

----------------------------------------------------------------------------

\* The digit a full buffer loses: buf[0], read before the append.
Evicted(w) == Head(buf[w])

\* BenfordStreamCounter.update.
StreamUpdate(amount) ==
    IF ~Valid(amount) THEN UNCHANGED <<buf, benfordCounts>>
    ELSE LET digit == FastDigit(amount)
             full(w) == Len(buf[w]) = w
         IN  /\ benfordCounts' = [w \in StreamWindows |->
                   LET c == IF full(w) THEN [benfordCounts[w] EXCEPT ![Evicted(w)] = @ - 1] ELSE benfordCounts[w]
                   IN  [c EXCEPT ![digit] = @ + 1]]
             /\ buf' = [w \in StreamWindows |->
                   Append(IF full(w) THEN Tail(buf[w]) ELSE buf[w], digit)]

Trade(amount, b, c) ==
    /\ Len(benfordTrades) < BenfordMaxTrades
    /\ benfordTrades' = Append(benfordTrades, [at |-> benfordNow, amount |-> amount, base |-> b, counter |-> c])
    /\ StreamUpdate(amount)
    /\ UNCHANGED benfordNow

BenfordTick ==
           /\ benfordNow < BenfordMaxTime /\ benfordNow' = benfordNow + 1
           /\ UNCHANGED <<benfordTrades, buf, benfordCounts>>

----------------------------------------------------------------------------
AmountsOf(s) == [i \in 1 .. Len(s) |-> s[i].amount]

\* _slice_amounts: (as_of - width, as_of].
Slice(asOf, width) == AmountsOf(SelectSeq(benfordTrades, LAMBDA t : t.at > asOf - width /\ t.at <= asOf))
Enough(s) == Size(s) >= MinSample

\* fit: the width is doubled while there are too few amounts, up to the
\* maximum; 0 when even that is too narrow.  Then all trades are taken, those
\* after asOf as well.
Width(asOf) ==
    LET widen[w \in 1 .. MaxWidth] ==
            IF Enough(Slice(asOf, w)) THEN w
            ELSE IF w >= MaxWidth THEN 0
            ELSE widen[Min({2 * w, MaxWidth})]
    IN  widen[Target]

Fit(asOf) ==
    LET w == Width(asOf)
    IN  IF w > 0 THEN [amounts |-> Slice(asOf, w), width |-> w, valid |-> TRUE,
                       expanded |-> w > Target, merged |-> FALSE]
        ELSE [amounts |-> AmountsOf(benfordTrades), width |-> MaxWidth, valid |-> Enough(AmountsOf(benfordTrades)),
              expanded |-> TRUE, merged |-> TRUE]

\* _canonical_asset_pair: both directions of a pair are one stratum.
Canonical(t) == <<Min({t.base, t.counter}), Max({t.base, t.counter})>>
Sanitizable(t) == t.base \notin Unclean /\ t.counter \notin Unclean
Grouped == SelectSeq(benfordTrades, Sanitizable)
Strata == {Canonical(Grouped[i]) : i \in 1 .. Len(Grouped)}
Stratum(p) == AmountsOf(SelectSeq(Grouped, LAMBDA t : Canonical(t) = p))

\* compute_stratum_benford: not valid with too small a sample.
StratumResult(s) ==
    LET n == Size(s)  h == Histogram(s)
    IN  [size |-> n, valid |-> n >= MinSample, flag |-> n >= MinSample /\ ChiSquare(h, n) > 15507,
         above |-> n >= MinSample /\ MadAbove(h, n)]

\* stratified_benford_analysis: all trades together if no stratum is valid.
Summary ==
    LET valid == {p \in Strata : StratumResult(Stratum(p)).valid}
        all == StratumResult(AmountsOf(Grouped))
    IN  IF valid # {}
        THEN [fallback |-> FALSE, flagged |-> Cardinality({p \in valid : StratumResult(Stratum(p)).flag}),
              above |-> Cardinality({p \in valid : StratumResult(Stratum(p)).above})]
        ELSE [fallback |-> TRUE, flagged |-> IF all.flag THEN 1 ELSE 0,
              above |-> IF all.above THEN 1 ELSE 0]

BenfordNext ==
           \/ BenfordTick
           \/ \E a \in BenfordAmounts, p \in Pairs : Trade(a, p[1], p[2])

BenfordSpec == BenfordInit /\ [][BenfordNext]_benfordVars

----------------------------------------------------------------------------
ValidAmounts == SelectSeq(AmountsOf(benfordTrades), Valid)
LastN(s, n) == SubSeq(s, IF Len(s) > n THEN Len(s) - n + 1 ELSE 1, Len(s))

\* The counters of the stream are the histogram of its last amounts, but for
\* amounts that rounding puts one digit lower.
StreamMatchesBatch ==
    \A w \in StreamWindows :
        LET recent == LastN(ValidAmounts, w)
            low == {i \in DOMAIN recent : recent[i] \in RoundedDown}
            shift(d) == Cardinality({i \in low : FirstDigit[recent[i]] = d + 1})
                        - Cardinality({i \in low : FirstDigit[recent[i]] = d})
        IN  benfordCounts[w] = [d \in Digits |-> Histogram(recent)[d] + shift(d)]

\* The window is the first one in the doubling that has enough amounts.
WindowIsMinimal ==
    \A asOf \in 0 .. benfordNow : LET f == Fit(asOf) IN
        /\ f.valid <=> Enough(f.amounts)
        /\ ~f.merged => \A v \in Target .. f.width - 1 : 2 * v <= f.width => ~Enough(Slice(asOf, v))
        /\ f.merged => ~Enough(Slice(asOf, MaxWidth))

\* Each valid amount of a sanitizable pair is in one stratum, and the fallback is the last resort.
StrataPartition ==
    /\ MapThenSumSet(LAMBDA p : Size(Stratum(p)), Strata) = Size(AmountsOf(Grouped))
    /\ Summary.fallback <=> \A p \in Strata : Size(Stratum(p)) < MinSample
    /\ Size(AmountsOf(Grouped)) < MinSample => Summary.flagged = 0 /\ Summary.above = 0

\* Kuiper's statistic is between KS and twice KS, and the significant digits
\* behind the first one are those of the amount.
StatisticsAgree ==
    LET h == Histogram(ValidAmounts)  n == Size(ValidAmounts)
    IN  /\ \A i \in DOMAIN ValidAmounts :
            LET a == ValidAmounts[i]
            IN  a = MapThenSumSet(LAMBDA k : SignificantDigit(a, k) * Power10[Magnitude[a] - k], 1 .. Magnitude[a])
                    + FirstDigit[a] * Power10[Magnitude[a]]
        /\ Testable(n) =>
            /\ KsStatistic(h, n) <= KuiperStatistic(h, n)
            /\ KuiperStatistic(h, n) <= 2 * KsStatistic(h, n)

(* The incremental counters agree with the batch functions, the adaptive     *)
(* window is as narrow as it may be, the strata cover every trade once.      *)
BenfordIsConsistent == StreamMatchesBatch /\ WindowIsMinimal /\ StrataPartition /\ StatisticsAgree

-----------------------------------------------------------------------------
(***************************************************************************)
(* detection/temporal_patterns.py as api/temporal_router.py uses it: the   *)
(* trades of a wallet are read from the store, binned, and four detectors  *)
(* are combined into one anomaly score.                                    *)
(*                                                                         *)
(* Times are units of the bin width or a part of it and amounts are small  *)
(* integers; scores are percent.  The ARIMA fit and the LSTM autoencoder   *)
(* are external: each yields any of Parts, or fails.  Logarithms only      *)
(* rescale what a bin sums.                                                *)
(***************************************************************************)

CONSTANTS TemporalAmounts,            \* amounts of a trade, zero among them
          BinWidth, Bins,     \* a bin's length, the bins of a window
          FitBins,            \* score_window_steps: a longer series is fitted
          MinTrades, Limit,   \* settings; the rows _load_wallet_trades reads
          Parts,              \* scores of an external detector
          TemporalMaxTrades, TemporalMaxTime  \* bounds

Window == BinWidth * Bins

VARIABLES
    temporalTrades,     \* the stored trades of the wallet, in time order: [time, amount]
    temporalNow,
    model,      \* _lstm_model: "untried", "none" or "loaded"
    answer      \* the response just given, with the trades it was computed from

temporalVars == <<temporalTrades, temporalNow, model, answer>>

NoAnswer == [of |-> <<>>, n |-> 0, score |-> 0, arima |-> 0, lstm |-> 0, iat |-> 0]

TemporalTypeOK == /\ Len(temporalTrades) <= TemporalMaxTrades /\ temporalNow \in 0 .. TemporalMaxTime /\ model \in {"untried", "none", "loaded"}
                  /\ answer.score \in 0 .. 100

TemporalInit == temporalTrades = <<>> /\ temporalNow = 0 /\ model = "untried" /\ answer = NoAnswer

\* A load of older trades may come after later ones.
StoreTrade(a, t) == /\ Len(temporalTrades) < TemporalMaxTrades
                    /\ LET earlier == SelectSeq(temporalTrades, LAMBDA x : x.time <= t)
                           later == SelectSeq(temporalTrades, LAMBDA x : x.time > t)
                       IN  temporalTrades' = Append(earlier, [time |-> t, amount |-> a]) \o later
                    /\ answer' = NoAnswer /\ UNCHANGED <<temporalNow, model>>

TemporalTick == temporalNow < TemporalMaxTime /\ temporalNow' = temporalNow + 1 /\ answer' = NoAnswer /\ UNCHANGED <<temporalTrades, model>>

\* _load_wallet_trades: the oldest Limit trades of the window before now.
LoadWalletTrades ==
    LET recent == SelectSeq(temporalTrades, LAMBDA t : t.time >= temporalNow - Window)
    IN SubSeq(recent, 1, Min({Limit, Len(recent)}))

TMax(ts) == Max({ts[i].time : i \in DOMAIN ts})
TMin(ts) == TMax(ts) - Window

BinOf(ts, t) == (t.time - TMin(ts)) \div BinWidth

InBin(ts, b) == {i \in DOMAIN ts : BinOf(ts, ts[i]) = b}

TemporalSumOver(ts, S) == MapThenSumSet(LAMBDA i : ts[i].amount, S)

\* from_trades, for the bins 0 .. Bins - 1; Series(<<>>) is the empty window.
CountSeries(ts) == [b \in 0 .. Bins - 1 |-> IF ts = <<>> THEN 0 ELSE Cardinality(InBin(ts, b))]
AmountSeries(ts) == [b \in 0 .. Bins - 1 |-> IF ts = <<>> THEN 0 ELSE TemporalSumOver(ts, InBin(ts, b))]

\* The gaps between consecutive trades of the window.
Gaps(ts) ==
    LET w == SelectSeq(ts, LAMBDA t : t.time >= TMin(ts))
    IN [i \in 1 .. Len(w) - 1 |-> w[i + 1].time - w[i].time]

SumSeq(s) == FoldSeq(LAMBDA x, y : x + y, 0, s)
Squares(s) == [i \in DOMAIN s |-> s[i] * s[i]]

\* iat_cv in percent, cut at 100: sqrt(n * sum x^2 - (sum x)^2) / sum x.
IatCv(g) ==
    LET total == SumSeq(g)  spread == Len(g) * SumSeq(Squares(g)) - total * total
    IN IF Len(g) < 2 THEN 100
       ELSE IF spread = 0 THEN 0
       ELSE Min({100, Max({c \in 0 .. 100 : c * c * total * total <= 10000 * spread})})

\* ARIMAResidualDetector: fits when the series is long enough, else 0.
ArimaScores(series) ==
    IF Cardinality(DOMAIN series) <= FitBins + 3 THEN {0} ELSE Parts \cup {0}

LstmScores(loaded) == IF loaded THEN Parts \cup {0} ELSE {0}

\* TemporalPatternScorer.score with its default weights; no caller gives the
\* series of other wallets, so the synchrony is 0.
Composite(arima, lstm, iat) == ((30 * arima) + (30 * lstm) + (20 * iat)) \div 100

\* score_wallet_temporal, for what the external detectors yield.
ScoreWalletTemporal(ts, a, l) ==
    LET iat == 100 - IatCv(Gaps(ts))
    IN [of |-> ts, n |-> Len(ts), arima |-> a, lstm |-> l, iat |-> iat,
        score |-> Composite(a, l, iat)]

\* GET /temporal/analysis/{wallet}: too few trades are not analysed, and trades
\* that cannot be read are none.  The first analysis loads the LSTM, or not.
Analyse ==
    \E ts \in {LoadWalletTrades, <<>>} :
        /\ IF Len(ts) < MinTrades
           THEN model' = model /\ answer' = [NoAnswer EXCEPT !.of = ts, !.n = Len(ts)]
           ELSE /\ model' \in IF model = "untried" THEN {"none", "loaded"} ELSE {model}
                /\ \E a \in ArimaScores(AmountSeries(ts)), l \in LstmScores(model' = "loaded") :
                     answer' = ScoreWalletTemporal(ts, a, l)
        /\ UNCHANGED <<temporalTrades, temporalNow>>

TemporalNext == TemporalTick \/ Analyse \/ \E a \in TemporalAmounts, t \in 0 .. temporalNow : StoreTrade(a, t)

TemporalSpec == TemporalInit /\ [][TemporalNext]_temporalVars
-----------------------------------------------------------------------------
\* BurstSynchronyDetector on two count series: the covariance times Bins squared.
Covariance(a, b) ==
    LET n == Bins  sum(f) == MapThenSumSet(LAMBDA i : f[i], DOMAIN f)
    IN n * sum([i \in DOMAIN a |-> a[i] * b[i]]) - sum(a) * sum(b)

\* Two series that vary are in full synchrony when their correlation is 1.
InSynchrony(a, b) ==
    LET ab == Covariance(a, b)
    IN  ab > 0 /\ ab * ab = Covariance(a, a) * Covariance(b, b)

\* All trades d later.
Later(ts, d) == [i \in DOMAIN ts |-> [ts[i] EXCEPT !.time = @ + d]]

(* The score of a wallet rests on its own trades and nothing is counted    *)
(* twice: every trade of the window but those at its very end is in one    *)
(* bin, amounts included; the gaps span the window's trades; a wallet      *)
(* below the minimum scores 0, a positive score has a positive part; and   *)
(* since each window ends at the wallet's own last trade, trading the same *)
(* pattern at another time is full synchrony.                              *)
AnalysisIsSound ==
    LET ts == answer.of
        inside == {i \in DOMAIN ts : ts[i].time < TMax(ts) /\ ts[i].time >= TMin(ts)}
        counts == CountSeries(ts)
        amounts == AmountSeries(ts)
    IN ts # <<>> =>
         /\ MapThenSumSet(LAMBDA b : counts[b], 0 .. Bins - 1) = Cardinality(inside)
         /\ MapThenSumSet(LAMBDA b : amounts[b], 0 .. Bins - 1) = TemporalSumOver(ts, inside)
         /\ SumSeq(Gaps(ts)) = TMax(ts) - Min({ts[i].time : i \in DOMAIN ts})
         /\ answer.n < MinTrades => answer.score = 0
         /\ answer.score > 0 => answer.arima + answer.lstm + answer.iat > 0
         /\ Covariance(counts, counts) # 0 => InSynchrony(counts, CountSeries(Later(ts, 3)))

-----------------------------------------------------------------------------
(***************************************************************************)
(* The two detectors of detection/drift_detectors.py; the registry cannot  *)
(* be built, its constructor reads two names it does not have.  ADWIN      *)
(* keeps a window of the last values of a feature as an exponential        *)
(* histogram of buckets, merges the two oldest of a row that is too long,  *)
(* and drops the oldest buckets when the means on the two sides of a cut   *)
(* differ; Page-Hinkley follows the same values with a cumulative sum.     *)
(* Beside the histogram the model keeps the values themselves.  Whether a  *)
(* difference of means is significant (a formula with logarithms) is left  *)
(* open.                                                                   *)
(***************************************************************************)

CONSTANTS
    Values,        \* of the feature
    MaxBuckets,    \* max_buckets_per_row
    MaxValues,     \* how many values are observed
    Scale,         \* a multiple of 1 .. MaxValues: the sums below are exact
    Delta, Threshold   \* of Page-Hinkley, in units of 1/Scale

VARIABLES
    rows,        \* _rows: each a sequence of [n, total], the oldest first
    adwinWidth, adwinTotal,
    fired,       \* drift_detected
    pc,          \* "idle", or "cut" inside update's loop
    window,      \* the values the buckets stand for, the oldest first
    seen,        \* all values, for Page-Hinkley's running mean
    ph           \* [cum, min, stat]: of Page-Hinkley; stat is what update compared

adwinVars == <<rows, adwinWidth, adwinTotal, fired, pc, window, seen, ph>>

Sum(s) == FoldLeft(LAMBDA acc, v : acc + v, 0, s)

AdwinTypeOK ==
    /\ pc \in {"idle", "cut"} /\ fired \in BOOLEAN
    /\ adwinWidth \in 0 .. MaxValues /\ Len(seen) <= MaxValues

AdwinInit ==
         /\ rows = << <<>> >> /\ adwinWidth = 0 /\ adwinTotal = 0 /\ fired = FALSE /\ pc = "idle"
         /\ window = <<>> /\ seen = <<>> /\ ph = [cum |-> 0, min |-> 0, stat |-> 0]

-----------------------------------------------------------------------------
\* _compress, from the lowest row up while a row is too long.
CompressRow(R, r) ==
    IF r > Len(R) \/ (r <= Len(R) /\ Len(R[r]) <= MaxBuckets) THEN R
    ELSE LET S == IF r = Len(R) THEN Append(R, <<>>) ELSE R
             b == [n |-> S[r][1].n + S[r][2].n, total |-> S[r][1].total + S[r][2].total]
         IN  [S EXCEPT ![r] = SubSeq(@, 3, Len(@)), ![r + 1] = Append(@, b)]

\* A row that is not too long ends the loop, so the rows above it are not
\* too long either.
Compress(R) == FoldLeft(CompressRow, R, [r \in 1 .. Len(R) + 1 |-> r])

\* _ordered_buckets: the highest row has the oldest.
Ordered(R) == FlattenSeq(Reverse(R))

\* _refold
RefoldWidth(R) == FoldLeft(LAMBDA acc, b : acc + b.n, 0, Ordered(R))
RefoldTotal(R) == FoldLeft(LAMBDA acc, b : acc + b.total, 0, Ordered(R))

\* _drop_oldest: from the highest row down.
DropOldest(R, count) ==
    LET drop(st, r) == LET k == IF st.left < Len(st.R[r]) THEN st.left ELSE Len(st.R[r])
                       IN  [R |-> [st.R EXCEPT ![r] = SubSeq(@, k + 1, Len(@))], left |-> st.left - k]
    IN  FoldLeft(drop, [R |-> R, left |-> count], [n \in 1 .. Len(R) |-> Len(R) - n + 1]).R

\* PageHinkleyDetector.update, with alpha 1; it starts again after firing
\* but keeps the running mean.
PageHinkley(v) ==
    LET all == Append(seen, v)
        cum == ph.cum + Scale * v - (Scale \div Len(all)) * Sum(all) - Delta
        low == IF cum < ph.min THEN cum ELSE ph.min
    IN  IF cum - low > Threshold THEN [cum |-> 0, min |-> 0, stat |-> cum - low]
        ELSE [cum |-> cum, min |-> low, stat |-> cum - low]

\* ADWINDriftDetector.update up to its loop; both detectors get the value.
Update(v) ==
    /\ pc = "idle" /\ Len(seen) < MaxValues
    /\ rows' = Compress([rows EXCEPT ![1] = Append(@, [n |-> 1, total |-> v])])
    /\ adwinWidth' = RefoldWidth(rows') /\ adwinTotal' = RefoldTotal(rows')
    /\ fired' = FALSE /\ pc' = "cut"
    /\ window' = Append(window, v)
    /\ seen' = Append(seen, v) /\ ph' = PageHinkley(v)

\* _maybe_cut finds a cut behind the i-th bucket: the means of the two sides
\* differ.
Cut(i) ==
    LET ordered == Ordered(rows)
        left == SubSeq(ordered, 1, i)
        n0 == FoldLeft(LAMBDA acc, b : acc + b.n, 0, left)
        t0 == FoldLeft(LAMBDA acc, b : acc + b.total, 0, left)
    IN  /\ pc = "cut" /\ adwinWidth >= 2 * MaxBuckets /\ i < Len(ordered)
        /\ t0 * (adwinWidth - n0) # (adwinTotal - t0) * n0
        /\ rows' = DropOldest(rows, i)
        /\ adwinWidth' = RefoldWidth(rows') /\ adwinTotal' = RefoldTotal(rows')
        /\ fired' = TRUE
        /\ window' = SubSeq(window, n0 + 1, Len(window))
        /\ UNCHANGED <<pc, seen, ph>>

\* No cut is found, and update returns.
EndUpdate == pc = "cut" /\ pc' = "idle" /\ UNCHANGED <<rows, adwinWidth, adwinTotal, fired, window, seen, ph>>

AdwinNext == (\E v \in Values : Update(v)) \/ (\E i \in 1 .. MaxValues : Cut(i)) \/ EndUpdate
AdwinSpec == AdwinInit /\ [][AdwinNext]_adwinVars

-----------------------------------------------------------------------------
(***************************************************************************)
(* The histogram always stands for the values it should, in their order,   *)
(* after any mixture of merges and cuts: each bucket is the sum of the     *)
(* next values, a bucket of row r is 2^(r-1) values, no row is longer than *)
(* allowed, and what is left after a cut is a suffix of the stream.  The   *)
(* newest value is never dropped.  Page-Hinkley's statistic is never       *)
(* negative and starts from 0 after it fired.                              *)
(***************************************************************************)
WindowIsExact ==
    LET B == Ordered(rows)
        upTo(k) == FoldLeft(LAMBDA acc, b : acc + b.n, 0, SubSeq(B, 1, k))
    IN  /\ adwinWidth = Len(window) /\ adwinTotal = Sum(window)
        /\ \A k \in DOMAIN B : B[k].total = Sum(SubSeq(window, upTo(k - 1) + 1, upTo(k)))
        /\ \A r \in DOMAIN rows : Len(rows[r]) <= MaxBuckets /\ \A k \in DOMAIN rows[r] : rows[r][k].n = 2 ^ (r - 1)
        /\ window = SubSeq(seen, Len(seen) - Len(window) + 1, Len(seen))
        /\ seen # <<>> => window # <<>>
        /\ ph.stat >= 0 /\ (ph.stat > Threshold => ph.cum = ph.min)

=============================================================================
