--------------------------- MODULE FeatureWindows ---------------------------
(*****************************************************************************)
(* Features of the latest trades of a wallet: running aggregates, and the    *)
(* window they are read from.                                                *)
(*****************************************************************************)
EXTENDS Naturals, Sequences, FiniteSetsExt, Functions, SequencesExt, TLC

-----------------------------------------------------------------------------
(* The incremental feature engine (detection/streaming_features.py): every  *)
(* trade updates the sliding windows of both its wallets, and the windows   *)
(* keep sums, counts and histograms that must stay equal to what the trades *)
(* in the window would give.  Trades may arrive out of the order of their   *)
(* ledger times.  Features are kept as numerators and denominators.         *)

CONSTANTS Wallets,
          Amounts,          \* base amounts of a trade, zero among them
          AggregateMaxTime,          \* ledger times are 0 .. AggregateMaxTime
          ShortWindow,      \* length of the "24h" window
          LongWindow,       \* length of the "30d" window
          RecentLegs,       \* maxlen of recent_legs
          MaxLookback,      \* legs after a leg that may be its way back
          AggregateMaxTrades         \* bound: window updates, two for a trade of two wallets

Labels == {"24h", "30d"}
WindowSec == [l \in Labels |-> IF l = "24h" THEN ShortWindow ELSE LongWindow]
Assets == {"XLM", "USD"}
Digits == 1 .. 9

\* A unit of time is half an hour here, and half of the hours are off hours.
HourBucket(ts) == ts \div 2
MinuteKey(ts) == ts
OffHours(ts) == HourBucket(ts) % 2 = 0

VARIABLES
    known,      \* wallets with a WalletState
    windows,    \* windows[w][l]: the WindowState
    total,      \* all_time_trade_count
    partners,   \* all_time_counterparties
    newest,     \* history: latest ledger time of w's trades so far
    ordered,    \* history: w's trades came in the order of their times
    seen        \* history: w's trades

aggregateVars == <<known, windows, total, partners, newest, ordered, seen>>

NoTrades == [trades |-> <<>>, amountSum |-> 0, tradeCount |-> 0, cpVolume |-> <<>>,
             digitHistogram |-> [d \in Digits |-> 0], digitCount |-> 0,
             selfMatch |-> 0, offHours |-> 0, minutes |-> <<>>, hourly |-> <<>>,
             legs |-> <<>>]

AggregateTypeOK ==
    /\ known \subseteq Wallets
    /\ total \in [Wallets -> 0 .. AggregateMaxTrades]
    /\ partners \in [Wallets -> SUBSET Wallets]
    /\ \A w \in Wallets, l \in Labels : windows[w][l].tradeCount = Len(windows[w][l].trades)

AggregateInit ==
             /\ known = {}
             /\ windows = [w \in Wallets |-> [l \in Labels |-> NoTrades]]
             /\ total = [w \in Wallets |-> 0]
             /\ partners = [w \in Wallets |-> {}]
             /\ newest = [w \in Wallets |-> 0]
             /\ ordered = [w \in Wallets |-> TRUE]
             /\ seen = [w \in Wallets |-> <<>>]

----------------------------------------------------------------------------
At(f, k) == IF k \in DOMAIN f THEN f[k] ELSE 0
Less(n, m) == IF n > m THEN n - m ELSE 0

\* f with k's value changed to v, without k when nothing is left of it.
Set(f, k, v) == IF v = 0 THEN Restrict(f, DOMAIN f \ {k}) ELSE (k :> v) @@ f

\* _first_digit: the leading digit of a positive amount, 0 standing for None.
FirstDigit(amount) ==
    LET Lead[n \in Nat] == IF n < 10 THEN n ELSE Lead[n \div 10]
    IN  Lead[amount]

Counted(h, d, n) == IF d = 0 THEN h ELSE [h EXCEPT ![d] = n]

\* WindowState._add
AddEntry(ws, e) ==
    LET d == FirstDigit(e.amount)
    IN  [trades |-> Append(ws.trades, e),
         amountSum |-> ws.amountSum + e.amount,
         tradeCount |-> ws.tradeCount + 1,
         cpVolume |-> (e.cp :> (At(ws.cpVolume, e.cp) + e.amount)) @@ ws.cpVolume,
         digitHistogram |-> Counted(ws.digitHistogram, d, At(ws.digitHistogram, d) + 1),
         digitCount |-> ws.digitCount + (IF d = 0 THEN 0 ELSE 1),
         selfMatch |-> ws.selfMatch + (IF e.selfMatch THEN 1 ELSE 0),
         offHours |-> ws.offHours + (IF OffHours(e.ts) THEN 1 ELSE 0),
         minutes |-> (MinuteKey(e.ts) :> (At(ws.minutes, MinuteKey(e.ts)) + 1)) @@ ws.minutes,
         hourly |-> (HourBucket(e.ts) :> (At(ws.hourly, HourBucket(e.ts)) + e.amount)) @@ ws.hourly,
         legs |-> LET legs == Append(ws.legs, <<e.gave, e.got>>)
                  IN  IF Len(legs) > RecentLegs THEN Tail(legs) ELSE legs]

\* WindowState._remove; popping an emptied entry is Set.  A window's legs stay.
RemoveEntry(ws, e) ==
    LET d == FirstDigit(e.amount)
    IN  [ws EXCEPT
         !.amountSum = Less(@, e.amount),
         !.tradeCount = Less(@, 1),
         !.cpVolume = Set(@, e.cp, Less(At(@, e.cp), e.amount)),
         !.digitHistogram = Counted(@, d, Less(At(@, d), 1)),
         !.digitCount = IF d = 0 THEN @ ELSE Less(@, 1),
         !.selfMatch = IF e.selfMatch THEN Less(@, 1) ELSE @,
         !.offHours = IF OffHours(e.ts) THEN Less(@, 1) ELSE @,
         !.minutes = Set(@, MinuteKey(e.ts), Less(At(@, MinuteKey(e.ts)), 1)),
         !.hourly = Set(@, HourBucket(e.ts), Less(At(@, HourBucket(e.ts)), e.amount))]

\* The entries at the head that update() evicts: ts <= ts_sec - window_sec.
Expired(trades, ts, sec) ==
    LET n == CHOOSE k \in 0 .. Len(trades) :
                /\ \A i \in 1 .. k : trades[i].ts + sec <= ts
                /\ k < Len(trades) => trades[k + 1].ts + sec > ts
    IN  SubSeq(trades, 1, n)

Evicted(ws, gone) ==
    [FoldLeft(RemoveEntry, ws, gone) EXCEPT
        !.trades = SubSeq(@, Len(gone) + 1, Len(@))]

UpdateWindow(ws, e, sec) == AddEntry(Evicted(ws, Expired(ws.trades, e.ts, sec)), e)

\* _extract_trade_fields of trade t for wallet w
Fields(t, w) ==
    [ts |-> t.ts, amount |-> t.amount,
     cp |-> IF t.base = w THEN t.counter ELSE t.base,
     gave |-> IF t.base = w THEN t.gave ELSE t.got,
     got |-> IF t.base = w THEN t.got ELSE t.gave,
     selfMatch |-> t.base = t.counter]

Update(t) ==
    LET touched == {t.base, t.counter}
    IN  /\ MapThenSumSet(LAMBDA w : total[w], Wallets) + Cardinality(touched) <= AggregateMaxTrades
        /\ known' = known \cup touched
        /\ windows' = [w \in Wallets |-> IF w \notin touched THEN windows[w] ELSE
                          [l \in Labels |->
                              UpdateWindow(windows[w][l], Fields(t, w), WindowSec[l])]]
        /\ total' = [w \in Wallets |-> total[w] + (IF w \in touched THEN 1 ELSE 0)]
        /\ partners' = [w \in Wallets |-> IF w \in touched
                            THEN partners[w] \cup {Fields(t, w).cp} ELSE partners[w]]
        /\ newest' = [w \in Wallets |-> IF w \in touched /\ t.ts > newest[w]
                          THEN t.ts ELSE newest[w]]
        /\ ordered' = [w \in Wallets |-> ordered[w] /\ (w \in touched => t.ts >= newest[w])]
        /\ seen' = [w \in Wallets |-> IF w \in touched
                        THEN Append(seen[w], Fields(t, w)) ELSE seen[w]]

----------------------------------------------------------------------------
\* The features get_features reads, as fractions <<numerator, denominator>>.
NoFeature == <<0, 1>>
Sum(S, F(_)) == MapThenSumSet(F, S)

CounterpartyConcentration(ws) ==
    IF DOMAIN ws.cpVolume = {} \/ ws.amountSum = 0 THEN NoFeature
    ELSE <<Max({ws.cpVolume[c] : c \in DOMAIN ws.cpVolume}), ws.amountSum>>

SelfMatchingRate(ws) ==
    IF ws.tradeCount = 0 THEN NoFeature ELSE <<ws.selfMatch, ws.tradeCount>>

OffHoursActivityRatio(ws) ==
    IF ws.tradeCount = 0 THEN NoFeature ELSE <<ws.offHours, ws.tradeCount>>

IntraMinuteClustering(ws) ==
    LET Clustered(m) == IF ws.minutes[m] > 1 THEN ws.minutes[m] ELSE 0
    IN  IF ws.tradeCount = 0 THEN NoFeature
        ELSE <<Sum(DOMAIN ws.minutes, Clustered), ws.tradeCount>>

\* volume_spike_frequency: v > mean + 2 * std, without the square root.
VolumeSpikeFrequency(ws) ==
    LET hours == DOMAIN ws.hourly
        n == Cardinality(hours)
        Volume(h) == ws.hourly[h]
        Square(h) == ws.hourly[h] * ws.hourly[h]
        s == Sum(hours, Volume)
        var == n * Sum(hours, Square) - s * s
        Spike(h) == /\ n * ws.hourly[h] > s
                    /\ (n * ws.hourly[h] - s) * (n * ws.hourly[h] - s) > 4 * var
    IN  IF n < 2 \/ var = 0 THEN NoFeature ELSE <<Cardinality({h \in hours : Spike(h)}), n>>

RoundTripFrequency(ws) ==
    LET n == Len(ws.legs)
        Back(i, j) == ws.legs[j] = <<ws.legs[i][2], ws.legs[i][1]>>
    IN  IF n < 2 THEN NoFeature
        ELSE <<Cardinality({i \in 1 .. n : \E j \in (i + 1) .. Min({i + MaxLookback, n}) : Back(i, j)}), n>>

GetFeatures(w) ==
    LET day == windows[w]["24h"]  month == windows[w]["30d"]
    IN  IF w \notin known THEN {NoFeature}
        ELSE {CounterpartyConcentration(day), RoundTripFrequency(day),
              SelfMatchingRate(day), OffHoursActivityRatio(day),
              IntraMinuteClustering(day), VolumeSpikeFrequency(month)}

Trades == [base : Wallets, counter : Wallets, amount : Amounts, ts : 0 .. AggregateMaxTime,
           gave : Assets, got : Assets]

AggregateNext == \E t \in Trades : t.gave # t.got /\ Update(t)

AggregateSpec == AggregateInit /\ [][AggregateNext]_aggregateVars

----------------------------------------------------------------------------
\* What the window's trades give when everything is computed afresh.
Recomputed(trades) == FoldLeft(AddEntry, NoTrades, trades)

Positive(f) == {<<k, f[k]>> : k \in {x \in DOMAIN f : f[x] > 0}}

SameTotals(ws, ref) ==
    /\ ws.amountSum = ref.amountSum /\ ws.tradeCount = ref.tradeCount
    /\ Positive(ws.cpVolume) = Positive(ref.cpVolume)
    /\ ws.digitHistogram = ref.digitHistogram /\ ws.digitCount = ref.digitCount
    /\ ws.selfMatch = ref.selfMatch /\ ws.offHours = ref.offHours
    /\ ws.minutes = ref.minutes /\ Positive(ws.hourly) = Positive(ref.hourly)

(* However trades are added and evicted, each window's running sums, counts *)
(* and histograms (WindowState._add and _remove, with their clamps at zero) *)
(* are those of the trades in it; when a wallet's trades came in time order *)
(* these are exactly the trades younger than the window, and no rate that   *)
(* get_features reports exceeds one.                                        *)
AggregatesMatchTrades ==
    \A w \in Wallets :
        /\ \A l \in Labels :
              /\ SameTotals(windows[w][l], Recomputed(windows[w][l].trades))
              /\ ordered[w] =>
                    windows[w][l].trades =
                        SelectSeq(seen[w], LAMBDA e : e.ts + WindowSec[l] > newest[w])
        /\ \A f \in GetFeatures(w) : f[1] <= f[2]

-----------------------------------------------------------------------------
(* A wallet's rolling window and its checkpoint (detection/rolling_window): *)
(* trades arrive late and out of order, the window is kept in time order so *)
(* that expiry and the size cap can take from its head, and the whole       *)
(* window is saved to and loaded from a row of the database.                *)

CONSTANTS Tolerance,    \* WINDOW_TOLERANCE_HOURS
          MaxSize,      \* MAX_TRADES_PER_WALLET_WINDOW
          WindowMaxTime,      \* bound: the clock
          WindowMaxTrades     \* bound: trades offered

VARIABLES
    now,
    window,     \* _trades: the ledger times, in the deque's order
    last,       \* _last_score
    row,        \* the checkpoint: [trades, score], or "none", or "corrupt"
    offered,    \* trades offered so far
    accepted    \* history: trades this window took, lost ones excepted

windowVars == <<now, window, last, row, offered, accepted>>

WindowTypeOK ==
    /\ now \in 0 .. WindowMaxTime /\ offered \in 0 .. WindowMaxTrades
    /\ window \in BoundedSeq(0 .. WindowMaxTime, MaxSize)
    /\ last \in 0 .. WindowMaxTrades

WindowInit ==
          /\ now = 0
          /\ window = <<>> /\ last = 0 /\ row = [trades |-> <<>>, score |-> 0]
          /\ offered = 0
          /\ accepted = <<>>

WindowTick == now < WindowMaxTime /\ now' = now + 1 /\ UNCHANGED <<window, last, row, offered, accepted>>

\* _evict: from the head, while the head is beyond the tolerance.
Unexpired(w) ==
    LET n == CHOOSE k \in 0 .. Len(w) : /\ \A i \in 1 .. k : w[i] + Tolerance < now
                                        /\ k < Len(w) => w[k + 1] + Tolerance >= now
    IN  SubSeq(w, n + 1, Len(w))

Capped(w) == IF Len(w) >= MaxSize THEN Tail(w) ELSE w

Inserted_Last(w, ts) == Append(w, ts)

\* Behind the last trade that is not younger.
Inserted(w, ts) ==
    LET i == CHOOSE k \in 0 .. Len(w) : /\ k > 0 => w[k] <= ts
                                        /\ \A j \in (k + 1) .. Len(w) : w[j] > ts
    IN  SubSeq(w, 1, i) \o <<ts>> \o SubSeq(w, i + 1, Len(w))

\* add(): a trade beyond the tolerance is refused, after the eviction.
AddTrade(ts) ==
    /\ offered < WindowMaxTrades
    /\ offered' = offered + 1
    /\ window' = IF ts + Tolerance < now THEN Unexpired(window)
                 ELSE Inserted(Capped(Unexpired(window)), ts)
    /\ accepted' = IF ts + Tolerance < now THEN accepted ELSE Append(accepted, ts)
    /\ UNCHANGED <<now, last, row>>

Scored == last' = offered /\ UNCHANGED <<now, window, row, offered, accepted>>

SaveAll ==
    /\ row' = [trades |-> window, score |-> last]
    /\ UNCHANGED <<now, window, last, offered, accepted>>

\* The process restarts and load_all reads the row; a corrupt one is skipped.
LoadAll(corrupt) ==
    /\ window' = IF corrupt THEN <<>> ELSE row.trades
    /\ last' = IF corrupt THEN 0 ELSE row.score
    /\ accepted' = window'
    /\ UNCHANGED <<now, row, offered>>

\* get(hours): the trades of the window not older than hours.
Get(hours) == SelectSeq(window, LAMBDA ts : ts + hours >= now)

WindowNext ==
          \/ WindowTick
          \/ \E ts \in 0 .. now : AddTrade(ts)
          \/ Scored
          \/ SaveAll
          \/ \E corrupt \in BOOLEAN : LoadAll(corrupt)

WindowSpec == WindowInit /\ [][WindowNext]_windowVars

----------------------------------------------------------------------------
Count(s, ts) == Len(SelectSeq(s, LAMBDA x : x = ts))

(* However late and disordered the trades arrive and whenever the window is *)
(* reloaded, get(hours) returns trades in time order, each as often as it   *)
(* was accepted, and misses none of those hours unless more trades were     *)
(* accepted than the window may hold.                                       *)
Ordered(s) == \A i \in 1 .. Len(s) - 1 : s[i] <= s[i + 1]

GetIsOrderedAndComplete ==
    \A hours \in 0 .. Tolerance :
        LET got == Get(hours)
        IN  /\ Ordered(got)
            /\ \A ts \in 0 .. now : Count(got, ts) <= Count(accepted, ts)
            /\ Len(accepted) <= MaxSize =>
                  \A ts \in 0 .. now : ts + hours >= now => Count(got, ts) = Count(accepted, ts)

=============================================================================
