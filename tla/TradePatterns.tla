---------------------------- MODULE TradePatterns ---------------------------
(*****************************************************************************)
(* Patterns over the trades of wallets: cyclic path payments, sandwiched     *)
(* trades and short liquidity-pool sessions.                                 *)
(*****************************************************************************)
EXTENDS Integers, Sequences, FiniteSets, FiniteSetsExt, SequencesExt

-----------------------------------------------------------------------------
(***************************************************************************)
(* detection/path_payment_engine.py, PathPaymentGraph and                  *)
(* PathCycleDetector: hops between (wallet, asset) nodes are kept for a    *)
(* window of time under three caps, and after every batch the cycles       *)
(* through the wallets that moved are looked for.  Hops arrive late, out   *)
(* of order and more than once; those of a bridge make both ends move.     *)
(***************************************************************************)

CONSTANTS
    Nodes,         \* <<wallet, asset>>
    Routes,        \* the hops there are: [src, dst, amount, bridged]
    PathWindow, MaxDepth,
    MaxNodesPerWallet, MaxEdgesPerWallet, MaxGraphEdges,
    MinRatio, MinScore,    \* in hundredths
    MaxOps, PathMaxTime, MaxHops

VARIABLES
    adj,          \* hops in the graph: [src, dst, amount, ts, n]; n counts the arrivals
    totalEdges,   \* _total_edges
    walletEdges,  \* _wallet_edges
    walletNodes,  \* _wallet_nodes
    seenOps,      \* _seen_ops
    toCheck,      \* wallets_to_check of the batch being ingested
    found,        \* the cycles of the last batch: [wallet, hops]
    cycles,       \* what get_features reads of _cycles: [count, ratio]
    pathNewest,       \* latest timestamp so far
    pathInOrder,      \* hops came in order of their timestamps
    arrivals

pathVars == <<adj, totalEdges, walletEdges, walletNodes, seenOps, toCheck, found, cycles,
              pathNewest, pathInOrder, arrivals>>

Wallets == {n[1] : n \in Nodes}
Of(w) == {e \in adj : e.src[1] = w}
Between(E, a, b) == {e \in E : e.src = a /\ e.dst = b}
First(E) == CHOOSE e \in E : \A f \in E : e.n <= f.n
Latest(E) == CHOOSE e \in E : \A f \in E : e.n >= f.n
Monus(a, b) == IF a > b THEN a - b ELSE 0

PathTypeOK ==
    /\ walletNodes \in [Wallets -> SUBSET Nodes] /\ seenOps \subseteq 1 .. MaxOps
    /\ totalEdges \in 0 .. MaxGraphEdges /\ walletEdges \in [Wallets -> 0 .. MaxEdgesPerWallet]
    /\ toCheck \subseteq Wallets /\ cycles \in [Wallets -> [count : Nat, ratio : Nat]]

PathInit ==
        /\ adj = {} /\ totalEdges = 0 /\ walletEdges = [w \in Wallets |-> 0]
        /\ walletNodes = [w \in Wallets |-> {}] /\ seenOps = {} /\ toCheck = {}
        /\ found = {} /\ cycles = [w \in Wallets |-> [count |-> 0, ratio |-> 0]]
        /\ pathNewest = 0 /\ pathInOrder = TRUE /\ arrivals = 0

-----------------------------------------------------------------------------
\* _prune_old_edges, as a new state of the graph.  A node is forgotten when
\* one of its lists of hops becomes empty, even if it has others.
Pruned(G, ts) ==
    LET keep == {e \in G.adj : e.ts >= ts - PathWindow}
        gone == G.adj \ keep
        lost == {e.src : e \in {f \in gone : Between(keep, f.src, f.dst) = {}}}
        cnt(w) == Cardinality({e \in gone : e.src[1] = w})
    IN  [adj |-> keep, total |-> G.total - Cardinality(gone),
         edges |-> [w \in Wallets |-> Monus(G.edges[w], cnt(w))],
         nodes |-> [w \in Wallets |-> G.nodes[w] \ lost]]

\* _evict_oldest without hop e, the first of the list that starts earliest.
Evicted(G, e) ==
    [G EXCEPT !.adj = @ \ {e}, !.total = @ - 1, !.edges[e.src[1]] = Monus(@, 1),
              !.nodes = [w \in Wallets |-> IF Between(G.adj \ {e}, e.src, e.dst) = {} THEN @[w] \ {e.src} ELSE @[w]]]
Heads(E) == {e \in E : e = First(Between(E, e.src, e.dst))}
Oldest(E) == {e \in Heads(E) : \A f \in Heads(E) : e.ts <= f.ts}

\* add_hop: what the graph may be afterwards.  A node over the wallet's cap
\* is refused and still counted.
Added(G, e) ==
    LET w == e.src[1]
        P == Pruned(G, e.ts)
        Q == [P EXCEPT !.nodes[w] = @ \cup {e.src}]
        Put(R) == [R EXCEPT !.adj = @ \cup {e}, !.total = @ + 1, !.edges[w] = @ + 1]
    IN  IF Cardinality(Q.nodes[w]) > MaxNodesPerWallet \/ Q.edges[w] >= MaxEdgesPerWallet THEN {Q}
        ELSE IF Q.total >= MaxGraphEdges THEN {Put(Evicted(Q, o)) : o \in Oldest(Q.adj)}
        ELSE {Put(Q)}

-----------------------------------------------------------------------------
\* _dfs: the sequences of nodes it closes from start.  A node may follow
\* itself once (a hop to itself), nothing else comes twice.
Closed(E, s) ==
    LET k == Len(s)
        At(i) == IF i > k THEN s[1] ELSE s[i]
    IN  /\ \A i \in 1 .. k : Between(E, s[i], At(i + 1)) # {}
        /\ \A i, j \in 1 .. k : i < j /\ s[i] = s[j] => i > 1 /\ j = i + 1
HopsOf(E, s) ==
    [i \in DOMAIN s |-> Latest(Between(E, s[i], IF i = Len(s) THEN s[1] ELSE s[i + 1]))]
Walks(E, start) ==
    {HopsOf(E, s) : s \in {x \in UNION {[1 .. k -> {e.src : e \in E}] : k \in 3 .. MaxDepth + 1} :
                            x[1] = start /\ Closed(E, x)}}

\* recovery ratio and _score_cycle in hundredths; a unit of time is 600 s.
Ratio(h) == IF h[1].amount > 0 THEN (100 * h[Len(h)].amount) \div h[1].amount ELSE 0
Duration(h) == LET T == {h[i].ts : i \in DOMAIN h} IN Max(T) - Min(T)
Overlap(h) ==
    Max({Cardinality({j \in DOMAIN h : h[j].src[1] = h[i].src[1]}) : i \in DOMAIN h}) - 1
Score(h) ==
    (40 * Ratio(h)) \div 100 + 30 \div (1 + Duration(h)) + (20 - 20 \div Len(h))
        + (10 * Overlap(h)) \div (Len(h) - 1)

\* find_cycles and _detect: a cycle is reported from the first of its nodes
\* the walk starts at; which one is first is open.
Detected(G, w, first) ==
    IF G.edges[w] = 0 \/ Cardinality(G.nodes[w]) > MaxNodesPerWallet THEN {}
    ELSE LET S == Walks(G.adj, first)
             T == UNION {Walks(G.adj, n) : n \in {n \in Nodes : n[1] = w} \ {first}}
             new == S \cup {t \in T : ~\E u \in S : ToSet(u) = ToSet(t)}
         IN  {[wallet |-> w, hops |-> h] : h \in {c \in new : Ratio(c) >= 50 /\ Ratio(c) >= MinRatio /\ Score(c) >= MinScore}}

Graph == [adj |-> adj, total |-> totalEdges, edges |-> walletEdges, nodes |-> walletNodes]

\* One record of ingest, or one edge of ingest_bridge_transfers: a known
\* operation adds nothing, but its wallets are searched again.
PathIngest(op, r, ts) ==
    LET e == [src |-> r.src, dst |-> r.dst, amount |-> r.amount, ts |-> ts, n |-> arrivals + 1]
    IN  /\ arrivals < MaxHops /\ arrivals' = arrivals + 1
        /\ \E H \in IF op \in seenOps THEN {Graph} ELSE Added(Graph, e) :
            adj' = H.adj /\ totalEdges' = H.total /\ walletEdges' = H.edges /\ walletNodes' = H.nodes
        /\ seenOps' = seenOps \cup {op} /\ found' = {}
        /\ toCheck' = toCheck \cup {r.src[1]} \cup (IF r.bridged THEN {r.dst[1]} ELSE {})
        /\ pathNewest' = (IF ts > pathNewest THEN ts ELSE pathNewest)
        /\ pathInOrder' = (pathInOrder /\ ts >= pathNewest)
        /\ UNCHANGED cycles

\* _detect, after the last record of the batch.  A cycle is confirmed anew in
\* every batch that finds it.
PathDetect ==
    /\ toCheck # {} /\ toCheck' = {}
    /\ \E first \in [toCheck -> Nodes] :
        /\ \A w \in toCheck : first[w][1] = w
        /\ found' = UNION {Detected(Graph, w, first[w]) : w \in toCheck}
    /\ cycles' = [w \in Wallets |->
            LET mine == {c \in found' : c.wallet = w}
            IN  [count |-> cycles[w].count + Cardinality(mine),
                 ratio |-> Max({Ratio(c.hops) : c \in mine} \cup {cycles[w].ratio})]]
    /\ UNCHANGED <<adj, totalEdges, walletEdges, walletNodes, seenOps, pathNewest, pathInOrder, arrivals>>

\* An operation known already, or the next new one.
PathOps == 1 .. Min({MaxOps, Cardinality(seenOps) + 1})

PathNext ==
    \/ \E op \in PathOps, r \in Routes, ts \in 0 .. PathMaxTime : PathIngest(op, r, ts)
    \/ PathDetect

PathSpec == PathInit /\ [][PathNext]_pathVars
-----------------------------------------------------------------------------
\* The counters that enforce the caps are the numbers they stand for.
CountersAreExact ==
    /\ totalEdges = Cardinality(adj)
    /\ \A w \in Wallets : walletEdges[w] = Cardinality(Of(w))

\* A reported cycle is a closed chain of three or more hops of the graph that
\* starts at the wallet; and as long as hops come in order its hops lie
\* within one window.  The features of the wallet take it into account.
CyclesAreReal ==
    \A c \in found :
        LET h == c.hops IN
        /\ Len(h) >= 3 /\ h[1].src[1] = c.wallet /\ ToSet(h) \subseteq adj
        /\ \A i \in DOMAIN h : h[i].dst = h[(i % Len(h)) + 1].src
        /\ pathInOrder => Duration(h) <= PathWindow
        /\ Ratio(h) <= cycles[c.wallet].ratio
        /\ Cardinality({d \in found : d.wallet = c.wallet}) <= cycles[c.wallet].count

PathCyclesAreSound == CountersAreExact /\ CyclesAreReal

-----------------------------------------------------------------------------
(***************************************************************************)
(* detection/sandwich_engine.py and the pool detectors of                  *)
(* detection/amm_engine.py.  Each detector is a function of the table of   *)
(* trades loaded so far; the pipeline runs it again on a longer table on   *)
(* every pass, so the model grows the table one trade at a time and asks   *)
(* how the results of the passes, and of the detectors, fit together.      *)
(* One pool and one asset pair.                                            *)
(***************************************************************************)

CONSTANTS
    Shapes,         \* the trades there are: [acct, pool, buy, price, amt]
    MaxTrades, SandwichMaxTime,
    SandwichWindow,         \* of a round trip
    MaxLedgerGap, Slippage, FeeRate, MinProfit,   \* of a sandwich; rates in thousandths
    PoolFee,        \* fee_rate of a round trip
    LedgerWindow, MinVictim, MinImpact, MinConfidence, Baseline

VARIABLES
    trades,     \* the table, in the order of arrival; each with its time t
    sandwichInOrder     \* no trade arrived behind a later one

sandwichVars == <<trades, sandwichInOrder>>

Ids == 1 .. Len(trades)
Abs(x) == IF x < 0 THEN -x ELSE x
Least(a, b) == IF a < b THEN a ELSE b

SandwichTypeOK ==
    /\ Len(trades) <= MaxTrades /\ sandwichInOrder \in BOOLEAN
    /\ \A i \in Ids : trades[i].t \in 0 .. SandwichMaxTime

SandwichInit == trades = <<>> /\ sandwichInOrder = TRUE

\* A further trade is loaded.
Load(shape, t) ==
    /\ Len(trades) < MaxTrades
    /\ trades' = Append(trades, [acct |-> shape.acct, pool |-> shape.pool, buy |-> shape.buy,
                                 price |-> shape.price, amt |-> shape.amt, t |-> t])
    /\ sandwichInOrder' = (sandwichInOrder /\ \A i \in Ids : trades[i].t <= t)

SandwichNext == \E shape \in Shapes, t \in 0 .. SandwichMaxTime : Load(shape, t)
SandwichSpec == SandwichInit /\ [][SandwichNext]_sandwichVars

-----------------------------------------------------------------------------
\* _pool_rows
PoolRows == {i \in Ids : trades[i].pool}

\* _with_ordering: no column has the ledger, so every distinct close time
\* counts as one, without the ledgers in which the pool did not trade.
Ledger(i) == Cardinality({trades[j].t : j \in {k \in PoolRows : trades[k].t <= trades[i].t}})

\* (ledger_sequence, operation_order): inside a ledger the original order.
\* The sorts by time alone keep it too on tables as short as these.
Before(i, j) == trades[i].t < trades[j].t \/ (trades[i].t = trades[j].t /\ i < j)

FirstOf(S) == CHOOSE i \in S : \A j \in S \ {i} : Before(i, j)

\* _select_victim: the highest price between, and the first of equals.
SelectVictim(i, k) ==
    LET between == {j \in PoolRows : /\ Before(i, j) /\ Before(j, k)
                                     /\ trades[j].acct # trades[i].acct /\ trades[j].buy}
    IN  FirstOf({j \in between : \A m \in between : trades[m].price <= trades[j].price})

HasVictim(i, k) ==
    \E j \in PoolRows : /\ Before(i, j) /\ Before(j, k)
                        /\ trades[j].acct # trades[i].acct /\ trades[j].buy

\* 1000 times the profit after fees.
Profit(i, k) ==
    LET quantity == Least(trades[i].amt, trades[k].amt)
    IN  1000 * (trades[k].price - trades[i].price) * quantity
            - FeeRate * (trades[k].price + trades[i].price) * quantity

\* The sells that close the buy i with a victim and a profit.
Closes(i, k) ==
    /\ trades[k].acct = trades[i].acct /\ ~trades[k].buy /\ Before(i, k)
    /\ Ledger(k) - Ledger(i) <= MaxLedgerGap
    /\ 1000 * trades[k].price > trades[i].price * (1000 + Slippage)
    /\ HasVictim(i, k)
    /\ Profit(i, k) >= 1000 * MinProfit

Close_Best(i) ==
    LET closing == {m \in PoolRows : Closes(i, m)}
    IN  FirstOf({k \in closing : \A m \in closing : Profit(i, m) <= Profit(i, k)})

\* One sandwich per opening buy: its first close.
Close(i) == FirstOf({m \in PoolRows : Closes(i, m)})

\* detect_sandwich_candidates
Candidates ==
    IF Cardinality(PoolRows) < 3 THEN {}
    ELSE LET openings == {i \in PoolRows : /\ trades[i].buy /\ trades[i].price > 0
                                           /\ \E k \in PoolRows : Closes(i, k)}
         IN  {[buy |-> i, victim |-> SelectVictim(i, Close(i)), sell |-> Close(i)] : i \in openings}

\* pool_sandwich_frequency, in thousandths; pool_sandwich_count is the size.
SandwichFrequency ==
    IF PoolRows = {} THEN 0
    ELSE Least((3000 * Cardinality(Candidates)) \div Cardinality(PoolRows), 1000)

-----------------------------------------------------------------------------
\* pool_round_trip_ratio: the trades of the account that another one in the
\* window turns back.  An account with one trade has none.
RoundTrips(a) ==
    LET mine == {i \in PoolRows : trades[i].acct = a}
    IN  {i \in mine : \E j \in mine : /\ Before(i, j) /\ trades[j].t <= trades[i].t + SandwichWindow
                                      /\ trades[j].buy # trades[i].buy}

\* pool_risk_from_trade_rows: the round trips of the accounts together.
RiskRoundTrips == Cardinality(UNION {RoundTrips(trades[i].acct) : i \in PoolRows})

Pays(i, k) ==
    /\ trades[k].acct = trades[i].acct /\ Before(i, k) /\ ~trades[k].buy /\ trades[k].amt > 0
    /\ trades[k].t - trades[i].t <= SandwichWindow
    /\ LET quantity == Least(trades[i].amt, trades[k].amt)
       IN  trades[k].price * quantity * (1000 - PoolFee) > trades[i].price * quantity * (1000 + PoolFee)

ProfitableTrips ==
    {[buy |-> i, sell |-> FirstOf({k \in PoolRows : Pays(i, k)})] :
        i \in {j \in PoolRows : trades[j].buy /\ trades[j].amt > 0 /\ \E k \in PoolRows : Pays(j, k)}}

-----------------------------------------------------------------------------
\* SandwichEngine.detect, on all trades of the pair.  _compute_price_impact
\* and _timing_significance in thousandths, _confidence three times that.
PriceImpact(pre, post) == IF pre = 0 THEN 0 ELSE (1000 * (post - pre)) \div pre

TimingSignificance(interval) ==
    IF Baseline = <<>> THEN 500
    ELSE 1000 - (1000 * Cardinality({n \in DOMAIN Baseline : Baseline[n] <= interval})) \div Len(Baseline)

Confidence(amount, impact, timing) ==
    Least(1000, (1000 * amount) \div (5 * MinVictim)) + Least(1000, (1000 * Abs(impact)) \div (3 * MinImpact)) + timing

\* The window is one of rows, not of ledgers.
RowsBetween(i, j) == Cardinality({m \in Ids : Before(i, m) /\ Before(m, j)}) + 1

Detect ==
    {e \in [front : Ids, victim : Ids, back : Ids] :
        LET f == trades[e.front] v == trades[e.victim] b == trades[e.back]
            impact == PriceImpact(f.price, b.price)
        IN  /\ Before(e.front, e.victim) /\ Before(e.victim, e.back)
            /\ RowsBetween(e.front, e.victim) <= LedgerWindow
            /\ RowsBetween(e.victim, e.back) <= LedgerWindow
            /\ v.amt >= MinVictim /\ f.acct # v.acct /\ b.acct = f.acct
            /\ Abs(impact) >= MinImpact
            /\ Confidence(v.amt, impact, TimingSignificance(b.t - f.t)) >= 3 * MinConfidence}

-----------------------------------------------------------------------------
(***************************************************************************)
(* While trades arrive in order, a later pass reports again every sandwich *)
(* and every round trip an earlier pass reported: neither the choice of    *)
(* the close nor that of the victim moves when the table grows.            *)
(***************************************************************************)
PassesAgreeStep ==
    sandwichInOrder' => /\ Candidates \subseteq Candidates'
                        /\ ProfitableTrips \subseteq ProfitableTrips'
                        /\ Detect \subseteq Detect'

(***************************************************************************)
(* The detectors agree with each other: a profitable round trip is a round *)
(* trip of the ratio, and a sandwich that ends inside the window of round  *)
(* trips and pays the fees is a profitable one (its own close may come     *)
(* later than the first that pays), and the counts of the pool fit the     *)
(* lists.  No sandwich has its attacker as victim.                         *)
(***************************************************************************)
DetectorsAgree ==
    /\ \A p \in ProfitableTrips : p.buy \in RoundTrips(trades[p.buy].acct)
    /\ \A c \in Candidates :
        /\ trades[c.victim].acct # trades[c.buy].acct
        /\ trades[c.victim].t \in trades[c.buy].t .. trades[c.sell].t
        /\ (trades[c.sell].t - trades[c.buy].t <= SandwichWindow /\ Pays(c.buy, c.sell))
              => \E p \in ProfitableTrips : p.buy = c.buy /\ ~Before(c.sell, p.sell)
    /\ Cardinality(ProfitableTrips) <= RiskRoundTrips
    /\ (SandwichFrequency = 0) = (Candidates = {})

-----------------------------------------------------------------------------
(***************************************************************************)
(* detection/amm_engine.py, AMMEngine: deposits and withdrawals of a       *)
(* wallet in a pool are paired into sessions, the wallet's trades are      *)
(* added to the sessions they fall in, and a closed session that scores    *)
(* high is reported once.  Operations and trades come in batches, which    *)
(* may overlap or be late.  The two assets of a pool count together.       *)
(***************************************************************************)

CONSTANTS
    Keys,            \* <<wallet, pool>>
    OpAmounts, TradeAmounts, Partners,
    MaxSessions,     \* MAX_SESSIONS_PER_WALLET
    MaxTenure, MinVolumeRatio,
    AmmMaxTime, MaxBatches

VARIABLES
    sessions,    \* _sessions
    anomalies,   \* _anomalies
    seenKeys,    \* _seen_keys
    ammNewest,      \* the latest time in an earlier batch
    ammInOrder,     \* no batch had something older than an earlier batch
    batches

ammVars == <<sessions, anomalies, seenKeys, ammNewest, ammInOrder, batches>>

Open == -1
AmmOps == [kind : {"deposit"}, key : Keys, t : 0 .. AmmMaxTime, amt : OpAmounts]
          \cup [kind : {"withdraw"}, key : Keys, t : 0 .. AmmMaxTime, amt : OpAmounts]
Trades == [key : Keys, t : 0 .. AmmMaxTime, amt : TradeAmounts, cp : Partners]

AmmTypeOK ==
    /\ \A k \in Keys : Len(sessions[k]) <= MaxSessions
    /\ seenKeys \subseteq Keys \X (0 .. AmmMaxTime) /\ batches \in 0 .. MaxBatches

AmmInit ==
       /\ sessions = [k \in Keys |-> <<>>] /\ anomalies = <<>> /\ seenKeys = {}
       /\ ammNewest = 0 /\ ammInOrder = TRUE /\ batches = 0

-----------------------------------------------------------------------------
Deposited(list, op) ==
    LET kept == IF Len(list) >= MaxSessions THEN SubSeq(list, Len(list) - MaxSessions + 2, Len(list)) ELSE list
    IN  Append(kept, [dep |-> op.t, wd |-> Open, put |-> op.amt, got |-> 0, trades |-> <<>>])

\* The oldest open session is closed; without one the withdrawal is ignored.
Withdrawn(list, op) ==
    LET open == {n \in DOMAIN list : list[n].wd = Open}
    IN  IF open = {} THEN list
        ELSE [list EXCEPT ![Min(open)].wd = op.t, ![Min(open)].got = op.amt]

\* The loop over the operations, in the order of their paging tokens.
AfterOps(S, ops) ==
    FoldLeft(LAMBDA T, op : [T EXCEPT ![op.key] = IF op.kind = "deposit" THEN Deposited(@, op)
                                                  ELSE Withdrawn(@, op)], S, ops)

\* The loop over the trades: into every session of the key they fall in.
AfterTrades(S, trs) ==
    LET falls(tr, s) == tr.t >= s.dep /\ (s.wd = Open \/ tr.t <= s.wd)
    IN  FoldLeft(LAMBDA T, tr : [T EXCEPT ![tr.key] =
            [n \in DOMAIN @ |-> IF falls(tr, @[n]) THEN [@[n] EXCEPT !.trades = Append(@, tr)] ELSE @[n]]],
            S, trs)

-----------------------------------------------------------------------------
\* The properties of a session and its score, in thousandths.
AtMost(a, b) == IF a < b THEN a ELSE b
AtLeast(a, b) == IF a > b THEN a ELSE b

Volume(s) == FoldLeft(LAMBDA acc, tr : acc + tr.amt, 0, s.trades)
Symmetry(s) ==
    LET delta == IF s.put > s.got THEN s.put - s.got ELSE s.got - s.put
    IN  1000 - AtMost((1000 * delta) \div AtLeast(s.put, 1), 1000)
Concentration(s) ==
    LET of(c) == Cardinality({n \in DOMAIN s.trades : s.trades[n].cp = c})
    IN  IF s.trades = <<>> THEN 0 ELSE (1000 * Max({of(c) : c \in Partners})) \div Len(s.trades)

AnomalyScore(s) ==
    LET tenure == AtLeast(0, 1000 - (1000 * (s.wd - s.dep)) \div MaxTenure)
        volume == AtMost(1000, (1000 * Volume(s)) \div (AtLeast(s.put, 1) * MinVolumeRatio * 4))
        symmetry == IF Symmetry(s) > 500 THEN (Symmetry(s) - 500) * 2 ELSE 0
        conc == IF Concentration(s) > 300 THEN ((Concentration(s) - 300) * 10) \div 7 ELSE 0
    IN  AtMost(1000, (3 * tenure + 3 * volume + 2 * symmetry + 2 * conc) \div 10)

\* The last loop: a closed session over 0.3 is reported, unless one of the
\* same wallet and pool that began at the same time was.
Reported(acc, k, list) ==
    FoldLeft(LAMBDA A, s :
        IF s.wd = Open \/ <<k, s.dep>> \in A.seen \/ AnomalyScore(s) <= 300 THEN A
        ELSE [found |-> Append(A.found, [key |-> k, dep |-> s.dep, wd |-> s.wd, score |-> AnomalyScore(s)]),
              seen |-> A.seen \cup {<<k, s.dep>>}], acc, list)

\* ingest_operations
AmmIngest(ops, trs) ==
    LET S == AfterTrades(AfterOps(sessions, ops), trs)
        A == FoldSet(LAMBDA k, acc : Reported(acc, k, S[k]), [found |-> anomalies, seen |-> seenKeys], Keys)
        times == {ops[n].t : n \in DOMAIN ops} \cup {trs[n].t : n \in DOMAIN trs}
    IN  /\ batches < MaxBatches /\ batches' = batches + 1
        /\ sessions' = S /\ anomalies' = A.found /\ seenKeys' = A.seen
        /\ ammInOrder' = (ammInOrder /\ \A t \in times : t >= ammNewest)
        /\ ammNewest' = Max(times \cup {ammNewest})

AmmNext == \/ \E op \in AmmOps : AmmIngest(<<op>>, <<>>)
           \/ \E tr \in Trades : AmmIngest(<<>>, <<tr>>)
           \/ \E op, q \in AmmOps, tr \in Trades : op.key = q.key /\ op.t <= q.t /\ AmmIngest(<<op, q>>, <<tr>>)
AmmSpec == AmmInit /\ [][AmmNext]_ammVars

-----------------------------------------------------------------------------
(***************************************************************************)
(* Sessions are closed in the order in which they began to be tracked, so  *)
(* an open one is never behind a closed one, and dropping the oldest at    *)
(* the cap does not break this.  While batches come in order, a session    *)
(* holds only trades of its tenure.  A session is reported at most once    *)
(* and its key is remembered even when the session itself is dropped.      *)
(***************************************************************************)
SessionsAreSound ==
    /\ \A k \in Keys : \A m, n \in DOMAIN sessions[k] :
        m < n /\ sessions[k][n].wd # Open => sessions[k][m].wd # Open
    /\ ammInOrder => \A k \in Keys : \A n \in DOMAIN sessions[k] :
        LET s == sessions[k][n] IN \A i \in DOMAIN s.trades :
            s.trades[i].t >= s.dep /\ (s.wd # Open => s.trades[i].t <= s.wd)
    /\ \A i, j \in DOMAIN anomalies :
        anomalies[i].key = anomalies[j].key /\ anomalies[i].dep = anomalies[j].dep => i = j
    /\ seenKeys = {<<anomalies[i].key, anomalies[i].dep>> : i \in DOMAIN anomalies}

=============================================================================
