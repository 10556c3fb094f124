----------------------------- MODULE RingSearch -----------------------------
(*****************************************************************************)
(* The search for wash-trading rings: strongly connected components, rings   *)
(* of the trade graph, sharded search, and timed cycles.  Each component has *)
(* its own variables, initial states and next-state relation.                *)
(*****************************************************************************)
EXTENDS Integers, Sequences, FiniteSets, FiniteSetsExt, SequencesExt

-----------------------------------------------------------------------------
(* detection/graph_engine.py, IterativeTarjanSCC.run: the strongly connected *)
(* components of an adjacency dict by an explicit work stack.                *)
LOCAL INSTANCE Graphs

CONSTANTS SccNodes,        \* node numbers
          SccEdges         \* the edges a graph may have, self-loops too

VARIABLES
    sccPhase,      \* "load", "run" or "done"
    adj,        \* the edges of the graph
    work,       \* work_stack: [node, left], left the neighbours not visited
    stack,      \* the stack of nodes
    index, lowlink,     \* functions on the nodes seen
    sccs        \* components found

sccVars == <<sccPhase, adj, work, stack, index, lowlink, sccs>>

SccTypeOK ==
    /\ sccPhase \in {"load", "run", "done"} /\ adj \subseteq SccEdges
    /\ DOMAIN index = DOMAIN lowlink /\ DOMAIN index \subseteq SccNodes
    /\ ToSet(stack) \subseteq DOMAIN index /\ UNION sccs \subseteq SccNodes

Neighbours(v) == {w \in SccNodes : <<v, w>> \in adj}
Keys == {v \in SccNodes : Neighbours(v) # {}}      \* the dict has nodes with successors only
Seen == DOMAIN index
Empty == [v \in {} |-> 0]

SccInit ==
       /\ sccPhase = "load" /\ adj = {} /\ work = <<>> /\ stack = <<>>
       /\ index = Empty /\ lowlink = Empty /\ sccs = {}

SccLoad ==
       /\ sccPhase = "load" /\ sccPhase' = "run" /\ adj' \in SUBSET SccEdges
       /\ UNCHANGED <<work, stack, index, lowlink, sccs>>

----------------------------------------------------------------------------
\* index[w] = lowlink[w] = index_counter, and w is pushed on both stacks.
Discover(w, rest) ==
    LET n == Cardinality(Seen)
    IN  /\ index' = [v \in Seen \cup {w} |-> IF v = w THEN n ELSE index[v]]
        /\ lowlink' = [v \in Seen \cup {w} |-> IF v = w THEN n ELSE lowlink[v]]
        /\ stack' = Append(stack, w)
        /\ work' = Append(rest, [node |-> w, left |-> Neighbours(w)])

\* The loop over the keys takes the next one not seen, in the dict's order.
StartRoot ==
    /\ sccPhase = "run" /\ work = <<>>
    /\ \E v \in Keys \ Seen : Discover(v, <<>>)
    /\ UNCHANGED <<sccPhase, adj, sccs>>

Top == work[Len(work)]
Advanced(w) == [work EXCEPT ![Len(work)].left = @ \ {w}]

BackEdge_AnySeen(v, w) == Min({lowlink[v], index[w]})

\* A neighbour seen before counts only while it is on the stack.
BackEdge(v, w) == IF w \in ToSet(stack) THEN Min({lowlink[v], index[w]}) ELSE lowlink[v]

(* next(neighbours), in the order of the adjacency list: a self-loop is      *)
(* skipped, a new node is descended into.                                    *)
NextNeighbour ==
    /\ sccPhase = "run" /\ work # <<>>
    /\ \E w \in Top.left :
          \/ w = Top.node /\ work' = Advanced(w) /\ UNCHANGED <<stack, index, lowlink>>
          \/ w \notin Seen /\ Discover(w, Advanced(w))
          \/ /\ w # Top.node /\ w \in Seen
             /\ work' = Advanced(w)
             /\ lowlink' = [lowlink EXCEPT ![Top.node] = BackEdge(Top.node, w)]
             /\ UNCHANGED <<stack, index>>
    /\ UNCHANGED <<sccPhase, adj, sccs>>

Position(v) == CHOOSE k \in 1 .. Len(stack) : stack[k] = v

\* StopIteration: the parent takes the lowlink, a root pops its component.
Exhausted ==
    /\ sccPhase = "run" /\ work # <<>> /\ Top.left = {}
    /\ LET v == Top.node  below == Front(work)
       IN  /\ work' = below
           /\ lowlink' = IF below = <<>> THEN lowlink
                         ELSE [lowlink EXCEPT ![below[Len(below)].node] = Min({@, lowlink[v]})]
           /\ IF lowlink[v] = index[v]
              THEN /\ sccs' = sccs \cup {ToSet(SubSeq(stack, Position(v), Len(stack)))}
                   /\ stack' = SubSeq(stack, 1, Position(v) - 1)
              ELSE UNCHANGED <<stack, sccs>>
    /\ UNCHANGED <<sccPhase, adj, index>>

SccFinish ==
    /\ sccPhase = "run" /\ work = <<>> /\ Keys \subseteq Seen
    /\ sccPhase' = "done"
    /\ UNCHANGED <<adj, work, stack, index, lowlink, sccs>>

SccDone == sccPhase = "done" /\ UNCHANGED sccVars

SccNext == SccLoad \/ StartRoot \/ NextNeighbour \/ Exhausted \/ SccFinish \/ SccDone

SccSpec == SccInit /\ [][SccNext]_sccVars

----------------------------------------------------------------------------
\* The nodes that reach v and are reached from it.
Mutual(v) ==
    LET reach == ConnectionsIn([node |-> SccNodes, edge |-> adj])
    IN  {w \in SccNodes : reach[v, w] /\ reach[w, v]}

(* The components found are those of mutual reachability, for every graph    *)
(* over the edges given, although neighbours already finished are met again. *)
ComponentsAreExact ==
    sccPhase = "done" => sccs = {Mutual(v) : v \in Keys \cup {e[2] : e \in adj}}

-----------------------------------------------------------------------------
(* detection/graph_engine.py: the trade graph, its wash rings with their     *)
(* volumes, and the cached answer.  The components are those run finds       *)
(* above; here they are the classes of mutual reachability.                  *)

CONSTANTS RingNodes,        \* accounts, as their positions in sorted order
          TradePairs,       \* the accounts a trade may be between, a pair of one too
          Amounts,          \* base_amount of a trade
          MaxTrades,        \* bound: trades offered to the graph
          Limits,           \* settings: MAX_GRAPH_NODES, GRAPH_MMAP_THRESHOLD
                            \* and GRAPH_SHARD_ENABLED, as [nodes, mmap, shard]
          MaxExactNodes     \* _MAX_EXACT_CYCLE_VOLUME_NODES

\* The parameters find_wash_rings is called with: [min, max, volume].
Queries == {[min |-> 1, max |-> 10, volume |-> 0], [min |-> 2, max |-> 2, volume |-> 0],
            [min |-> 3, max |-> 10, volume |-> 1]}
NoQuery == [min |-> 0, max |-> 0, volume |-> 0]
Nothing == [query |-> NoQuery, rings |-> {}, finder |-> "none"]
Raised == [query |-> NoQuery, rings |-> {}, finder |-> "raised"]
Inf == 1 + MaxTrades * Max(Amounts)     \* float("inf")

VARIABLES
    limits,     \* the settings of this process
    kind,       \* "graph", or "sharded" once it has become a ShardedTradeGraph
    graph,      \* _edge_data: [volume, count] of each pair
    known,      \* accounts in the node index
    added,      \* trades offered
    cache,      \* _rings_cache
    answer      \* the last answer: [query, rings, finder], until a trade is added

ringVars == <<limits, kind, graph, known, added, cache, answer>>

Pairs == RingNodes \X RingNodes

RingTypeOK ==
    /\ limits \in Limits /\ kind \in {"graph", "sharded"}
    /\ graph \in [Pairs -> [volume : 0 .. Inf, count : 0 .. MaxTrades]]
    /\ known \subseteq RingNodes /\ added \in 0 .. MaxTrades
    /\ {answer.query, cache.query} \subseteq Queries \cup {NoQuery}

RingInit ==
        /\ limits \in Limits /\ kind = "graph"
        /\ graph = [e \in Pairs |-> [volume |-> 0, count |-> 0]]
        /\ known = {} /\ added = 0 /\ cache = Nothing /\ answer = Nothing

----------------------------------------------------------------------------
RingEdges(S) == {e \in S \X S : graph[e].count > 0}
Vol(a, b) == graph[<<a, b>>].volume

(* The CSR matrix, used from the threshold on, keeps no entry for an edge    *)
(* whose volume is zero.                                                     *)
Sparse == Cardinality(known) >= limits.mmap
Adjacent == {e \in RingEdges(known) : Sparse => graph[e].volume > 0}

Components(S, E) ==
    LET reach == ConnectionsIn([node |-> S, edge |-> E])
    IN  {{w \in S : reach[v, w] /\ reach[w, v]} : v \in S}

\* The components of the nodes that have an edge.
Found(E) == Components({e[1] : e \in E} \cup {e[2] : e \in E}, E)

\* _scc_edge_metrics and _component_total_volume.
TotalVolume(S) == MapThenSumSet(LAMBDA e : graph[e].volume, RingEdges(S))

(* _max_bottleneck_cycle.  Best(root, S)[T, v]: the best bottleneck of a     *)
(* simple path from root over exactly the nodes T to v, 0 where there is none. *)
Best(root, S) ==
    LET dp[T \in SUBSET S, v \in S] ==
            IF T = {root} THEN (IF v = root THEN Inf ELSE 0)
            ELSE IF v \notin T \/ v = root \/ root \notin T THEN 0
            ELSE Max({0} \cup {Min({dp[T \ {v}, u], Vol(u, v)}) :
                                  u \in {u \in T \ {v} : <<u, v>> \in RingEdges(S)}})
    IN  dp

\* Only the nodes from root on take part: root is the cycle's least node.
MaxBottleneckCycle(S, min) ==
    Max({0} \cup UNION {LET span == {v \in S : v >= root} IN
        {Min({Best(root, span)[T, v], Vol(v, root)}) :
            <<T, v>> \in {p \in (SUBSET span) \X (span \ {root}) :
                Cardinality(p[1]) >= min /\ root \in p[1] /\ <<p[2], root>> \in RingEdges(S)}} : root \in S})

(* _approx_max_bottleneck_cycle: the largest weight at which a component of  *)
(* min nodes is left.  The binary search assumes that this is monotone.      *)
HasScc(S, min, t) ==
    \E C \in Found({e \in RingEdges(S) : e[1] # e[2] /\ graph[e].volume >= t}) : Cardinality(C) >= min
Weights(S) == {graph[e].volume : e \in {e \in RingEdges(S) : e[1] # e[2]}}
ApproxCycle(S, min) == Max({0} \cup {t \in Weights(S) : HasScc(S, min, t)})

CycleVolume(S, min) ==
    IF Cardinality(S) < 2 \/ Cardinality(S) < min THEN 0
    ELSE IF Cardinality(S) > MaxExactNodes THEN ApproxCycle(S, min)
    ELSE MaxBottleneckCycle(S, min)

(* find_wash_rings: one ring per component that is large enough; of a        *)
(* component over the maximum, half the volume stands for the cycle's.       *)
(* cycle is twice the cycle volume.                                          *)
Ring(S, q) ==
    [accounts |-> S, total |-> TotalVolume(S), truncated |-> Cardinality(S) > q.max,
     cycle |-> IF Cardinality(S) > q.max THEN TotalVolume(S) ELSE 2 * CycleVolume(S, q.min)]
Rings(q) ==
    {r \in {Ring(C, q) : C \in {C \in Found(Adjacent) : Cardinality(C) >= q.min}} :
        r.cycle >= 2 * q.volume}

----------------------------------------------------------------------------

\* Mutant: the cached rings stay.
AfterTrade_Keep(c) == c

\* _rings_cache = None after each trade.
AfterTrade(c) == Nothing

(* TradeGraph.add_trade.  Over MAX_GRAPH_NODES the graph becomes a sharded   *)
(* one, its index and its edges kept; with sharding disabled it raises, and  *)
(* the index keeps the accounts.                                             *)
AddTrade(b, c, amount) ==
    /\ added < MaxTrades /\ added' = added + 1
    /\ known' = known \cup {b, c}
    /\ LET over == kind = "graph" /\ Cardinality(known') > limits.nodes
       IN  \/ over /\ ~limits.shard /\ UNCHANGED <<kind, graph, cache>>
          \/ /\ over => limits.shard
             /\ kind' = IF over THEN "sharded" ELSE kind
             /\ graph' = [graph EXCEPT ![<<b, c>>] = [volume |-> @.volume + amount, count |-> @.count + 1]]
             /\ cache' = AfterTrade(cache)
    /\ answer' = Nothing /\ UNCHANGED limits

(* TradeGraph.find_wash_rings: the cache answers the same parameters only.   *)
(* After a refused trade the node index is over the limit for good, and      *)
(* _load_edge_data refuses to build the matrix.  What a sharded graph finds  *)
(* is the next component's subject.                                          *)
RingFindWashRings(q) ==
    /\ kind = "graph"
    /\ IF cache.query = q THEN answer' = cache /\ UNCHANGED cache
       ELSE IF Sparse /\ Cardinality(known) > limits.nodes
       THEN answer' = Raised /\ UNCHANGED cache
       ELSE /\ cache' = [query |-> q, rings |-> Rings(q), finder |-> "graph"]
            /\ answer' = cache'
    /\ UNCHANGED <<limits, kind, graph, known, added>>

(* The function find_wash_rings works the same way, on a random-walk sample  *)
(* when the graph is large; then it stores the result under cache_key, a     *)
(* name it never defines, and raises NameError.                              *)
FunctionFindWashRings ==
    /\ answer' = Raised
    /\ UNCHANGED <<limits, kind, graph, known, added, cache>>

RingNext ==
        \/ \E e \in TradePairs, amount \in Amounts : AddTrade(e[1], e[2], amount)
        \/ \E q \in Queries : RingFindWashRings(q)
        \/ FunctionFindWashRings

RingSpec == RingInit /\ [][RingNext]_ringVars

----------------------------------------------------------------------------
\* The simple cycles through the nodes of S, as sequences of distinct nodes.
Cycles(S, min) ==
    UNION {{c \in [1 .. n -> S] : /\ Cardinality({c[i] : i \in 1 .. n}) = n
                                  /\ \A i \in 1 .. n : <<c[i], c[(i % n) + 1]>> \in RingEdges(S)} :
              n \in (IF min < 2 THEN 2 ELSE min) .. Cardinality(S)}
Bottleneck(c) ==
    LET n == Cardinality(DOMAIN c) IN Min({Vol(c[i], c[(i % n) + 1]) : i \in 1 .. n})

\* The cached answer is the one the graph gives now, while it gives any.
CacheIsFresh ==
    cache # Nothing /\ (Sparse => Cardinality(known) <= limits.nodes) => cache.rings = Rings(cache.query)

\* The DP finds the widest cycle; the approximation is never below it.
CycleVolumeIsExact ==
    \A C \in Found(RingEdges(known)), min \in {2, 3} :
        LET widest == Max({0} \cup {Bottleneck(c) : c \in Cycles(C, min)})
            left == {t \in Weights(C) : HasScc(C, min, t)}
        IN  /\ MaxBottleneckCycle(C, min) = widest
            /\ ApproxCycle(C, min) >= widest
            /\ \A t \in Weights(C), u \in left : t <= u => t \in left

\* A ring of a sample lies inside one of the whole graph.
SampledRingsAreInside ==
    \A S \in SUBSET known : \A C \in Components(S, RingEdges(S)) :
        \E D \in Components(known, RingEdges(known)) : C \subseteq D

(* The rings a caller gets, cached or not, are those of the graph as it is,  *)
(* and each carries the bottleneck of its widest cycle.  Each graph is       *)
(* reached before it is asked for an answer.                                 *)
RingsAreTrue ==
    CacheIsFresh /\ (answer = Nothing => CycleVolumeIsExact /\ SampledRingsAreInside)

-----------------------------------------------------------------------------
(* detection/graph_sharding.py and ShardedTradeGraph of graph_engine.py: the *)
(* accounts are partitioned into shards, each shard gets its edges and those *)
(* of the boundary, workers find the rings of a shard or fail, a failed      *)
(* shard's edges move to the least loaded survivor, the rings are merged.    *)
(* A rebalance only plans another assignment; nothing here carries it out.   *)

CONSTANTS ShardPossibleEdges,    \* the edges a graph is chosen from
          LateEdges,        \* bound: those that are added to a graph later on
          GraphCounts,      \* shard_count of a graph
          ShardCounts,      \* shard_count of a rebalance, those of the graphs too
          OverlapHops,      \* overlap_hops: 0 or 1
          MinRing,          \* min_ring_size
          WorkerLimits,     \* nodes from which _load_edge_data refuses a worker:
                            \* over MAX_GRAPH_NODES, and at GRAPH_MMAP_THRESHOLD
          MaxCommunities    \* bound: communities Louvain finds

VARIABLES
    shards,     \* _shard_count
    workerLimit,    \* of this process's settings
    edges,      \* the keys of _edge_data
    owner,      \* node_to_shard of _shard_assignment
    count,      \* its shard_count
    failed,     \* _failed_shards
    shardRings, \* the last answer, as sets of accounts; _rings_cache unless stale
    stale,      \* _rings_cache is None
    plan        \* the RebalancePlan made of the assignment, if one was

shardVars == <<shards, workerLimit, edges, owner, count, failed, shardRings, stale, plan>>

ShardNodes(E) == {e[1] : e \in E} \cup {e[2] : e \in E}
Shards == 0 .. Max(ShardCounts) - 1
NoOwner == [n \in {} |-> 0]
NoPlan == [owner |-> NoOwner, count |-> 0, moves |-> {}, dropped |-> {}, conflicts |-> {}]

ShardTypeOK ==
    /\ shards \in GraphCounts /\ edges \subseteq ShardPossibleEdges
    /\ \A n \in DOMAIN owner : owner[n] \in Shards
    /\ count \in 0 .. Max(ShardCounts) /\ failed \subseteq Shards
    /\ stale \in BOOLEAN

ShardInit ==
         /\ shards \in GraphCounts /\ workerLimit \in WorkerLimits
         /\ edges \in SUBSET ShardPossibleEdges
         /\ owner = NoOwner /\ count = 0 /\ failed = {}
         /\ shardRings = {} /\ stale = TRUE /\ plan = NoPlan

\* add_trade of a pair that had no edge yet.
AddEdge(e) ==
    /\ e \notin edges /\ edges' = edges \cup {e} /\ stale' = TRUE /\ plan' = NoPlan
    /\ UNCHANGED <<shards, workerLimit, owner, count, failed, shardRings>>

----------------------------------------------------------------------------
Ordered(S) == SetToSortSeq(S, <)
TakeN(s, n) == SubSeq(s, 1, IF n < Len(s) THEN n ELSE Len(s))

\* _merge_small_communities: small ones are joined up to the target size.
MergeSmall(comms, target) ==
    LET small == SelectSeq(comms, LAMBDA c : Cardinality(c) < target)
        large == SelectSeq(comms, LAMBDA c : Cardinality(c) >= target)
        join(acc, c) ==
            IF acc.current = {} THEN [acc EXCEPT !.current = c]
            ELSE IF Cardinality(acc.current) + Cardinality(c) <= target
            THEN [acc EXCEPT !.current = @ \cup c]
            ELSE [merged |-> Append(acc.merged, acc.current), current |-> c]
        end == FoldLeft(join, [merged |-> large, current |-> {}], small)
    IN  IF end.current = {} THEN end.merged ELSE Append(end.merged, end.current)

\* _split_large_communities: pieces of the target size are cut off.
SplitLarge(comms, target, limit) ==
    LET cut(result, c) ==
            LET n == Cardinality(c)
                k == Min({j \in 0 .. n : ~(2 * (n - j * target) > 3 * target
                                            /\ Len(result) + j < limit - 1)})
                piece(j) == ToSet(SubSeq(Ordered(c), j * target + 1, (j + 1) * target))
            IN  result \o [j \in 1 .. k |-> piece(j - 1)]
                       \o <<ToSet(SubSeq(Ordered(c), k * target + 1, n))>>
    IN  FoldLeft(cut, <<>>, comms)

\* result.sort(key=len, reverse=True) is stable.
BySize(s) ==
    LET Before(i, j) == \/ Cardinality(s[i]) > Cardinality(s[j])
                        \/ Cardinality(s[i]) = Cardinality(s[j]) /\ i < j
        order == SetToSortSeq(1 .. Len(s), Before)
    IN  [i \in 1 .. Len(s) |-> s[order[i]]]

\* The smallest surplus pieces go to the smallest of the first ones.
Surplus(s, limit) ==
    LET smallest(r) == Min({i \in 1 .. Len(r) : \A j \in 1 .. Len(r) : Cardinality(r[i]) <= Cardinality(r[j])})
        into(r, c) == [r EXCEPT ![smallest(r)] = @ \cup c]
    IN  IF Len(s) <= limit THEN s
        ELSE FoldLeft(into, TakeN(s, limit), Reverse(SubSeq(s, limit + 1, Len(s))))

Balance(comms, n, limit) ==
    LET target == IF n \div limit < 1 THEN 1 ELSE n \div limit
    IN  Surplus(BySize(SplitLarge(MergeSmall(comms, target), target, limit)), limit)

(* Louvain's communities: any partition, in any order; so are the chunks     *)
(* taken when it fails.  The members of a set come in any order too; that    *)
(* they are taken in ascending order is a choice of their names.             *)
Communities(S) ==
    UNION {{c \in [1 .. k -> SUBSET S \ {{}}] :
               /\ \A i, j \in 1 .. k : i # j => c[i] \cap c[j] = {}
               /\ UNION {c[i] : i \in 1 .. k} = S} : k \in 0 .. MaxCommunities}

\* partition: with fewer nodes than shards there are as many shards as nodes.
ShardCount(S, n) == IF S # {} /\ Cardinality(S) < n THEN Cardinality(S) ELSE n
Partition(S, comms, n) ==
    LET balanced == Balance(comms, Cardinality(S), ShardCount(S, n))
    IN  IF S = {} THEN NoOwner
        ELSE [v \in UNION ToSet(balanced) |->
                 (CHOOSE i \in 1 .. Len(balanced) : v \in balanced[i]) - 1]

\* The assignments partition may return.
Partitions(S, n) == {Partition(S, comms, n) : comms \in Communities(S)}

(* rebalance: the new shards take the number of the old one they share most  *)
(* nodes with, largest overlap first, the others a free number.              *)
Overlap(new, pair) ==
    Cardinality({v \in DOMAIN new \cap DOMAIN owner : new[v] = pair[1] /\ owner[v] = pair[2]})
Relabel(new, n) ==
    LET pairs == {p \in (0 .. n - 1) \X (0 .. n - 1) : Overlap(new, p) > 0}
        First(p, q) == \/ Overlap(new, p) > Overlap(new, q)
                       \/ Overlap(new, p) = Overlap(new, q) /\ (p[1] < q[1] \/ (p[1] = q[1] /\ p[2] < q[2]))
        take(acc, p) == IF \E q \in acc : q[1] = p[1] \/ q[2] = p[2] THEN acc ELSE acc \cup {p}
        matched == FoldLeft(take, {}, SetToSortSeq(pairs, First))
        left == Ordered({i \in 0 .. n - 1 : \A q \in matched : q[1] # i})
        free == Ordered({i \in 0 .. n - 1 : \A q \in matched : q[2] # i})
        all == matched \cup {<<left[k], free[k]>> : k \in 1 .. Len(left)}
    IN  [i \in 0 .. n - 1 |-> (CHOOSE p \in all : p[1] = i)[2]]

(* A plan from the graph's assignment to n shards, for the edges E the       *)
(* caller has; inFlight are the accounts an earlier plan is still moving.    *)
(* Bound: plans are made once the graph has all the edges it may have.       *)
Rebalance(n, E, inFlight) ==
    /\ plan = NoPlan /\ owner # NoOwner /\ edges = ShardPossibleEdges
    /\ LET k == ShardCount(ShardNodes(E), n)
       IN  \E new \in Partitions(ShardNodes(E), n) : \E label \in {Relabel(new, k)} :
             LET next == [v \in DOMAIN new |-> label[new[v]]]
                 moves == {v \in DOMAIN next \cap DOMAIN owner : next[v] # owner[v]}
             IN  plan' = [owner |-> next, count |-> k, moves |-> moves,
                          dropped |-> DOMAIN owner \ DOMAIN next,
                          conflicts |-> moves \cap inFlight]
    /\ UNCHANGED <<shards, workerLimit, edges, owner, count, failed, shardRings, stale>>

----------------------------------------------------------------------------
Linked(v) == {u \in ShardNodes(edges) : <<v, u>> \in edges \/ <<u, v>> \in edges}

\* _find_boundary_nodes with one hop: the shards of the neighbours.
Boundary(own, v) == IF OverlapHops = 0 THEN {} ELSE {own[u] : u \in Linked(v)} \ {own[v]}

\* The edges a shard's worker gets.
ShardEdges(own, s) ==
    {e \in edges : s \in {own[e[1]], own[e[2]]} \cup Boundary(own, e[1]) \cup Boundary(own, e[2])}

\* _run_shard_find_rings: the components that are large enough.
RingsOf(E) ==
    LET reach == ConnectionsIn([node |-> ShardNodes(E), edge |-> E])
        comp(v) == {w \in ShardNodes(E) : reach[v, w] /\ reach[w, v]}
    IN  {C \in {comp(v) : v \in ShardNodes(E)} : Cardinality(C) >= MinRing}

(* The merge takes the rings in turn: the first one it meets that contains   *)
(* or is contained in the new ring keeps the larger of the two.              *)
Merged(found) ==
    LET add(acc, r) ==
            LET hits == {i \in 1 .. Len(acc) : r \subseteq acc[i] \/ acc[i] \subseteq r}
            IN  IF hits = {} THEN Append(acc, r) ELSE [acc EXCEPT ![Min(hits)] = @ \cup r]
    IN  ToSet(FoldLeft(add, <<>>, found))

(* _rebalance_failed_shards: a failed shard's nodes and edges go, one shard  *)
(* after the other, to the survivor with the fewest edges, which is run      *)
(* again.                                                                    *)
Rebalanced(own, n, lost) ==
    LET alive == (0 .. n - 1) \ lost
        least(data) == CHOOSE s \in alive : \A t \in alive :
            Cardinality(data[s]) < Cardinality(data[t]) \/ (Cardinality(data[s]) = Cardinality(data[t]) /\ s <= t)
        move(acc, f) ==
            LET to == least(acc.data)
            IN  [data |-> [acc.data EXCEPT ![to] = @ \cup acc.data[f], ![f] = {}],
                 owner |-> [v \in DOMAIN acc.owner |-> IF acc.owner[v] = f THEN to ELSE acc.owner[v]]]
    IN  FoldLeft(move, [data |-> [s \in 0 .. n - 1 |-> ShardEdges(own, s)], owner |-> own], Ordered(lost))

(* ShardedTradeGraph.find_wash_rings, not from the cache.  lost are the      *)
(* shards whose worker fails; each worker's graph has the whole node index,  *)
(* so that above the limits all of them do.  A worker's rings come by        *)
(* volume, so any order of the rings may be the one they are merged in.      *)
ShardFindWashRings ==
    /\ stale
    /\ LET n == ShardCount(ShardNodes(edges), shards)
       IN  \E own \in Partitions(ShardNodes(edges), shards), lost \in SUBSET (0 .. n - 1) :
             /\ Cardinality(ShardNodes(edges)) >= workerLimit => lost = 0 .. n - 1
             /\ count' = n /\ failed' = lost
             /\ IF lost = 0 .. n - 1            \* ShardFailureError
                THEN owner' = own /\ UNCHANGED <<shardRings, stale>>
                ELSE \E after \in {Rebalanced(own, n, lost)} :
                       /\ owner' = after.owner /\ stale' = FALSE
                       /\ \E rings \in {[s \in 0 .. n - 1 |-> RingsOf(after.data[s])]} :
                          \E order \in SetToSeqs(UNION Range(rings)) :
                            LET of(found, s) == found \o SelectSeq(order, LAMBDA r : r \in rings[s])
                            IN  shardRings' = Merged(FoldLeft(of, <<>>, Ordered((0 .. n - 1) \ lost)))
    /\ plan' = NoPlan /\ UNCHANGED <<shards, workerLimit, edges>>

ShardNext ==
         \/ \E e \in LateEdges : AddEdge(e)
         \/ ShardFindWashRings
         \/ \E n \in ShardCounts, gone \in {{}} \cup {{e} : e \in edges},
              inFlight \in {{}} \cup {{v} : v \in DOMAIN owner} : Rebalance(n, edges \ gone, inFlight)

ShardSpec == ShardInit /\ [][ShardNext]_shardVars

----------------------------------------------------------------------------
\* Each account has one shard, and no shard number is beyond the count.
SingleOwner ==
    /\ ~stale => DOMAIN owner = ShardNodes(edges)
    /\ \A v \in DOMAIN owner : owner[v] < count
    /\ ~stale => \A v \in DOMAIN owner : owner[v] \notin failed

\* A rebalance keeps a community that did not change where it is.
UnchangedStay ==
    \A v \in DOMAIN plan.owner \cap DOMAIN owner :
        LET old == {m \in DOMAIN owner : owner[m] = owner[v]}
            new == {m \in DOMAIN plan.owner : plan.owner[m] = plan.owner[v]}
        IN  old = new /\ owner[v] < plan.count => v \notin plan.moves

\* The cycles of up to four accounts.
ShortCycles ==
    LET S == ShardNodes(edges)
    IN  UNION {{{c[i] : i \in 1 .. n} : c \in {c \in [1 .. n -> S] :
                    /\ Cardinality({c[i] : i \in 1 .. n}) = n
                    /\ \A i \in 1 .. n : <<c[i], c[(i % n) + 1]>> \in edges}} : n \in MinRing .. 4}

\* A cycle of up to four accounts is found however the shards cut it, and
\* however many of the workers failed.
ShortCyclesFound ==
    ~stale /\ OverlapHops > 0 => \A c \in ShortCycles : \E r \in shardRings : c \subseteq r

\* No ring is made up: each lies in a component of the whole graph.
RingsAreReal == ~stale => \A r \in shardRings : \E q \in RingsOf(edges) : r \subseteq q

(* Sharding loses no account and no short ring, invents none, and a          *)
(* rebalance moves only what has to move, whichever workers fail.            *)
ShardingLosesNothing == SingleOwner /\ UnchangedStay /\ ShortCyclesFound /\ RingsAreReal

-----------------------------------------------------------------------------
(***************************************************************************)
(* detection/path_cycle_detector.py: closed routes of path payments.  The  *)
(* graph has one edge per ordered pair of accounts with the payments it    *)
(* carried; networkx enumerates the simple cycles of one component after   *)
(* the other, in orders of its own, up to a budget of cycles and of        *)
(* seconds; for each cycle a heap sweep picks one payment per edge so that *)
(* the picks span as little time as possible.                              *)
(***************************************************************************)

CONSTANTS Accounts,         \* integers
          TimedPossibleEdges,    \* edges that may carry payments
          Payments,         \* lists of hops an edge may have: [t, xlm], t = 0 for no timestamp
          RootAccounts,     \* root_accounts
          MaxLength,        \* max_cycle_length
          MaxComponent,     \* max_component_size
          Window,           \* max_time_window
          MinXlm,           \* min_cycle_xlm
          MaxCycles,        \* max_cycles, the enumeration budget
          TimeLimited       \* max_cycle_search_seconds is not None

VARIABLES
    hops,       \* [TimedPossibleEdges -> list of payments], <<>> for no edge
    timedPhase,      \* "next", "sweep", "judge", "done"
    todo,       \* simple cycles not enumerated yet
    cycle,      \* the one under examination
    timed,      \* its edges with a timestamp, as sorted lists
    pointers, curMax, best,     \* the sweep; best = [range, choice]
    enumerated, seen, timedFound, exhausted

timedVars == <<hops, timedPhase, todo, cycle, timed, pointers, curMax, best,
               enumerated, seen, timedFound, exhausted>>

Infinite == 1000
-----------------------------------------------------------------------------
EdgeSet(h) == {e \in TimedPossibleEdges : h[e] # <<>>}

\* nx.simple_cycles: each once, from its least account; a self-loop is one.
SimpleCycles(h) ==
    {c \in UNION {[1 .. n -> Accounts] : n \in 1 .. MaxLength} :
        /\ \A i, j \in DOMAIN c : i # j => c[i] # c[j]
        /\ \A i \in DOMAIN c : c[1] <= c[i]
        /\ \A i \in DOMAIN c : <<c[i], c[(i % Len(c)) + 1]>> \in EdgeSet(h)}

\* The strongly connected component of an account.
Component(h, a) ==
    LET path == ConnectionsIn([node |-> Accounts, edge |-> EdgeSet(h)])
    IN {b \in Accounts : path[a, b] /\ path[b, a]}

\* The components searched are neither single accounts nor too large.
Searched(h) ==
    {c \in SimpleCycles(h) : /\ Cardinality(Component(h, c[1])) \in 2 .. MaxComponent
                             /\ Component(h, c[1]) \cap RootAccounts # {}}

TimedInit ==
         /\ hops \in [TimedPossibleEdges -> Payments]
         /\ timedPhase = "next" /\ todo = Searched(hops)
         /\ cycle = <<>> /\ timed = <<>> /\ pointers = <<>> /\ curMax = 0
         /\ best = [range |-> Infinite, choice |-> <<>>]
         /\ enumerated = 0 /\ seen = {} /\ timedFound = {} /\ exhausted = FALSE

SeqMax(s) == CHOOSE x \in {s[i] : i \in DOMAIN s} : \A i \in DOMAIN s : s[i] <= x

\* The payments of edge i of a cycle that have a timestamp, sorted by it.
EdgeOf(c, i) == <<c[i], c[(i % Len(c)) + 1]>>
Stamped(c, i) ==
    LET s == SelectSeq(hops[EdgeOf(c, i)], LAMBDA p : p.t # 0)
        Rank(k) == 1 + Cardinality({j \in DOMAIN s : \/ s[j].t < s[k].t
                                                     \/ s[j].t = s[k].t /\ j < k})
    IN [r \in DOMAIN s |-> s[CHOOSE k \in DOMAIN s : Rank(k) = r]]

TimedEdges(c) == SelectSeq([i \in DOMAIN c |-> Stamped(c, i)], LAMBDA s : s # <<>>)
UntimedPicks(c) ==
    {hops[EdgeOf(c, i)][1] : i \in {j \in DOMAIN c : Stamped(c, j) = <<>>}}

\* The cycles left of the component being searched, or of all before it.
Current ==
    LET same == {c \in todo : cycle # <<>> /\ Component(hops, c[1]) = Component(hops, cycle[1])}
    IN  IF same = {} THEN todo ELSE same

(* The next cycle, unless the budget is spent.  A self-loop and a cycle that *)
(* touches no root count too, and are passed over.                           *)
Enumerate(c) ==
    /\ timedPhase = "next" /\ c \in Current /\ enumerated < MaxCycles
    /\ enumerated' = enumerated + 1 /\ todo' = todo \ {c} /\ cycle' = c
    /\ IF Len(c) < 2 \/ {c[i] : i \in DOMAIN c} \cap RootAccounts = {}
       THEN UNCHANGED <<timedPhase, timed, pointers, curMax, best>>
       ELSE /\ timed' = TimedEdges(c)
            /\ pointers' = [i \in DOMAIN timed' |-> 1]
            /\ curMax' = (IF timed' = <<>> THEN 0
                          ELSE SeqMax([i \in DOMAIN timed' |-> timed'[i][1].t]))
            /\ best' = [range |-> Infinite, choice |-> pointers']
            /\ timedPhase' = (IF timed' = <<>> THEN "judge" ELSE "sweep")
    /\ UNCHANGED <<hops, seen, timedFound, exhausted>>

\* The budget of cycles is spent, or the clock has run past its own.
OutOfBudget ==
    /\ timedPhase = "next" /\ todo # {} /\ (enumerated >= MaxCycles \/ TimeLimited)
    /\ exhausted' = TRUE /\ timedPhase' = "done"
    /\ UNCHANGED <<hops, todo, cycle, timed, pointers, curMax, best, enumerated, seen, timedFound>>

Time(i) == timed[i][pointers[i]].t

\* The heap's least entry, (timestamp, list).
Least == CHOOSE i \in DOMAIN timed :
            \A j \in DOMAIN timed : Time(i) < Time(j) \/ (Time(i) = Time(j) /\ i <= j)

\* current_max = max(current_max, ts_next)
Later(t) == IF t > curMax THEN t ELSE curMax

\* One round of the loop of _select_timed_cycle_edges.
Sweep ==
    LET li == Least
        range == curMax - Time(li)
    IN /\ timedPhase = "sweep"
       /\ best' = IF range < best.range THEN [range |-> range, choice |-> pointers] ELSE best
       /\ IF pointers[li] = Len(timed[li])
          THEN timedPhase' = "judge" /\ UNCHANGED <<pointers, curMax>>
          ELSE /\ pointers' = [pointers EXCEPT ![li] = @ + 1]
               /\ curMax' = Later(timed[li][pointers[li] + 1].t) /\ UNCHANGED timedPhase
       /\ UNCHANGED <<hops, todo, cycle, timed, enumerated, seen, timedFound, exhausted>>

Selected == {timed[i][best.choice[i]] : i \in DOMAIN timed} \cup UntimedPicks(cycle)
Value(S) == CHOOSE x \in {p.xlm : p \in S} : \A p \in S : x <= p.xlm
Signature(c) == <<{c[i] : i \in DOMAIN c}, Len(c)>>
TooWide == timed # <<>> /\ best.range > Window

\* The window, the value and the signature decide.
Judge ==
    /\ timedPhase = "judge" /\ timedPhase' = "next"
    /\ IF TooWide \/ Value(Selected) < MinXlm \/ Signature(cycle) \in seen
       THEN UNCHANGED <<seen, timedFound>>
       ELSE /\ seen' = seen \cup {Signature(cycle)}
            /\ timedFound' = timedFound \cup {[accounts |-> cycle, value |-> Value(Selected),
                                               span |-> IF timed = <<>> THEN 0 ELSE best.range]}
    /\ UNCHANGED <<hops, todo, cycle, timed, pointers, curMax, best, enumerated, exhausted>>

(* No cycle is left.  A further component, whatever it holds, is not looked  *)
(* at when the budget is spent, and the search then counts as cut short.     *)
TimedFinish ==
    /\ timedPhase = "next" /\ todo = {} /\ timedPhase' = "done"
    /\ LET components == {Component(hops, e[i]) : e \in EdgeSet(hops), i \in 1 .. 2}
           spent == enumerated >= MaxCycles \/ TimeLimited
       IN  exhausted' \in (IF spent /\ Cardinality(components) > 1 THEN BOOLEAN ELSE {FALSE})
    /\ UNCHANGED <<hops, todo, cycle, timed, pointers, curMax, best, enumerated, seen, timedFound>>
TimedDone == timedPhase = "done" /\ UNCHANGED timedVars

TimedNext == \/ \E c \in todo : Enumerate(c)
             \/ OutOfBudget \/ Sweep \/ Judge \/ TimedFinish \/ TimedDone

TimedSpec == TimedInit /\ [][TimedNext]_timedVars
-----------------------------------------------------------------------------
\* Every way to pick one timestamped payment per edge that has any.
Picks(c) == LET t == TimedEdges(c)
              IN {f \in [DOMAIN t -> 1 .. 3] : \A i \in DOMAIN t : f[i] <= Len(t[i])}
Span(c, f) == LET t == TimedEdges(c)
                  S == {t[i][f[i]].t : i \in DOMAIN t}
              IN IF S = {} THEN 0
                 ELSE (CHOOSE x \in S : \A y \in S : x >= y) - (CHOOSE x \in S : \A y \in S : x <= y)
Tightest(c) == {f \in Picks(c) : \A g \in Picks(c) : Span(c, f) <= Span(c, g)}
Picked(c, f) == {TimedEdges(c)[i][f[i]] : i \in DOMAIN f} \cup UntimedPicks(c)

(* The sweep stops with the least span any choice of payments has; what is *)
(* reported is a cycle through a root within the window and worth the      *)
(* minimum, one per set of accounts; and a search that was not cut short   *)
(* reports the accounts of every cycle whose tightest choices all qualify. *)
CyclesAreTight ==
    /\ timedPhase = "judge" /\ timed # <<>> =>
         \E f \in Tightest(cycle) : Span(cycle, f) = best.range
    /\ \A r \in timedFound :
         /\ r.accounts \in Searched(hops) /\ Signature(r.accounts)[1] \cap RootAccounts # {}
         /\ \E f \in Tightest(r.accounts) : /\ r.span = Span(r.accounts, f) /\ r.span <= Window
                                            /\ r.value = Value(Picked(r.accounts, f))
         /\ r.value >= MinXlm
    /\ \A r, q \in timedFound : Signature(r.accounts) = Signature(q.accounts) => r = q
    /\ (timedPhase = "done" /\ ~exhausted) =>
         \A c \in Searched(hops) :
            (/\ Len(c) > 1 /\ Signature(c)[1] \cap RootAccounts # {}
             /\ \A f \in Tightest(c) : Span(c, f) <= Window /\ Value(Picked(c, f)) >= MinXlm)
              => \E r \in timedFound : Signature(r.accounts) = Signature(c)

=============================================================================
