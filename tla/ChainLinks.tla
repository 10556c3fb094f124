----------------------------- MODULE ChainLinks -----------------------------
(*****************************************************************************)
(* What other chains report: reorganised blocks, signed Wormhole messages    *)
(* and links between wallets of two chains.                                  *)
(*****************************************************************************)
EXTENDS Integers, Sequences, FiniteSets

-----------------------------------------------------------------------------
(***************************************************************************)
(* BridgeTransferLoader with FinalityTracker (ingestion/bridge_loader.py,  *)
(* ingestion/evm_finality.py) and the bridge_transfers table: transfers    *)
(* are read from blocks that are confirmation_depth below the head, and    *)
(* deleted again when a later pass finds that their block was orphaned.    *)
(* Every RPC and every database call may fail and end the pass; the chain  *)
(* goes on between any two of them; the tracker is memory.                 *)
(*                                                                         *)
(* A block has one of two hashes; what the new branch holds is the old     *)
(* branch shifted by one, so that a transaction is mined again elsewhere.  *)
(***************************************************************************)

CONSTANTS MaxBlock,         \* bound: height of the chain
          Depth,            \* confirmation_depth
          ReorgCheck,       \* reorg_check_blocks
          BridgeLookback,         \* evm_lookback_blocks
          MaxReorgs, MaxFaults  \* bounds: reorganisations, failures and restarts

ASSUME BridgeAssumption ==
    MaxBlock \in Nat /\ Depth \in Nat /\ ReorgCheck \in Nat /\ MaxReorgs \in Nat /\ MaxFaults \in Nat

Blocks == 1 .. MaxBlock
Branches == {"a", "b"}

\* A row of bridge_transfers, as the log it was read from.
BridgeRow(n, h) == [n |-> n, hash |-> h, tx |-> IF h = "a" THEN n ELSE n + 1]

VARIABLES
    head, bridgeChain,    \* the canonical chain: its height and the branch of each block
    tracked,        \* FinalityTracker._blocks, as the rows it has recorded
    stored,         \* rows in bridge_transfers (a row saved twice counts once)
    pass,           \* load_transfers: [at, latest, batch]
    moved,          \* history: the chain changed since this pass compared hashes
    forgotten,      \* history: rows that left the tracker without being deleted
    reorgs, faults

bridgeVars == <<head, bridgeChain, tracked, stored, pass, moved, forgotten, reorgs, faults>>

Idle == [at |-> "idle", latest |-> 0, batch |-> {}]
AllRows == {BridgeRow(n, h) : n \in Blocks, h \in Branches}

BridgeTypeOK ==
    /\ head \in 0 .. MaxBlock /\ bridgeChain \in [Blocks -> Branches]
    /\ tracked \subseteq AllRows /\ stored \subseteq AllRows /\ forgotten \subseteq AllRows
    /\ pass \in [at : {"idle", "check", "retract", "logs", "record", "save"},
                 latest : 0 .. MaxBlock, batch : SUBSET AllRows]
    /\ moved \in BOOLEAN /\ reorgs \in 0 .. MaxReorgs /\ faults \in 0 .. MaxFaults

BridgeInit ==
          /\ head = 0 /\ bridgeChain = [n \in Blocks |-> "a"] /\ tracked = {} /\ stored = {}
          /\ pass = Idle /\ moved = FALSE /\ forgotten = {} /\ reorgs = 0 /\ faults = 0
-----------------------------------------------------------------------------
\* The chain: a block is added, or the blocks from n on are replaced.
Mine ==
    /\ head < MaxBlock /\ head' = head + 1
    /\ UNCHANGED <<bridgeChain, tracked, stored, pass, moved, forgotten, reorgs, faults>>

Reorg(n) ==
    /\ n \in 1 .. head /\ reorgs < MaxReorgs /\ reorgs' = reorgs + 1
    /\ bridgeChain' = [m \in Blocks |-> IF m < n THEN bridgeChain[m]
                                  ELSE IF bridgeChain[m] = "a" THEN "b" ELSE "a"]
    /\ moved' = TRUE
    /\ UNCHANGED <<head, tracked, stored, pass, forgotten, faults>>
-----------------------------------------------------------------------------
\* The rows the chain now has in some blocks.
RowsOf(S) == {BridgeRow(n, bridgeChain[n]) : n \in S}

FinalizedHead(latest) == IF latest > Depth THEN latest - Depth ELSE 0

GetLatestBlock ==
    /\ pass = Idle /\ pass' = [Idle EXCEPT !.at = "check", !.latest = head]
    /\ moved' = FALSE
    /\ UNCHANGED <<head, bridgeChain, tracked, stored, forgotten, reorgs, faults>>

\* Blocks below this one are dropped from the tracker without a look.
Oldest(latest) == FinalizedHead(latest) - ReorgCheck

\* check_reorgs: forget the old blocks, then take out the orphaned ones.
CheckReorgs ==
    LET kept == {r \in tracked : r.n >= Oldest(pass.latest)}
        orphaned == {r \in kept : r.n <= head /\ bridgeChain[r.n] # r.hash} IN
    /\ pass.at = "check"
    /\ tracked' = kept \ orphaned
    /\ pass' = [pass EXCEPT !.at = IF orphaned = {} THEN "logs" ELSE "retract",
                            !.batch = orphaned]
    /\ moved' = FALSE
    /\ UNCHANGED <<head, bridgeChain, stored, forgotten, reorgs, faults>>

\* retract_bridge_transfers deletes by transaction hash.
Retract ==
    /\ pass.at = "retract" /\ pass' = [pass EXCEPT !.at = "logs", !.batch = {}]
    /\ stored' = {r \in stored : \A o \in pass.batch : r.tx # o.tx}
    /\ UNCHANGED <<head, bridgeChain, tracked, moved, forgotten, reorgs, faults>>

\* eth_getLogs of the finalized range, and the receipts of a sample; a log
\* that is removed, malformed or tampered with is left out.
GetLogs(S) ==
    LET latest == FinalizedHead(pass.latest)
        from == IF latest > BridgeLookback THEN latest - BridgeLookback ELSE 0 IN
    /\ pass.at = "logs" /\ S \subseteq (from .. latest) \cap Blocks
    /\ pass' = [pass EXCEPT !.at = "record", !.batch = RowsOf(S)]
    /\ UNCHANGED <<head, bridgeChain, tracked, stored, moved, forgotten, reorgs, faults>>

\* Mutant: a block that is known keeps its hash.
Recorded_FirstHash(batch) == {r \in batch : \A q \in tracked : q.n = r.n => q = r}

\* FinalityTracker.record: another hash replaces what the block held.
Recorded(batch) == batch

\* The rows are recorded as they are accepted ...
RecordAccepted ==
    LET replaced == {r \in tracked : \E b \in pass.batch : b.n = r.n /\ b.hash # r.hash} IN
    /\ pass.at = "record" /\ pass' = [pass EXCEPT !.at = "save"]
    /\ tracked' = (tracked \ {r \in tracked : \E b \in Recorded(pass.batch) :
                                                b.n = r.n /\ b.hash # r.hash})
                    \cup Recorded(pass.batch)
    /\ forgotten' = IF moved THEN forgotten \cup replaced ELSE forgotten
    /\ UNCHANGED <<head, bridgeChain, stored, moved, reorgs, faults>>

\* ... and saved in one transaction.
SaveBridgeTransfers ==
    /\ pass.at = "save" /\ pass' = Idle /\ stored' = stored \cup pass.batch
    /\ UNCHANGED <<head, bridgeChain, tracked, moved, forgotten, reorgs, faults>>

\* A call raises and ends the pass; what it was about to delete is in no
\* tracker any more.
PassFails ==
    /\ pass # Idle /\ faults < MaxFaults /\ faults' = faults + 1 /\ pass' = Idle
    /\ forgotten' = IF pass.at = "retract" THEN forgotten \cup pass.batch ELSE forgotten
    /\ UNCHANGED <<head, bridgeChain, tracked, stored, moved, reorgs>>

BridgeRestart ==
    /\ faults < MaxFaults /\ faults' = faults + 1 /\ pass' = Idle
    /\ tracked' = {} /\ forgotten' = forgotten \cup tracked
                          \cup (IF pass.at = "retract" THEN pass.batch ELSE {})
    /\ UNCHANGED <<head, bridgeChain, stored, moved, reorgs>>

BridgeNext ==
          \/ Mine \/ GetLatestBlock \/ CheckReorgs \/ Retract \/ RecordAccepted \/ SaveBridgeTransfers
          \/ PassFails \/ BridgeRestart
          \/ \E n \in Blocks : Reorg(n)
          \/ \E S \in SUBSET Blocks : GetLogs(S)

BridgeSpec == BridgeInit /\ [][BridgeNext]_bridgeVars
-----------------------------------------------------------------------------
(* An orphan in the table will still be deleted: a stored row whose block  *)
(* is no longer canonical is tracked, or is just being retracted, unless   *)
(* its block is too old to be checked or the row left the tracker in one   *)
(* of three ways - a restart, a retraction that failed after the tracker   *)
(* had dropped it, or a chain that changed between the comparison of the   *)
(* hashes and the recording of the new block.                              *)
OrphansAreTracked ==
    \A r \in stored :
      bridgeChain[r.n] # r.hash =>
        \/ r \in tracked \cup forgotten
        \/ r.n < Oldest(head)
        \/ pass.at = "retract" /\ r \in pass.batch

-----------------------------------------------------------------------------
(***************************************************************************)
(* SolanaAdapter.resolve_stellar_link (ingestion/solana_adapter.py) with   *)
(* ingestion/wormhole_vaa.py: the transactions of a Solana address are     *)
(* searched for a bridge message that a quorum of the current guardian set *)
(* signed; what is malformed or unverified is quarantined.  The operator   *)
(* installs a new guardian set while links are resolved.                   *)
(*                                                                         *)
(* A message is its set index, its emitter (a Stellar account or another   *)
(* chain) and its signatures in order: the guardian index and whether it   *)
(* recovers to that guardian's address.  Recovering is external.           *)
(***************************************************************************)

CONSTANTS Guardians,    \* size of the guardian set
          Faulty,       \* guardian indices that sign anything
          Emitters,     \* Stellar accounts; "" is an emitter of another chain
          MaxSignatures, MaxSets   \* bounds: signatures of a message, guardian sets

ASSUME WormholeAssumption == Guardians \in Nat /\ MaxSignatures \in Nat /\ MaxSets \in Nat

Indices == 0 .. Guardians - 1
Signatures == [index : 0 .. Guardians, good : BOOLEAN]   \* one index is unknown

VARIABLES
    set,        \* index of the configured guardian set; 0: none configured
    signed,     \* history: [set, emitter, index] honest guardians signed
    link,       \* the accounts resolve_stellar_link returned: {[emitter, set, by]}
    rejected    \* the kinds of messages quarantined: {[ok, emitter]}

wormholeVars == <<set, signed, link, rejected>>

\* A malformed message (ok = FALSE) has no signatures anyone looks at.
Messages ==
    [ok : {TRUE}, set : 1 .. MaxSets, emitter : Emitters \cup {""},
     sigs : UNION {[1 .. n -> Signatures] : n \in 0 .. MaxSignatures}]
    \cup [ok : {FALSE}, set : {1}, emitter : {""}, sigs : {<<>>}]

WormholeTypeOK ==
    /\ set \in 0 .. MaxSets
    /\ link \subseteq [emitter : Emitters, set : 1 .. MaxSets, by : SUBSET Indices]
    /\ rejected \subseteq [ok : BOOLEAN, emitter : Emitters \cup {""}]

WormholeInit == set = 0 /\ signed = {} /\ link = {} /\ rejected = {}

\* The settings name the next guardian set.
NewGuardianSet == set < MaxSets /\ set' = set + 1 /\ UNCHANGED <<signed, link, rejected>>

\* An honest guardian of set k signs a message it observed.
Observe(g, k, e) ==
    /\ g \in Indices \ Faulty
    /\ signed' = signed \cup {[set |-> k, emitter |-> e, index |-> g]}
    /\ UNCHANGED <<set, link, rejected>>

\* A signature recovers only if the guardian made it for this message.
Possible(m) ==
    \A i \in DOMAIN m.sigs : m.sigs[i].good =>
        \/ m.sigs[i].index \in Faulty
        \/ [set |-> m.set, emitter |-> m.emitter, index |-> m.sigs[i].index] \in signed

Quorum == ((Guardians * 2) \div 3) + 1

Ascending(s) == \A i \in 2 .. Len(s) : s[i].index > s[i - 1].index

\* verify_vaa: the configured set, a quorum, and every signature given.
Verified(m) ==
    /\ set # 0 /\ m.set = set /\ Len(m.sigs) >= Quorum
    /\ Ascending(m.sigs)
    /\ \A i \in DOMAIN m.sigs : m.sigs[i].index \in Indices /\ m.sigs[i].good

Signers(m) == {m.sigs[i].index : i \in DOMAIN m.sigs}

\* _extract_stellar_address_from_vaa for one instruction: a defect is
\* quarantined, another chain passed over before any signature is checked.
Extract(m) ==
    LET passed == m.ok /\ (m.emitter = "" \/ Verified(m)) IN
    /\ Possible(m)
    /\ rejected' = rejected \cup (IF passed THEN {} ELSE {[ok |-> m.ok, emitter |-> m.emitter]})
    /\ link' = IF passed /\ m.emitter # ""
                 THEN link \cup {[emitter |-> m.emitter, set |-> m.set, by |-> Signers(m)]}
                 ELSE link
    /\ UNCHANGED <<set, signed>>

WormholeNext ==
            \/ NewGuardianSet
            \/ \E g \in Indices, k \in 1 .. MaxSets, e \in Emitters : Observe(g, k, e)
            \/ \E m \in Messages : Extract(m)

WormholeSpec == WormholeInit /\ [][WormholeNext]_wormholeVars
-----------------------------------------------------------------------------
(* However messages repeat, order or mix signatures and whenever the       *)
(* operator changes the guardian set, a returned account was attested by a *)
(* quorum of distinct guardians of one set, of whom every honest one       *)
(* observed that very transfer; and a message of another chain is never    *)
(* quarantined, however it is signed.                                      *)
LinksAreAttested ==
    /\ \A l \in link : /\ Cardinality(l.by) >= Quorum
                       /\ \A g \in l.by \ Faulty :
                            [set |-> l.set, emitter |-> l.emitter, index |-> g] \in signed
    /\ \A m \in rejected : m.ok => m.emitter # ""

-----------------------------------------------------------------------------
(***************************************************************************)
(* CrossChainLinker (detection/cross_chain_linker.py), which scores how    *)
(* likely a Stellar wallet and an EVM wallet have one owner, and           *)
(* CrossChainCorrelator (detection/cross_chain_correlator.py), which pairs *)
(* bridge transfers that went out and came back, over the bridge_transfers *)
(* table that the bridge loader writes and, after a reorganisation,        *)
(* retracts from (BridgeReorgs).  One Stellar wallet; a tick is 1200 s.    *)
(***************************************************************************)

CONSTANTS Evms,         \* EVM wallets that bridge with the Stellar wallet
          SameSuffix,   \* those whose last four characters are the wallet's
          Amounts,      \* amount_usd; 0 stands for NULL too
          Scorers,      \* processes that score and persist hypotheses
          LinkLookback,     \* lookback_days, in ticks
          TripWindow,   \* the correlator's window, in ticks
          MaxTransfers, MaxRetracts, LinkMaxTime  \* bounds

ASSUME LinkAssumption == Amounts \subseteq Nat /\ LinkLookback \in Nat /\ LinkMaxTime \in Nat

Directions == {"stellar_to_evm", "evm_to_stellar"}

VARIABLES
    table,      \* bridge_transfers, in the order they were inserted
    linkNow,
    links,      \* cross_chain_links: rows [evm, status], with the evidence they rest on
    scorer,     \* per process: [at, evm, events], the hypothesis being scored
    retracts

linkVars == <<table, linkNow, links, scorer, retracts>>

Transfer == [evm : Evms, dir : Directions, usd : Amounts, at : 0 .. LinkMaxTime]
Resting == [at |-> "idle", evm |-> "none", events |-> <<>>]

LinkTypeOK ==
    /\ table \in Seq(Transfer) /\ linkNow \in 0 .. LinkMaxTime
    /\ \A l \in links : l.evm \in Evms /\ l.status \in {"probable", "confirmed"}
    /\ \A p \in Scorers : scorer[p].at \in {"idle", "persist"}

LinkInit == /\ table = <<>> /\ linkNow = 0 /\ links = {}
            /\ scorer = [p \in Scorers |-> Resting] /\ retracts = 0
-----------------------------------------------------------------------------
Abs(n) == IF n < 0 THEN -n ELSE n

\* The elements of S in the order in which before holds from one to the next.
Ranked(S, before) ==
    [k \in 1 .. Cardinality(S) |->
        CHOOSE i \in S : Cardinality({j \in S : <<j, i>> \in before}) = k - 1]

\* The rows of table a query for the wallet finds.
Recent(evm) == {i \in DOMAIN table : table[i].evm = evm /\ table[i].at >= linkNow - LinkLookback}

\* get_bridge_transfers: newest first; the index gives the later row of a tie first.
GetBridgeTransfers(evm) ==
    LET I == Recent(evm)
        order == Ranked(I, {p \in I \X I : p[1] > p[2]})
    IN [k \in 1 .. Cardinality(I) |-> table[order[k]]]

\* The pairs of events whose directions differ.
Opposite(ev) ==
    {p \in (DOMAIN ev) \X (DOMAIN ev) : p[1] < p[2] /\ ev[p[1]].dir # ev[p[2]].dir}

\* _timing_likelihood of the closest pair, in tenths: 3600 x a Gaussian of 300 s.
TimingLr(ev) ==
    IF Opposite(ev) = {} THEN 10
    ELSE LET Delta(p) == Abs(ev[p[1]].at - ev[p[2]].at)
         IN IF \E p \in Opposite(ev) : Delta(p) = 0 THEN 36000
            ELSE IF \E p \in Opposite(ev) : Delta(p) = 1 THEN 12 ELSE 0

\* _amount_likelihood of the best pair: within 0.5 % of the one read first.
AmountLr(ev) ==
    IF \E p \in Opposite(ev) :
         LET a == ev[p[1]].usd  b == ev[p[2]].usd
         IN a > 0 /\ b > 0 /\ 200 * Abs(a - b) <= a
    THEN 10 ELSE 1

\* sorted(bridge_events, key=timestamp) is stable: ties stay as they were read.
ByTime(ev) ==
    LET I == DOMAIN ev
        order == Ranked(I, {p \in I \X I :
                              IF ev[p[1]].at = ev[p[2]].at THEN p[1] < p[2]
                              ELSE ev[p[1]].at < ev[p[2]].at})
    IN [k \in I |-> ev[order[k]]]

\* _direction_consistency_likelihood as <<numerator, denominator>>: 1 + 4 x ratio.
DirectionLr(ev) ==
    LET s == ByTime(ev)
        max == Len(ev) - 1
        transitions == Cardinality({k \in 2 .. Len(ev) : s[k].dir # s[k - 1].dir})
    IN IF max <= 0 THEN <<1, 1>> ELSE <<max + 4 * transitions, max>>

\* _address_pattern_likelihood, doubled.
AddressLr(evm) == IF evm \in SameSuffix THEN 3 ELSE 2

\* With the default calibration (1, 0) the confidence is L / (1 + L), L the
\* product of the four ratios: 0.9 is L = 9, 0.7 is L = 7/3.
LikelihoodTop(evm, ev) == TimingLr(ev) * AmountLr(ev) * DirectionLr(ev)[1] * AddressLr(evm)
LikelihoodBottom(ev) == 20 * DirectionLr(ev)[2]

Classify(evm, ev) ==
    IF LikelihoodTop(evm, ev) >= 9 * LikelihoodBottom(ev) THEN "confirmed"
    ELSE IF 3 * LikelihoodTop(evm, ev) >= 7 * LikelihoodBottom(ev) THEN "probable"
    ELSE "rejected"

\* score_hypothesis: no events, no link.
ScoreHypothesis(evm, ev) == IF ev = <<>> THEN "rejected" ELSE Classify(evm, ev)
-----------------------------------------------------------------------------
\* What the events say by themselves: opposite directions at most a tick apart,
\* and opposite directions at one time or of one value.
Near(ev) == {p \in (DOMAIN ev) \X (DOMAIN ev) :
               ev[p[1]].dir # ev[p[2]].dir /\ Abs(ev[p[1]].at - ev[p[2]].at) <= 1}
Strong(ev) == {p \in (DOMAIN ev) \X (DOMAIN ev) :
                 LET a == ev[p[1]]  b == ev[p[2]]
                 IN /\ a.dir # b.dir
                    /\ a.at = b.at \/ (a.usd > 0 /\ 200 * Abs(a.usd - b.usd) <= a.usd)}

SaveBridgeTransfer(evm, dir, usd) ==
    /\ Len(table) < MaxTransfers
    /\ table' = Append(table, [evm |-> evm, dir |-> dir, usd |-> usd, at |-> linkNow])
    /\ UNCHANGED <<linkNow, links, scorer, retracts>>

\* retract_bridge_transfers of one orphaned transaction.
RetractBridgeTransfers(i) ==
    /\ i \in DOMAIN table /\ retracts < MaxRetracts /\ retracts' = retracts + 1
    /\ table' = [k \in 1 .. Len(table) - 1 |-> IF k < i THEN table[k] ELSE table[k + 1]]
    /\ UNCHANGED <<linkNow, links, scorer>>

\* A process reads the transfers of one pair ...
ReadEvents(p, evm) ==
    /\ scorer[p].at = "idle"
    /\ scorer' = [scorer EXCEPT ![p] =
                    [at |-> "persist", evm |-> evm, events |-> GetBridgeTransfers(evm)]]
    /\ UNCHANGED <<table, linkNow, links, retracts>>

\* ... scores them and persists the hypothesis: an upsert, skipped when rejected.
PersistHypothesis(p) ==
    LET evm == scorer[p].evm
        status == ScoreHypothesis(evm, scorer[p].events)
    IN /\ scorer[p].at = "persist"
       /\ links' = IF status = "rejected" THEN links
                   ELSE {l \in links : l.evm # evm}
                          \cup {[evm |-> evm, status |-> status,
                                  near |-> Near(scorer[p].events) # {},
                                  strong |-> Strong(scorer[p].events) # {}]}
       /\ scorer' = [scorer EXCEPT ![p] = Resting]
       /\ UNCHANGED <<table, linkNow, retracts>>

LinkTick == linkNow < LinkMaxTime /\ linkNow' = linkNow + 1 /\ UNCHANGED <<table, links, scorer, retracts>>

LinkNext ==
        \/ \E e \in Evms, d \in Directions, a \in Amounts : SaveBridgeTransfer(e, d, a)
        \/ \E i \in DOMAIN table : RetractBridgeTransfers(i)
        \/ \E p \in Scorers : PersistHypothesis(p) \/ \E e \in Evms : ReadEvents(p, e)
        \/ LinkTick

LinkSpec == LinkInit /\ [][LinkNext]_linkVars
-----------------------------------------------------------------------------
\* link_wallets: every EVM wallet with a recent transfer, linked or not.
LinkWallets == {e \in Evms : GetBridgeTransfers(e) # <<>>}

\* match_round_trips: out, and back within the window with much the same value.
MatchRoundTrips ==
    {p \in (DOMAIN table) \X (DOMAIN table) :
        LET x == table[p[1]]  y == table[p[2]]
            lo == IF x.usd < y.usd THEN x.usd ELSE y.usd
            hi == IF x.usd < y.usd THEN y.usd ELSE x.usd
        IN /\ x.dir = "stellar_to_evm" /\ y.dir = "evm_to_stellar" /\ x.evm = y.evm
           /\ x.at >= linkNow - LinkLookback /\ y.at >= linkNow - LinkLookback
           /\ y.at >= x.at /\ y.at - x.at <= TripWindow
           /\ lo > 0 /\ 100 * lo >= 95 * hi}

\* _round_trip_frequency: how many transfers to Stellar have one the other way
\* within the window, before or after it, whatever their amounts.
RoundTripsCounted ==
    {i \in DOMAIN table :
        /\ table[i].dir = "evm_to_stellar" /\ table[i].at >= linkNow - LinkLookback
        /\ \E o \in DOMAIN table :
             /\ table[o].dir = "stellar_to_evm" /\ table[o].evm = table[i].evm
             /\ table[o].at >= linkNow - LinkLookback
             /\ Abs(table[o].at - table[i].at) <= TripWindow}

(* A wallet pair is stored as linked only on the evidence of two transfers *)
(* in opposite directions at most a tick apart among the rows that were    *)
(* read, once per pair and never on repetition alone; CONFIRMED needs one  *)
(* of equal times, matching amounts and a matching address suffix too; and *)
(* a transfer the correlator pairs as a round trip is one the linker's *)
(* frequency counts, so the two features cannot contradict each other.     *)
LinksHaveEvidence ==
    /\ \A l, k \in links : l.evm = k.evm => l = k
    /\ \A l \in links : /\ l.near
                        /\ l.status = "confirmed" => l.strong \/ l.evm \in SameSuffix
    /\ {p[2] : p \in MatchRoundTrips} \subseteq RoundTripsCounted
    /\ \A p \in MatchRoundTrips : table[p[2]].evm \in LinkWallets

-----------------------------------------------------------------------------
(* What other chains report is believed only with evidence, and evidence   *)
(* that a reorganisation removed is noticed: the three parts above         *)
(* (bridge_loader.py, solana_adapter.py, cross_chain_linker.py).           *)
BridgesAreTracked ==
    /\ BridgeTypeOK /\ OrphansAreTracked
    /\ WormholeTypeOK /\ LinksAreAttested
    /\ LinkTypeOK /\ LinksHaveEvidence

=============================================================================
