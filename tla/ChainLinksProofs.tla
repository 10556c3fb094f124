-------------------------- MODULE ChainLinksProofs --------------------------
(***************************************************************************)
(* What other chains report, for chains of any height, any confirmation    *)
(* depth and look-back, any guardian set and any table of transfers.       *)
(***************************************************************************)
EXTENDS ChainLinks, FiniteSetTheorems, WellFoundedInduction, TLAPS

-----------------------------------------------------------------------------
(* Reorganisations.  Whether an orphan will be noticed cannot be told from *)
(* the canonical chain, which may change under any stored row: what is     *)
(* inductive is that every stored row, orphaned or not, is followed.       *)

Followed(r) == \/ r \in tracked \cup forgotten
               \/ r.n < Oldest(head)
               \/ pass.at = "retract" /\ r \in pass.batch

StoredAreFollowed == \A r \in stored : Followed(r)

\* What is about to be saved is recorded.
BatchIsFollowed == pass.at = "save" => pass.batch \subseteq tracked \cup forgotten

\* As long as the chain did not move, a pass that compared the hashes knows
\* only canonical rows.
KnownAreCanonical ==
    ~moved => /\ pass.at \in {"retract", "logs", "record"} =>
                    \A r \in tracked : bridgeChain[r.n] = r.hash
              /\ pass.at = "record" => \A r \in pass.batch : bridgeChain[r.n] = r.hash

\* Nothing is known of blocks above the head.
BelowHead ==
    /\ pass.latest <= head
    /\ \A r \in tracked : r.n <= head
    /\ pass.at \in {"record", "save"} => \A r \in pass.batch : r.n <= head

BridgeInv == /\ BridgeTypeOK /\ StoredAreFollowed /\ BatchIsFollowed
             /\ KnownAreCanonical /\ BelowHead

LEMMA OldestGrows ==
  ASSUME NEW m \in Nat, NEW n \in Nat, m <= n
  PROVE  Oldest(m) <= Oldest(n) /\ Oldest(n) \in Int
  BY BridgeAssumption DEF Oldest, FinalizedHead

LEMMA RowType ==
  ASSUME NEW r \in AllRows
  PROVE  r.n \in Nat /\ r.n \in Blocks /\ r.hash \in Branches
  BY BridgeAssumption DEF AllRows, BridgeRow, Blocks

LEMMA InitBridgeInv == BridgeInit => BridgeInv
<1> SUFFICES ASSUME BridgeInit PROVE BridgeInv
  OBVIOUS
<1>1. BridgeTypeOK
  <2>1. /\ pass = [at |-> "idle", latest |-> 0, batch |-> {}]
        /\ bridgeChain = [n \in Blocks |-> "a"] /\ "a" \in Branches
    BY DEF BridgeInit, Idle, Branches
  <2>2. pass \in [at : {"idle", "check", "retract", "logs", "record", "save"},
                  latest : 0 .. MaxBlock, batch : SUBSET AllRows]
    <3>1. 0 \in 0 .. MaxBlock
      BY BridgeAssumption
    <3>2. {} \in SUBSET AllRows
      OBVIOUS
    <3> QED BY <2>1, <3>1, <3>2
  <2>3. head \in 0 .. MaxBlock /\ reorgs \in 0 .. MaxReorgs /\ faults \in 0 .. MaxFaults
    BY BridgeAssumption DEF BridgeInit
  <2>4. moved \in BOOLEAN /\ tracked \subseteq AllRows /\ stored \subseteq AllRows /\ forgotten \subseteq AllRows
    BY DEF BridgeInit
  <2> QED BY <2>1, <2>2, <2>3, <2>4 DEF BridgeTypeOK
<1>2. StoredAreFollowed /\ BatchIsFollowed /\ KnownAreCanonical /\ BelowHead
  BY DEF BridgeInit, StoredAreFollowed, BatchIsFollowed, KnownAreCanonical, BelowHead, Idle
<1> QED BY <1>1, <1>2 DEF BridgeInv

LEMMA MineBridge == ASSUME BridgeInv, Mine PROVE BridgeInv'
<1> USE DEF BridgeInv, Mine
<1>1. head \in Nat /\ head' \in Nat /\ head <= head'
  BY BridgeAssumption DEF BridgeTypeOK
<1>2. BridgeTypeOK'
  BY BridgeAssumption DEF BridgeTypeOK
<1>3. StoredAreFollowed'
  <2>1. Oldest(head) <= Oldest(head') /\ Oldest(head') \in Int /\ Oldest(head) \in Int
    BY <1>1, OldestGrows
  <2>2. stored \subseteq AllRows
    BY DEF BridgeTypeOK
  <2> QED BY <2>1, <2>2, RowType DEF StoredAreFollowed, Followed
<1>4. BatchIsFollowed' /\ KnownAreCanonical'
  BY DEF BatchIsFollowed, KnownAreCanonical
<1>5. BelowHead'
  <2>1. tracked \subseteq AllRows /\ pass.batch \subseteq AllRows /\ pass.latest \in Nat
    BY DEF BridgeTypeOK
  <2> QED BY <1>1, <2>1, RowType DEF BelowHead
<1> QED BY <1>2, <1>3, <1>4, <1>5

LEMMA ReorgBridge == ASSUME BridgeInv, NEW n \in Blocks, Reorg(n) PROVE BridgeInv'
<1>1. BridgeTypeOK'
  <2>1. bridgeChain' \in [Blocks -> Branches]
    BY DEF BridgeInv, Reorg, BridgeTypeOK, Branches
  <2> QED BY <2>1, BridgeAssumption DEF BridgeInv, Reorg, BridgeTypeOK
<1>2. StoredAreFollowed' /\ BatchIsFollowed' /\ KnownAreCanonical' /\ BelowHead'
  BY DEF BridgeInv, Reorg, StoredAreFollowed, Followed, BatchIsFollowed,
         KnownAreCanonical, BelowHead
<1> QED BY <1>1, <1>2 DEF BridgeInv

LEMMA GetLatestBlockBridge == ASSUME BridgeInv, GetLatestBlock PROVE BridgeInv'
<1>1. pass'.at = "check" /\ pass'.latest = head /\ pass'.batch = {} /\ pass.at = "idle"
  BY DEF GetLatestBlock, Idle
<1>2. BridgeTypeOK'
  BY DEF BridgeInv, GetLatestBlock, BridgeTypeOK, Idle
<1>3. StoredAreFollowed'
  BY <1>1 DEF BridgeInv, GetLatestBlock, StoredAreFollowed, Followed
<1>4. BatchIsFollowed' /\ KnownAreCanonical'
  BY <1>1 DEF BatchIsFollowed, KnownAreCanonical
<1>5. BelowHead'
  BY <1>1, BridgeAssumption DEF BridgeInv, GetLatestBlock, BelowHead, BridgeTypeOK
<1> QED BY <1>2, <1>3, <1>4, <1>5 DEF BridgeInv

LEMMA CheckReorgsBridge == ASSUME BridgeInv, CheckReorgs PROVE BridgeInv'
<1> DEFINE kept == {r \in tracked : r.n >= Oldest(pass.latest)}
           orphaned == {r \in kept : r.n <= head /\ bridgeChain[r.n] # r.hash}
<1>1. /\ pass.at = "check" /\ tracked' = kept \ orphaned
      /\ pass' = [pass EXCEPT !.at = IF orphaned = {} THEN "logs" ELSE "retract",
                              !.batch = orphaned]
      /\ moved' = FALSE
      /\ UNCHANGED <<head, bridgeChain, stored, forgotten, reorgs, faults>>
  BY DEF CheckReorgs
<1>2. BridgeTypeOK /\ BelowHead /\ StoredAreFollowed
  BY DEF BridgeInv
<1>3. BridgeTypeOK'
  BY <1>1, <1>2 DEF BridgeTypeOK
<1>4. StoredAreFollowed'
  <2> SUFFICES ASSUME NEW r \in stored PROVE Followed(r)'
    BY <1>1 DEF StoredAreFollowed
  <2>1. CASE r \in tracked
    <3>1. CASE r \in orphaned
      BY <1>1, <1>2, <3>1 DEF Followed, BridgeTypeOK
    <3>2. CASE r \in kept \ orphaned
      BY <1>1, <3>2 DEF Followed
    <3>3. CASE r \notin kept
      <4>1. Oldest(pass.latest) <= Oldest(head) /\ Oldest(head) \in Int
        BY <1>2, OldestGrows DEF BridgeTypeOK, BelowHead
      <4>2. Oldest(pass.latest) \in Int
        BY <1>2, OldestGrows DEF BridgeTypeOK
      <4> QED BY <1>1, <1>2, <2>1, <3>3, <4>1, <4>2, RowType DEF Followed, BridgeTypeOK
    <3> QED BY <3>1, <3>2, <3>3
  <2>2. CASE r \notin tracked
    BY <1>1, <1>2, <2>2 DEF StoredAreFollowed, Followed
  <2> QED BY <2>1, <2>2
<1>5. BatchIsFollowed' /\ BelowHead' /\ KnownAreCanonical'
  <2>1. pass'.at \in {"logs", "retract"} /\ pass'.latest = pass.latest
    BY <1>1, <1>2 DEF BridgeTypeOK
  <2> QED BY <1>1, <1>2, <2>1 DEF BatchIsFollowed, BelowHead, KnownAreCanonical
<1> QED BY <1>3, <1>4, <1>5 DEF BridgeInv

LEMMA RetractBridge == ASSUME BridgeInv, Retract PROVE BridgeInv'
<1>1. BridgeTypeOK'
  BY DEF BridgeInv, Retract, BridgeTypeOK
<1>2. pass'.at = "logs" /\ pass'.latest = pass.latest
  BY DEF BridgeInv, Retract, BridgeTypeOK
<1>3. StoredAreFollowed'
  BY <1>2 DEF BridgeInv, Retract, StoredAreFollowed, Followed
<1>4. BatchIsFollowed' /\ KnownAreCanonical' /\ BelowHead'
  BY <1>2 DEF BridgeInv, Retract, BatchIsFollowed, KnownAreCanonical, BelowHead
<1> QED BY <1>1, <1>3, <1>4 DEF BridgeInv

LEMMA GetLogsBridge == ASSUME BridgeInv, NEW S \in SUBSET Blocks, GetLogs(S) PROVE BridgeInv'
<1>1. /\ pass.at = "logs" /\ S \subseteq Blocks
      /\ pass' = [pass EXCEPT !.at = "record", !.batch = RowsOf(S)]
      /\ \A n \in S : n <= FinalizedHead(pass.latest)
      /\ UNCHANGED <<head, bridgeChain, tracked, stored, moved, forgotten, reorgs, faults>>
  BY DEF GetLogs
<1>2. BridgeTypeOK /\ BelowHead
  BY DEF BridgeInv
<1>3. \A n \in S : n \in Nat /\ n <= head
  BY <1>1, <1>2, BridgeAssumption DEF BridgeTypeOK, BelowHead, FinalizedHead, Blocks
<1>4. RowsOf(S) \subseteq AllRows
  BY <1>1, <1>2 DEF RowsOf, AllRows, BridgeTypeOK
<1>5. \A r \in RowsOf(S) : r.n \in S /\ bridgeChain[r.n] = r.hash
  BY DEF RowsOf, BridgeRow
<1>6. pass'.at = "record" /\ pass'.latest = pass.latest /\ pass'.batch = RowsOf(S)
  BY <1>1, <1>2 DEF BridgeTypeOK
<1>7. BridgeTypeOK'
  BY <1>1, <1>2, <1>4 DEF BridgeTypeOK
<1>8. StoredAreFollowed' /\ BatchIsFollowed'
  BY <1>1, <1>6 DEF BridgeInv, StoredAreFollowed, Followed, BatchIsFollowed
<1>9. KnownAreCanonical'
  BY <1>1, <1>5, <1>6 DEF BridgeInv, KnownAreCanonical
<1>10. BelowHead'
  BY <1>1, <1>2, <1>3, <1>5, <1>6 DEF BelowHead
<1> QED BY <1>7, <1>8, <1>9, <1>10 DEF BridgeInv

\* The step in which an old row of a block leaves the tracker.
LEMMA RecordAcceptedBridge == ASSUME BridgeInv, RecordAccepted PROVE BridgeInv'
<1> DEFINE replaced == {r \in tracked : \E b \in pass.batch : b.n = r.n /\ b.hash # r.hash}
<1>1. /\ pass.at = "record" /\ pass' = [pass EXCEPT !.at = "save"]
      /\ tracked' = (tracked \ replaced) \cup pass.batch
      /\ forgotten' = IF moved THEN forgotten \cup replaced ELSE forgotten
      /\ UNCHANGED <<head, bridgeChain, stored, moved, reorgs, faults>>
  BY DEF RecordAccepted, Recorded
<1>2. BridgeTypeOK /\ BelowHead /\ StoredAreFollowed /\ KnownAreCanonical
  BY DEF BridgeInv
<1>3. pass'.at = "save" /\ pass'.latest = pass.latest /\ pass'.batch = pass.batch
  BY <1>1, <1>2 DEF BridgeTypeOK
<1>4. ~moved => replaced = {}
  BY <1>1, <1>2 DEF KnownAreCanonical
<1>5. BridgeTypeOK'
  <2>1. tracked' \subseteq AllRows /\ forgotten' \subseteq AllRows
    BY <1>1, <1>2 DEF BridgeTypeOK
  <2> QED BY <1>1, <1>2, <2>1 DEF BridgeTypeOK
<1>6. tracked \cup forgotten \subseteq tracked' \cup forgotten'
  BY <1>1, <1>4
<1>7. StoredAreFollowed'
  BY <1>1, <1>2, <1>3, <1>6 DEF StoredAreFollowed, Followed
<1>8. BatchIsFollowed'
  BY <1>1, <1>3 DEF BatchIsFollowed
<1>9. KnownAreCanonical' /\ BelowHead'
  BY <1>1, <1>2, <1>3 DEF KnownAreCanonical, BelowHead
<1> QED BY <1>5, <1>7, <1>8, <1>9 DEF BridgeInv

LEMMA SaveBridge == ASSUME BridgeInv, SaveBridgeTransfers PROVE BridgeInv'
<1>1. BridgeTypeOK'
  BY BridgeAssumption DEF BridgeInv, SaveBridgeTransfers, BridgeTypeOK, Idle
<1>2. StoredAreFollowed'
  BY DEF BridgeInv, SaveBridgeTransfers, StoredAreFollowed, Followed, BatchIsFollowed
<1>3. BatchIsFollowed' /\ KnownAreCanonical' /\ BelowHead'
  BY DEF BridgeInv, SaveBridgeTransfers, BatchIsFollowed, KnownAreCanonical, BelowHead,
         BridgeTypeOK, Idle
<1> QED BY <1>1, <1>2, <1>3 DEF BridgeInv

LEMMA PassFailsBridge == ASSUME BridgeInv, PassFails PROVE BridgeInv'
<1>1. BridgeTypeOK'
  BY BridgeAssumption DEF BridgeInv, PassFails, BridgeTypeOK, Idle
<1>2. StoredAreFollowed'
  BY DEF BridgeInv, PassFails, StoredAreFollowed, Followed
<1>3. BatchIsFollowed' /\ KnownAreCanonical' /\ BelowHead'
  BY DEF BridgeInv, PassFails, BatchIsFollowed, KnownAreCanonical, BelowHead,
         BridgeTypeOK, Idle
<1> QED BY <1>1, <1>2, <1>3 DEF BridgeInv

LEMMA BridgeRestartBridge == ASSUME BridgeInv, BridgeRestart PROVE BridgeInv'
<1>1. BridgeTypeOK'
  BY BridgeAssumption DEF BridgeInv, BridgeRestart, BridgeTypeOK, Idle
<1>2. StoredAreFollowed'
  BY DEF BridgeInv, BridgeRestart, StoredAreFollowed, Followed
<1>3. BatchIsFollowed' /\ KnownAreCanonical' /\ BelowHead'
  BY DEF BridgeInv, BridgeRestart, BatchIsFollowed, KnownAreCanonical, BelowHead,
         BridgeTypeOK, Idle
<1> QED BY <1>1, <1>2, <1>3 DEF BridgeInv

LEMMA BridgeStep == ASSUME BridgeInv, [BridgeNext]_bridgeVars PROVE BridgeInv'
<1>1. CASE UNCHANGED bridgeVars
  BY <1>1
  DEF bridgeVars, BridgeInv, BridgeTypeOK, StoredAreFollowed, Followed, BatchIsFollowed,
      KnownAreCanonical, BelowHead
<1>2. CASE BridgeNext
  BY <1>2, MineBridge, ReorgBridge, GetLatestBlockBridge, CheckReorgsBridge, RetractBridge,
     GetLogsBridge, RecordAcceptedBridge, SaveBridge, PassFailsBridge, BridgeRestartBridge
  DEF BridgeNext
<1> QED BY <1>1, <1>2

LEMMA BridgeInvImplies == BridgeInv => BridgeTypeOK /\ OrphansAreTracked
  BY DEF BridgeInv, StoredAreFollowed, Followed, OrphansAreTracked

(* An orphaned transfer is deleted sooner or later unless its block is too *)
(* old or it left the tracker in one of the three named ways, whatever     *)
(* order blocks, reorganisations, passes, failures and restarts come in    *)
(* (FinalityTracker, BridgeTransferLoader.load_transfers).                 *)
THEOREM OrphansAlwaysTracked == BridgeSpec => [](BridgeTypeOK /\ OrphansAreTracked)
<1>1. BridgeInv /\ [BridgeNext]_bridgeVars => BridgeInv'
  BY BridgeStep
<1> QED BY <1>1, InitBridgeInv, BridgeInvImplies, PTL DEF BridgeSpec

-----------------------------------------------------------------------------
(* Order and number: what the remaining two parts need of finite sets.     *)

LEMMA LeastNatural ==
  ASSUME NEW T, T \subseteq Nat, T # {}
  PROVE  \E i \in T : \A j \in T : i <= j
<1> DEFINE R == OpToRel(<, Nat)
<1>1. PICK i \in T : \A j \in T : <<j, i>> \notin R
  <2> HIDE DEF R
  <2>1. IsWellFoundedOn(R, Nat)
    BY NatLessThanWellFounded DEF R
  <2> QED BY <2>1, WFMin
<1>2. \A j \in T : ~(j < i)
  BY <1>1 DEF OpToRel
<1> HIDE DEF R
<1>3. i \in Nat /\ \A j \in T : j \in Nat /\ ~(j < i)
  BY <1>2
<1> QED BY <1>3

\* A sequence that ascends from each index to the next ascends throughout.
LEMMA AscendingIsStrict ==
  ASSUME NEW n \in Nat, NEW f \in [1 .. n -> Nat], \A i \in 2 .. n : f[i] > f[i - 1],
         NEW i \in 1 .. n, NEW j \in 1 .. n, i < j
  PROVE  f[i] < f[j]
<1> DEFINE T == {k \in 1 .. n : i < k /\ ~(f[i] < f[k])}
<1> SUFFICES ASSUME T # {} PROVE FALSE
  OBVIOUS
<1>1. PICK k \in T : \A l \in T : k <= l
  <2>1. T \subseteq Nat /\ T # {}
    OBVIOUS
  <2> HIDE DEF T
  <2> QED BY <2>1, LeastNatural
<1>2. k \in 2 .. n /\ f[k] > f[k - 1] /\ k - 1 \in 1 .. n /\ i <= k - 1
  BY <1>1
<1>3. k - 1 \notin T
  BY <1>1, <1>2
<1>4. f[i] <= f[k - 1]
  BY <1>2, <1>3
<1> QED BY <1>1, <1>2, <1>4

\* Ranked lists elements of its set, whatever strict total order it is given.
LEMMA RankedLists ==
  ASSUME NEW S, IsFiniteSet(S), NEW R \in SUBSET (S \X S),
         \A i \in S : <<i, i>> \notin R,
         \A i, j, k \in S : <<i, j>> \in R /\ <<j, k>> \in R => <<i, k>> \in R,
         \A i, j \in S : i = j \/ <<i, j>> \in R \/ <<j, i>> \in R,
         NEW k \in 1 .. Cardinality(S)
  PROVE  Ranked(S, R)[k] \in S
<1> DEFINE n == Cardinality(S)
           Below(i) == {j \in S : <<j, i>> \in R}
           f == [i \in S |-> Cardinality(Below(i))]
           N == 0 .. n - 1
<1>1. n \in Nat /\ IsFiniteSet(N) /\ Cardinality(N) = n
  <2>1. n \in Nat
    BY FS_CardinalityType
  <2> HIDE DEF n
  <2>2. 0 \in Int /\ n - 1 \in Int
    BY <2>1
  <2> QED BY <2>1, <2>2, FS_Interval
<1>2. \A i \in S : IsFiniteSet(Below(i)) /\ Cardinality(Below(i)) \in N
  <2> SUFFICES ASSUME NEW i \in S
               PROVE  IsFiniteSet(Below(i)) /\ Cardinality(Below(i)) \in N
    OBVIOUS
  <2>1. IsFiniteSet(S \ {i}) /\ Cardinality(S \ {i}) = n - 1
    BY FS_RemoveElement
  <2>2. Below(i) \in SUBSET (S \ {i})
    OBVIOUS
  <2>3. IsFiniteSet(Below(i)) /\ Cardinality(Below(i)) <= n - 1
    <3> HIDE DEF Below, n
    <3> QED BY <2>1, <2>2, FS_Subset
  <2>4. Cardinality(Below(i)) \in Nat
    BY <2>3, FS_CardinalityType
  <2> QED BY <1>1, <2>3, <2>4
<1>3. \A i, j \in S : <<i, j>> \in R => f[i] < f[j]
  <2> SUFFICES ASSUME NEW i \in S, NEW j \in S, <<i, j>> \in R PROVE f[i] < f[j]
    OBVIOUS
  <2>1. Below(i) \cup {i} \in SUBSET Below(j) /\ i \notin Below(i)
    OBVIOUS
  <2>2. Cardinality(Below(i) \cup {i}) = Cardinality(Below(i)) + 1
    BY <1>2, <2>1, FS_AddElement
  <2>3. Cardinality(Below(i) \cup {i}) <= Cardinality(Below(j))
    BY <1>2, <2>1, FS_Subset
  <2>4. Cardinality(Below(i)) \in Nat /\ Cardinality(Below(j)) \in Nat
    BY <1>2, FS_CardinalityType
  <2> QED BY <2>2, <2>3, <2>4
<1>4. f \in Injection(S, N)
  <2>1. f \in [S -> N]
    BY <1>2
  <2>2. \A i, j \in S : f[i] = f[j] => i = j
    <3>1. \A i \in S : f[i] \in Nat
      BY <1>1, <2>1
    <3> HIDE DEF f
    <3> SUFFICES ASSUME NEW i \in S, NEW j \in S, f[i] = f[j], i # j PROVE FALSE
      OBVIOUS
    <3>2. <<i, j>> \in R \/ <<j, i>> \in R
      OBVIOUS
    <3> QED BY <1>3, <3>1, <3>2
  <2> HIDE DEF f, N
  <2> QED BY <2>1, <2>2 DEF Injection, IsInjective
<1>5. f \in Surjection(S, N)
  <2> HIDE DEF f, N
  <2> QED BY <1>1, <1>4, FS_Injection
<1>6. \E i \in S : Cardinality(Below(i)) = k - 1
  <2>1. k - 1 \in N
    BY <1>1
  <2>2. PICK i \in S : f[i] = k - 1
    <3> HIDE DEF f, N
    <3> QED BY <1>5, <2>1 DEF Surjection
  <2> QED BY <2>2
<1> QED BY <1>6 DEF Ranked

-----------------------------------------------------------------------------
(* Wormhole.  Signatures in strictly ascending order are of distinct       *)
(* guardians, so that a quorum of signatures is a quorum of guardians.     *)

LEMMA SignersAreDistinct ==
  ASSUME NEW m \in Messages, Verified(m)
  PROVE  /\ Signers(m) \subseteq Indices
         /\ IsFiniteSet(Signers(m)) /\ Cardinality(Signers(m)) >= Quorum
<1> DEFINE n == Len(m.sigs)
           f == [i \in 1 .. n |-> m.sigs[i].index]
<1>1. n \in Nat /\ DOMAIN m.sigs = 1 .. n /\ n >= Quorum /\ \A i \in 1 .. n : m.sigs[i].index \in Indices
  <2>1. m.sigs \in Seq(Signatures)
    <3>1. CASE m.ok
      <4>1. m.sigs \in UNION {[1 .. k -> Signatures] : k \in 0 .. MaxSignatures}
        BY <3>1 DEF Messages
      <4>2. PICK k \in 0 .. MaxSignatures : m.sigs \in [1 .. k -> Signatures]
        BY <4>1
      <4> QED BY <4>2, WormholeAssumption
    <3>2. CASE ~m.ok
      <4>1. m \in [ok : {FALSE}, set : {1}, emitter : {""}, sigs : {<<>>}]
        BY <3>2 DEF Messages
      <4>2. m.sigs = <<>>
        BY <4>1
      <4> QED BY <4>2
    <3> QED BY <3>1, <3>2
  <2> QED BY <2>1 DEF Verified
<1>2. \A i, j \in 1 .. n : i < j => f[i] < f[j]
  <2> SUFFICES ASSUME NEW i \in 1 .. n, NEW j \in 1 .. n, i < j PROVE f[i] < f[j]
    OBVIOUS
  <2>1. f \in [1 .. n -> Nat]
    BY <1>1, WormholeAssumption DEF Indices
  <2>2. \A k \in 2 .. n : f[k] > f[k - 1]
    BY <1>1 DEF Verified, Ascending
  <2> HIDE DEF f, n
  <2> QED BY <1>1, <2>1, <2>2, AscendingIsStrict
<1>3. IsFiniteSet(Indices)
  BY WormholeAssumption, FS_Interval DEF Indices
<1>4. Signers(m) \in SUBSET Indices
  BY <1>1 DEF Signers
<1>5. IsFiniteSet(Signers(m))
  BY <1>3, <1>4, FS_Subset
<1>6. f \in Injection(1 .. n, Signers(m))
  <2>1. f \in [1 .. n -> Signers(m)]
    BY <1>1 DEF Signers
  <2>2. \A i, j \in 1 .. n : f[i] = f[j] => i = j
    <3>1. \A i \in 1 .. n : f[i] \in Nat
      BY <1>1, WormholeAssumption DEF Indices
    <3> HIDE DEF f, n
    <3> QED BY <1>1, <1>2, <3>1
  <2> HIDE DEF f, n
  <2> QED BY <2>1, <2>2 DEF Injection, IsInjective
<1>7. Cardinality(1 .. n) <= Cardinality(Signers(m))
  <2> HIDE DEF f, n
  <2> QED BY <1>5, <1>6, FS_Injection
<1>8. Cardinality(1 .. n) = n
  <2> HIDE DEF n
  <2> QED BY <1>1, FS_Interval
<1>9. Cardinality(Signers(m)) \in Nat /\ Quorum \in Int
  BY <1>5, FS_CardinalityType, WormholeAssumption DEF Quorum
<1> HIDE DEF n
<1> QED BY <1>1, <1>4, <1>5, <1>7, <1>8, <1>9

WormholeInv == WormholeTypeOK /\ LinksAreAttested

LEMMA ExtractWormhole ==
  ASSUME WormholeInv, NEW m \in Messages, Extract(m)
  PROVE  WormholeInv'
<1>1. ~m.ok \/ m.set \in 1 .. MaxSets
  BY DEF Messages
<1>2. m.ok \in BOOLEAN /\ m.emitter \in Emitters \cup {""}
  BY DEF Messages
<1> DEFINE passed == m.ok /\ (m.emitter = "" \/ Verified(m))
           new == [emitter |-> m.emitter, set |-> m.set, by |-> Signers(m)]
<1>3. CASE passed /\ m.emitter # ""
  <2>1. link' = link \cup {new} /\ rejected' = rejected /\ UNCHANGED <<set, signed>>
    BY <1>3 DEF Extract
  <2>2. Verified(m) /\ m.set \in 1 .. MaxSets /\ m.emitter \in Emitters
    BY <1>1, <1>2, <1>3
  <2>3. Signers(m) \subseteq Indices /\ Cardinality(Signers(m)) >= Quorum
    BY <2>2, SignersAreDistinct
  <2>4. \A g \in Signers(m) \ Faulty : [set |-> m.set, emitter |-> m.emitter, index |-> g] \in signed
    BY <2>2 DEF Extract, Possible, Verified, Signers
  <2>5. WormholeTypeOK'
    <3>1. new \in [emitter : Emitters, set : 1 .. MaxSets, by : SUBSET Indices]
      BY <2>2, <2>3
    <3> HIDE DEF new
    <3> QED BY <2>1, <3>1 DEF WormholeInv, WormholeTypeOK
  <2>6. LinksAreAttested'
    <3>1. /\ new.by = Signers(m) /\ new.set = m.set /\ new.emitter = m.emitter
      OBVIOUS
    <3> HIDE DEF new
    <3> SUFFICES ASSUME NEW l \in link'
                 PROVE  /\ Cardinality(l.by) >= Quorum
                        /\ \A g \in l.by \ Faulty :
                             [set |-> l.set, emitter |-> l.emitter, index |-> g] \in signed
      BY <2>1 DEF WormholeInv, LinksAreAttested, Quorum
    <3> QED BY <2>1, <2>3, <2>4, <3>1 DEF WormholeInv, LinksAreAttested
  <2> QED BY <2>5, <2>6 DEF WormholeInv
<1>4. CASE ~(passed /\ m.emitter # "")
  <2> DEFINE defect == [ok |-> m.ok, emitter |-> m.emitter]
  <2>1. link' = link /\ UNCHANGED <<set, signed>>
    BY <1>4 DEF Extract
  <2>2. rejected' = rejected \cup (IF passed THEN {} ELSE {defect})
    BY DEF Extract
  <2>3. defect \in [ok : BOOLEAN, emitter : Emitters \cup {""}]
    BY <1>2
  <2>4. ~passed /\ defect.ok => defect.emitter # ""
    OBVIOUS
  <2> HIDE DEF defect, passed
  <2>5. WormholeTypeOK'
    BY <2>1, <2>2, <2>3 DEF WormholeInv, WormholeTypeOK
  <2>6. LinksAreAttested'
    BY <2>1, <2>2, <2>4 DEF WormholeInv, LinksAreAttested, Quorum
  <2> QED BY <2>5, <2>6 DEF WormholeInv
<1> QED BY <1>3, <1>4

LEMMA WormholeStep == ASSUME WormholeInv, [WormholeNext]_wormholeVars PROVE WormholeInv'
<1>1. CASE UNCHANGED wormholeVars
  BY <1>1 DEF wormholeVars, WormholeInv, WormholeTypeOK, LinksAreAttested
<1>2. CASE NewGuardianSet
  <2>1. set' \in 0 .. MaxSets
    <3>1. set \in 0 .. MaxSets /\ set < MaxSets /\ set' = set + 1
      BY <1>2 DEF NewGuardianSet, WormholeInv, WormholeTypeOK
    <3> QED BY <3>1, WormholeAssumption
  <2>2. UNCHANGED <<signed, link, rejected>>
    BY <1>2 DEF NewGuardianSet
  <2> QED BY <2>1, <2>2 DEF WormholeInv, WormholeTypeOK, LinksAreAttested
<1>3. ASSUME NEW g \in Indices, NEW k \in 1 .. MaxSets, NEW e \in Emitters, Observe(g, k, e)
      PROVE  WormholeInv'
  BY <1>3 DEF Observe, WormholeInv, WormholeTypeOK, LinksAreAttested
<1> QED BY <1>1, <1>2, <1>3, ExtractWormhole DEF WormholeNext

(* A returned account was attested by a quorum of distinct guardians, of   *)
(* whom every honest one saw that transfer, for any number of guardians    *)
(* and faulty ones, and a message of another chain is never quarantined    *)
(* (verify_vaa, _extract_stellar_address_from_vaa).                        *)
THEOREM LinksAlwaysAttested == WormholeSpec => [](WormholeTypeOK /\ LinksAreAttested)
<1>1. WormholeInit => WormholeInv
  BY WormholeAssumption DEF WormholeInit, WormholeInv, WormholeTypeOK, LinksAreAttested
<1>2. WormholeInv /\ [WormholeNext]_wormholeVars => WormholeInv'
  BY WormholeStep
<1>3. WormholeInv => WormholeTypeOK /\ LinksAreAttested
  BY DEF WormholeInv
<1> QED BY <1>1, <1>2, <1>3, PTL DEF WormholeSpec

-----------------------------------------------------------------------------
(* Links.  The likelihoods are small integers, so the two thresholds are   *)
(* linear facts about the number of changes of direction.                  *)

LEMMA AbsNat == ASSUME NEW n \in Int PROVE Abs(n) \in Nat
  BY DEF Abs

LEMMA EventType ==
  ASSUME NEW ev \in Seq(Transfer), NEW i \in DOMAIN ev
  PROVE  ev[i].at \in Nat /\ ev[i].usd \in Nat /\ ev[i].dir \in Directions /\ ev[i].evm \in Evms
<1>1. ev[i] \in Transfer
  OBVIOUS
<1>2. ev[i].at \in 0 .. LinkMaxTime /\ ev[i].usd \in Amounts /\ ev[i].dir \in Directions /\ ev[i].evm \in Evms
  BY <1>1 DEF Transfer
<1>3. ev[i].at \in Nat
  BY <1>2, LinkAssumption
<1>4. ev[i].usd \in Nat
  BY <1>2, LinkAssumption
<1> QED BY <1>2, <1>3, <1>4

\* Sorting by time lists the events themselves.
LEMMA SortedAreEvents ==
  ASSUME NEW ev \in Seq(Transfer), NEW k \in DOMAIN ev
  PROVE  \E i \in DOMAIN ev : ByTime(ev)[k] = ev[i]
<1> DEFINE I == DOMAIN ev
           R == {p \in I \X I : IF ev[p[1]].at = ev[p[2]].at THEN p[1] < p[2]
                               ELSE ev[p[1]].at < ev[p[2]].at}
<1>1. I = 1 .. Len(ev) /\ Len(ev) \in Nat
  OBVIOUS
<1>2. IsFiniteSet(I) /\ Cardinality(I) = Len(ev)
  <2> DEFINE n == Len(ev)
  <2>1. n \in Nat /\ 1 \in Int /\ n \in Int /\ I = 1 .. n
    BY <1>1
  <2> HIDE DEF I, n
  <2>2. IsFiniteSet(1 .. n) /\ Cardinality(1 .. n) = n
    BY <2>1, FS_Interval
  <2> QED BY <2>1, <2>2 DEF n
<1>3. \A i \in I : i \in Nat /\ ev[i].at \in Nat
  BY <1>1, EventType
<1>4. \A i, j \in I : <<i, j>> \in R <=> IF ev[i].at = ev[j].at THEN i < j ELSE ev[i].at < ev[j].at
  OBVIOUS
<1>5. Ranked(I, R)[k] \in I
  <2>1. R \in SUBSET (I \X I)
    OBVIOUS
  <2> HIDE DEF R
  <2>2. \A i \in I : <<i, i>> \notin R
    BY <1>3, <1>4
  <2>3. \A i, j, l \in I : <<i, j>> \in R /\ <<j, l>> \in R => <<i, l>> \in R
    <3> SUFFICES ASSUME NEW i \in I, NEW j \in I, NEW l \in I, <<i, j>> \in R, <<j, l>> \in R
                 PROVE  <<i, l>> \in R
      OBVIOUS
    <3>1. /\ i \in Nat /\ j \in Nat /\ l \in Nat
          /\ ev[i].at \in Nat /\ ev[j].at \in Nat /\ ev[l].at \in Nat
      BY <1>3
    <3>2. IF ev[i].at = ev[j].at THEN i < j ELSE ev[i].at < ev[j].at
      BY <1>4
    <3>3. IF ev[j].at = ev[l].at THEN j < l ELSE ev[j].at < ev[l].at
      BY <1>4
    <3>4. IF ev[i].at = ev[l].at THEN i < l ELSE ev[i].at < ev[l].at
      BY <3>1, <3>2, <3>3
    <3> QED BY <1>4, <3>4
  <2>4. \A i, j \in I : i = j \/ <<i, j>> \in R \/ <<j, i>> \in R
    <3> SUFFICES ASSUME NEW i \in I, NEW j \in I, i # j PROVE <<i, j>> \in R \/ <<j, i>> \in R
      OBVIOUS
    <3>1. i \in Nat /\ j \in Nat /\ ev[i].at \in Nat /\ ev[j].at \in Nat
      BY <1>3
    <3>2. \/ IF ev[i].at = ev[j].at THEN i < j ELSE ev[i].at < ev[j].at
          \/ IF ev[j].at = ev[i].at THEN j < i ELSE ev[j].at < ev[i].at
      BY <3>1
    <3> QED BY <1>4, <3>2
  <2>5. k \in 1 .. Cardinality(I)
    BY <1>1, <1>2
  <2> HIDE DEF I
  <2> QED BY <1>2, <2>1, <2>2, <2>3, <2>4, <2>5, RankedLists
<1>6. ByTime(ev)[k] = ev[Ranked(I, R)[k]]
  BY DEF ByTime
<1> QED BY <1>5, <1>6

\* With at least two events, some of which may differ in direction.
LEMMA DirectionBounds ==
  ASSUME NEW ev \in Seq(Transfer)
  PROVE  \E max \in Nat \ {0} : \E t \in 0 .. max :
            /\ DirectionLr(ev) = <<max + 4 * t, max>>
            /\ Opposite(ev) = {} => t = 0
<1> DEFINE s == ByTime(ev)
           max == Len(ev) - 1
           D == {k \in 2 .. Len(ev) : s[k].dir # s[k - 1].dir}
<1>1. Len(ev) \in Nat /\ DOMAIN ev = 1 .. Len(ev)
  OBVIOUS
<1>2. CASE max <= 0
  <2>1. DirectionLr(ev) = <<1, 1>>
    BY <1>2 DEF DirectionLr
  <2> QED BY <2>1
<1>3. CASE max > 0
  <2>1. max \in Nat \ {0}
    BY <1>1, <1>3
  <2>2. DirectionLr(ev) = <<max + 4 * Cardinality(D), max>>
    BY <1>1, <1>3 DEF DirectionLr
  <2>3. IsFiniteSet(2 .. Len(ev)) /\ Cardinality(2 .. Len(ev)) = max
    BY <1>1, <1>3, FS_Interval
  <2>4. Cardinality(D) \in 0 .. max
    <3>1. D \in SUBSET (2 .. Len(ev))
      OBVIOUS
    <3> HIDE DEF D
    <3>2. IsFiniteSet(D) /\ Cardinality(D) <= max
      BY <2>3, <3>1, FS_Subset
    <3> QED BY <2>1, <3>2, FS_CardinalityType
  <2>5. ASSUME Opposite(ev) = {} PROVE Cardinality(D) = 0
    <3>1. \A i, j \in DOMAIN ev : ev[i].dir = ev[j].dir
      <4> SUFFICES ASSUME NEW i \in DOMAIN ev, NEW j \in DOMAIN ev, ev[i].dir # ev[j].dir
                   PROVE  FALSE
        OBVIOUS
      <4>1. i \in Nat /\ j \in Nat /\ i # j
        BY <1>1
      <4>2. <<i, j>> \in Opposite(ev) \/ <<j, i>> \in Opposite(ev)
        BY <4>1 DEF Opposite
      <4> QED BY <2>5, <4>2
    <3>2. \A k \in 2 .. Len(ev) : s[k].dir = s[k - 1].dir
      <4> SUFFICES ASSUME NEW k \in 2 .. Len(ev) PROVE s[k].dir = s[k - 1].dir
        OBVIOUS
      <4>1. k \in DOMAIN ev /\ k - 1 \in DOMAIN ev
        BY <1>1
      <4>2. PICK i \in DOMAIN ev : s[k] = ev[i]
        BY <4>1, SortedAreEvents
      <4>3. PICK j \in DOMAIN ev : s[k - 1] = ev[j]
        BY <4>1, SortedAreEvents
      <4> QED BY <3>1, <4>2, <4>3
    <3>3. D = {}
      BY <3>2
    <3> QED BY <3>3, FS_EmptySet
  <2> HIDE DEF max, D
  <2> QED BY <2>1, <2>2, <2>4, <2>5
<1>4. max <= 0 \/ max > 0
  BY <1>1
<1> QED BY <1>2, <1>3, <1>4

LEMMA TimingValues ==
  ASSUME NEW ev \in Seq(Transfer)
  PROVE  /\ TimingLr(ev) \in {0, 10, 12, 36000}
         /\ TimingLr(ev) = 10 <=> Opposite(ev) = {}
         /\ TimingLr(ev) \in {12, 36000} => Near(ev) # {}
         /\ TimingLr(ev) = 36000 => Strong(ev) # {}
<1> DEFINE Delta(p) == Abs(ev[p[1]].at - ev[p[2]].at)
<1>1. TimingLr(ev) = IF Opposite(ev) = {} THEN 10
                     ELSE IF \E p \in Opposite(ev) : Delta(p) = 0 THEN 36000
                     ELSE IF \E p \in Opposite(ev) : Delta(p) = 1 THEN 12 ELSE 0
  BY DEF TimingLr
<1>2. \A p \in Opposite(ev) : Delta(p) \in {0, 1} => p \in Near(ev)
  BY DEF Opposite, Near
<1>3. \A p \in Opposite(ev) : Delta(p) = 0 => p \in Strong(ev)
  <2> SUFFICES ASSUME NEW p \in Opposite(ev), Delta(p) = 0 PROVE p \in Strong(ev)
    OBVIOUS
  <2>1. /\ p \in (DOMAIN ev) \X (DOMAIN ev) /\ ev[p[1]].dir # ev[p[2]].dir
    BY DEF Opposite
  <2>2. ev[p[1]].at \in Nat /\ ev[p[2]].at \in Nat
    BY <2>1, EventType
  <2>3. ev[p[1]].at = ev[p[2]].at
    BY <2>2 DEF Abs
  <2> QED BY <2>1, <2>3 DEF Strong
<1> HIDE DEF Delta
<1>4. \A p \in Opposite(ev) : Delta(p) = 0 => p \in Near(ev)
  BY <1>2
<1> QED BY <1>1, <1>2, <1>3, <1>4

LEMMA AmountValues ==
  ASSUME NEW ev \in Seq(Transfer)
  PROVE  /\ AmountLr(ev) \in {1, 10}
         /\ AmountLr(ev) = 10 => Opposite(ev) # {} /\ Strong(ev) # {}
<1>1. ASSUME NEW p \in Opposite(ev), ev[p[1]].usd > 0, ev[p[2]].usd > 0,
             200 * Abs(ev[p[1]].usd - ev[p[2]].usd) <= ev[p[1]].usd
      PROVE  p \in Strong(ev)
  BY <1>1 DEF Opposite, Strong
<1> QED BY <1>1 DEF AmountLr

\* A hypothesis is kept only on two opposite transfers close in time, and
\* confirmed only on equal times, matching amounts or a matching suffix.
LEMMA ScoreNeedsEvidence ==
  ASSUME NEW ev \in Seq(Transfer), NEW evm
  PROVE  /\ ScoreHypothesis(evm, ev) \in {"confirmed", "probable", "rejected"}
         /\ ScoreHypothesis(evm, ev) # "rejected" => Near(ev) # {}
         /\ ScoreHypothesis(evm, ev) = "confirmed" => Strong(ev) # {} \/ evm \in SameSuffix
<1>1. ScoreHypothesis(evm, ev) \in {"confirmed", "probable", "rejected"}
  BY DEF ScoreHypothesis, Classify
<1>0. PICK max \in Nat \ {0} : \E t \in 0 .. max :
         DirectionLr(ev) = <<max + 4 * t, max>> /\ (Opposite(ev) = {} => t = 0)
  BY DirectionBounds
<1>2. PICK t \in 0 .. max :
         DirectionLr(ev) = <<max + 4 * t, max>> /\ (Opposite(ev) = {} => t = 0)
  BY <1>0
<1> DEFINE T == TimingLr(ev)
           A == AmountLr(ev)
           W == AddressLr(evm)
           top == T * A * (max + 4 * t) * W
           bottom == 20 * max
<1>3. T \in {0, 10, 12, 36000} /\ A \in {1, 10} /\ W \in {2, 3}
  BY TimingValues, AmountValues DEF AddressLr
<1>4. LikelihoodTop(evm, ev) = top /\ LikelihoodBottom(ev) = bottom
  BY <1>2 DEF LikelihoodTop, LikelihoodBottom
<1>5. ASSUME ScoreHypothesis(evm, ev) # "rejected" PROVE 3 * top >= 7 * bottom
  <2>1. 9 * bottom <= top \/ 7 * bottom <= 3 * top
    BY <1>4, <1>5 DEF ScoreHypothesis, Classify
  <2>2. top \in Int /\ bottom \in Nat
    BY <1>2, <1>3
  <2> HIDE DEF top, bottom
  <2> QED BY <2>1, <2>2
<1>6. ASSUME ScoreHypothesis(evm, ev) = "confirmed" PROVE top >= 9 * bottom
  BY <1>4, <1>6 DEF ScoreHypothesis, Classify
<1>7. T = 10 => A = 1 /\ t = 0
  BY <1>2, <1>3, TimingValues, AmountValues
<1>8. ScoreHypothesis(evm, ev) # "rejected" => T \in {12, 36000}
  <2> SUFFICES ASSUME ScoreHypothesis(evm, ev) # "rejected", T \in {0, 10} PROVE FALSE
    BY <1>3
  <2>1. 3 * top >= 7 * bottom
    BY <1>5
  <2>2. CASE T = 0
    <3>1. top = 0
      BY <1>2, <1>3, <2>2
    <3> QED BY <1>2, <2>1, <3>1
  <2>3. CASE T = 10
    <3>1. top = 20 * max \/ top = 30 * max
      BY <1>2, <1>3, <1>7, <2>3
    <3> QED BY <1>2, <2>1, <3>1
  <2> QED BY <2>2, <2>3
<1>9. ScoreHypothesis(evm, ev) = "confirmed" => T = 36000 \/ A = 10 \/ W = 3
  <2> SUFFICES ASSUME ScoreHypothesis(evm, ev) = "confirmed", T = 12, A = 1, W = 2 PROVE FALSE
    BY <1>3, <1>8
  <2>1. top >= 9 * bottom
    BY <1>6
  <2>2. top = 24 * max + 96 * t
    BY <1>2
  <2> QED BY <1>2, <2>1, <2>2
<1>10. W = 3 => evm \in SameSuffix
  BY DEF AddressLr
<1> HIDE DEF T, A, W
<1>11. (T \in {12, 36000} => Near(ev) # {}) /\ (T = 36000 => Strong(ev) # {}) /\ (A = 10 => Strong(ev) # {})
  BY TimingValues, AmountValues DEF T, A
<1> QED BY <1>1, <1>8, <1>9, <1>10, <1>11

Statuses == {"probable", "confirmed"}
Hypotheses == [at : {"idle", "persist"}, evm : Evms \cup {"none"}, events : Seq(Transfer)]

LinkTypes ==
    /\ table \in Seq(Transfer) /\ linkNow \in 0 .. LinkMaxTime
    /\ links \subseteq [evm : Evms, status : Statuses, near : BOOLEAN, strong : BOOLEAN]
    /\ scorer \in [Scorers -> Hypotheses]
    /\ \A p \in Scorers : scorer[p].at = "persist" => scorer[p].evm \in Evms

Evidence ==
    /\ \A l, k \in links : l.evm = k.evm => l = k
    /\ \A l \in links : l.near /\ (l.status = "confirmed" => l.strong \/ l.evm \in SameSuffix)

LinkInv == LinkTypes /\ Evidence

\* What a query reads is a sequence of transfers.
LEMMA ReadsTransfers ==
  ASSUME LinkTypes, NEW evm
  PROVE  /\ GetBridgeTransfers(evm) \in Seq(Transfer)
         /\ Recent(evm) # {} => GetBridgeTransfers(evm) # <<>>
<1> DEFINE I == Recent(evm)
           R == {p \in I \X I : p[1] > p[2]}
           n == Cardinality(I)
<1>1. I \subseteq Nat /\ \A i \in I : table[i] \in Transfer
  BY DEF LinkTypes, Recent
<1>2. IsFiniteSet(I)
  <2>1. DOMAIN table = 1 .. Len(table) /\ 1 \in Int /\ Len(table) \in Int
    BY DEF LinkTypes
  <2>2. IsFiniteSet(DOMAIN table)
    BY <2>1, FS_Interval
  <2>3. I \in SUBSET (DOMAIN table)
    BY DEF Recent
  <2> QED BY <2>2, <2>3, FS_Subset
<1>3. n \in Nat /\ (I # {} => n # 0)
  BY <1>2, FS_CardinalityType, FS_EmptySet
<1>4. \A k \in 1 .. n : Ranked(I, R)[k] \in I
  <2> SUFFICES ASSUME NEW k \in 1 .. n PROVE Ranked(I, R)[k] \in I
    OBVIOUS
  <2>1. R \in SUBSET (I \X I) /\ \A i, j \in I : <<i, j>> \in R <=> i > j
    OBVIOUS
  <2> HIDE DEF I, R
  <2>2. \A i \in I : <<i, i>> \notin R
    BY <1>1, <2>1
  <2>3. \A i, j, l \in I : <<i, j>> \in R /\ <<j, l>> \in R => <<i, l>> \in R
    <3> SUFFICES ASSUME NEW i \in I, NEW j \in I, NEW l \in I, <<i, j>> \in R, <<j, l>> \in R
                 PROVE  <<i, l>> \in R
      OBVIOUS
    <3>1. i \in Nat /\ j \in Nat /\ l \in Nat /\ i > j /\ j > l
      BY <1>1, <2>1
    <3> QED BY <2>1, <3>1
  <2>4. \A i, j \in I : i = j \/ <<i, j>> \in R \/ <<j, i>> \in R
    <3> SUFFICES ASSUME NEW i \in I, NEW j \in I, i # j PROVE <<i, j>> \in R \/ <<j, i>> \in R
      OBVIOUS
    <3>1. i > j \/ j > i
      BY <1>1
    <3> QED BY <2>1, <3>1
  <2> QED BY <1>2, <2>1, <2>2, <2>3, <2>4, RankedLists
<1>5. GetBridgeTransfers(evm) = [k \in 1 .. n |-> table[Ranked(I, R)[k]]]
  BY DEF GetBridgeTransfers
<1> HIDE DEF I, R, n
<1>6. GetBridgeTransfers(evm) \in [1 .. n -> Transfer]
  BY <1>1, <1>4, <1>5
<1>7. GetBridgeTransfers(evm) \in Seq(Transfer)
  BY <1>3, <1>6
<1>8. DOMAIN GetBridgeTransfers(evm) = 1 .. n
  BY <1>6
<1>9. I # {} => GetBridgeTransfers(evm) # <<>>
  BY <1>3, <1>8
<1> QED BY <1>7, <1>9 DEF I

LEMMA PersistLink ==
  ASSUME LinkInv, NEW p \in Scorers, PersistHypothesis(p)
  PROVE  LinkInv'
<1> DEFINE evm == scorer[p].evm
           ev == scorer[p].events
           status == ScoreHypothesis(evm, ev)
           new == [evm |-> evm, status |-> status, near |-> Near(ev) # {}, strong |-> Strong(ev) # {}]
<1>1. /\ scorer[p].at = "persist"
      /\ links' = IF status = "rejected" THEN links
                  ELSE {l \in links : l.evm # evm} \cup {new}
      /\ scorer' = [scorer EXCEPT ![p] = Resting]
      /\ UNCHANGED <<table, linkNow, retracts>>
  BY DEF PersistHypothesis
<1>2. LinkTypes /\ Evidence
  BY DEF LinkInv
<1>3. evm \in Evms /\ ev \in Seq(Transfer)
  BY <1>1, <1>2 DEF LinkTypes, Hypotheses
<1>4. status # "rejected" => /\ status \in Statuses /\ Near(ev) # {}
                             /\ status = "confirmed" => Strong(ev) # {} \/ evm \in SameSuffix
  BY <1>3, ScoreNeedsEvidence DEF Statuses
<1>5. Resting \in Hypotheses /\ Resting.at = "idle"
  BY DEF Resting, Hypotheses
<1>6. new.evm = evm /\ new.status = status /\ new.near = (Near(ev) # {}) /\ new.strong = (Strong(ev) # {})
  OBVIOUS
<1>7. status # "rejected" => new \in [evm : Evms, status : Statuses, near : BOOLEAN, strong : BOOLEAN]
  BY <1>3, <1>4
<1> HIDE DEF new, status, ev, evm
<1>8. LinkTypes'
  <2>1. scorer' \in [Scorers -> Hypotheses]
    BY <1>1, <1>2, <1>5 DEF LinkTypes
  <2>2. \A q \in Scorers : scorer'[q].at = "persist" => scorer'[q].evm \in Evms
    BY <1>1, <1>2, <1>5 DEF LinkTypes
  <2>3. links' \subseteq [evm : Evms, status : Statuses, near : BOOLEAN, strong : BOOLEAN]
    BY <1>1, <1>2, <1>7 DEF LinkTypes
  <2> QED BY <1>1, <1>2, <2>1, <2>2, <2>3 DEF LinkTypes
<1>9. Evidence'
  <2>1. CASE status = "rejected"
    BY <1>1, <1>2, <2>1 DEF Evidence
  <2>2. CASE status # "rejected"
    <3>1. links' = {l \in links : l.evm # evm} \cup {new}
      BY <1>1, <2>2
    <3>2. \A l, k \in links' : l.evm = k.evm => l = k
      BY <1>2, <1>6, <3>1 DEF Evidence
    <3>3. new.near /\ (new.status = "confirmed" => new.strong \/ new.evm \in SameSuffix)
      BY <1>4, <1>6, <2>2
    <3>4. \A l \in links' : l.near /\ (l.status = "confirmed" => l.strong \/ l.evm \in SameSuffix)
      BY <1>2, <3>1, <3>3 DEF Evidence
    <3> QED BY <3>2, <3>4 DEF Evidence
  <2> QED BY <2>1, <2>2
<1> QED BY <1>8, <1>9 DEF LinkInv

LEMMA LinkStep == ASSUME LinkInv, [LinkNext]_linkVars PROVE LinkInv'
<1> USE DEF LinkInv
<1>1. CASE UNCHANGED linkVars
  BY <1>1 DEF linkVars, LinkTypes, Evidence
<1>2. ASSUME NEW e \in Evms, NEW d \in Directions, NEW a \in Amounts, SaveBridgeTransfer(e, d, a)
      PROVE  LinkInv'
  <2>1. [evm |-> e, dir |-> d, usd |-> a, at |-> linkNow] \in Transfer
    BY DEF LinkTypes, Transfer
  <2>2. table' \in Seq(Transfer)
    BY <1>2, <2>1 DEF SaveBridgeTransfer, LinkTypes
  <2> QED BY <1>2, <2>2 DEF SaveBridgeTransfer, LinkTypes, Evidence
<1>3. ASSUME NEW i \in DOMAIN table, RetractBridgeTransfers(i) PROVE LinkInv'
  <2>1. table \in Seq(Transfer) /\ Len(table) \in Nat /\ DOMAIN table = 1 .. Len(table) /\ Len(table) - 1 \in Nat
    BY <1>3 DEF LinkTypes
  <2>2. table' = [k \in 1 .. Len(table) - 1 |-> IF k < i THEN table[k] ELSE table[k + 1]]
    BY <1>3 DEF RetractBridgeTransfers
  <2>3. \A k \in 1 .. Len(table) - 1 : table'[k] \in Transfer
    BY <2>1, <2>2
  <2>4. table' \in [1 .. Len(table) - 1 -> Transfer]
    BY <2>2, <2>3
  <2>5. table' \in Seq(Transfer)
    BY <2>1, <2>4
  <2> QED BY <1>3, <2>5 DEF RetractBridgeTransfers, LinkTypes, Evidence
<1>4. ASSUME NEW p \in Scorers, NEW e \in Evms, ReadEvents(p, e) PROVE LinkInv'
  <2>1. [at |-> "persist", evm |-> e, events |-> GetBridgeTransfers(e)] \in Hypotheses
    BY ReadsTransfers DEF Hypotheses
  <2>2. scorer' = [scorer EXCEPT ![p] = [at |-> "persist", evm |-> e, events |-> GetBridgeTransfers(e)]]
    BY <1>4 DEF ReadEvents
  <2>3. scorer' \in [Scorers -> Hypotheses]
    BY <2>1, <2>2 DEF LinkTypes
  <2>4. \A q \in Scorers : scorer'[q].at = "persist" => scorer'[q].evm \in Evms
    BY <2>2 DEF LinkTypes
  <2> QED BY <1>4, <2>3, <2>4 DEF ReadEvents, LinkTypes, Evidence
<1>5. ASSUME NEW p \in Scorers, PersistHypothesis(p) PROVE LinkInv'
  BY <1>5, PersistLink
<1>6. CASE LinkTick
  BY <1>6, LinkAssumption DEF LinkTick, LinkTypes, Evidence
<1> QED BY <1>1, <1>2, <1>3, <1>4, <1>5, <1>6 DEF LinkNext

\* What the correlator pairs, the linker counts: in every state.
LEMMA PairsAreCounted ==
  ASSUME LinkTypes, NEW p \in MatchRoundTrips
  PROVE  p[2] \in RoundTripsCounted /\ table[p[2]].evm \in LinkWallets
<1> DEFINE o == p[1]
           i == p[2]
<1>1. /\ o \in DOMAIN table /\ i \in DOMAIN table
      /\ table[o].dir = "stellar_to_evm" /\ table[i].dir = "evm_to_stellar"
      /\ table[o].evm = table[i].evm
      /\ table[o].at >= linkNow - LinkLookback /\ table[i].at >= linkNow - LinkLookback
      /\ table[i].at >= table[o].at /\ table[i].at - table[o].at <= TripWindow
  BY DEF MatchRoundTrips
<1>2. table[o].at \in Nat /\ table[i].at \in Nat /\ table[i].evm \in Evms
  BY <1>1, EventType DEF LinkTypes
<1> HIDE DEF o, i
<1>3. Abs(table[o].at - table[i].at) <= TripWindow
  BY <1>1, <1>2 DEF Abs
<1>4. i \in RoundTripsCounted
  <2>1. /\ table[o].dir = "stellar_to_evm" /\ table[o].evm = table[i].evm
        /\ table[o].at >= linkNow - LinkLookback
        /\ Abs(table[o].at - table[i].at) <= TripWindow
    BY <1>1, <1>3
  <2>2. \E x \in DOMAIN table :
          /\ table[x].dir = "stellar_to_evm" /\ table[x].evm = table[i].evm
          /\ table[x].at >= linkNow - LinkLookback
          /\ Abs(table[x].at - table[i].at) <= TripWindow
    BY <1>1, <2>1
  <2>3. i \in DOMAIN table /\ table[i].dir = "evm_to_stellar" /\ table[i].at >= linkNow - LinkLookback
    BY <1>1
  <2> QED BY <2>2, <2>3 DEF RoundTripsCounted
<1>5. i \in Recent(table[i].evm)
  BY <1>1 DEF Recent
<1>6. table[i].evm \in LinkWallets
  BY <1>2, <1>5, ReadsTransfers DEF LinkWallets
<1> QED BY <1>4, <1>6 DEF i

LEMMA LinkInvImplies == LinkInv => LinkTypeOK /\ LinksHaveEvidence
<1> SUFFICES ASSUME LinkInv PROVE LinkTypeOK /\ LinksHaveEvidence
  OBVIOUS
<1>1. LinkTypeOK
  BY DEF LinkInv, LinkTypes, LinkTypeOK, Hypotheses, Statuses
<1>2. {p[2] : p \in MatchRoundTrips} \subseteq RoundTripsCounted
  BY PairsAreCounted DEF LinkInv
<1>3. \A p \in MatchRoundTrips : table[p[2]].evm \in LinkWallets
  BY PairsAreCounted DEF LinkInv
<1> QED BY <1>1, <1>2, <1>3 DEF LinkInv, Evidence, LinksHaveEvidence

(* For any amounts, look-back and bounds: a pair of wallets is linked only *)
(* on two opposite transfers close in time, confirmed only on equal times, *)
(* matching amounts or a matching suffix, and the correlator's round trips *)
(* are among those the linker counts (score_hypothesis, persist_link,      *)
(* match_round_trips).                                                     *)
THEOREM LinksAlwaysEvident == LinkSpec => [](LinkTypeOK /\ LinksHaveEvidence)
<1>1. LinkInit => LinkInv
  <2> SUFFICES ASSUME LinkInit PROVE LinkInv
    OBVIOUS
  <2>1. table \in Seq(Transfer) /\ linkNow \in 0 .. LinkMaxTime /\ links = {}
    BY LinkAssumption DEF LinkInit
  <2>2. Resting \in Hypotheses /\ Resting.at = "idle"
    BY DEF Resting, Hypotheses
  <2>3. scorer = [p \in Scorers |-> Resting]
    BY DEF LinkInit
  <2> QED BY <2>1, <2>2, <2>3 DEF LinkInv, LinkTypes, Evidence
<1>2. LinkInv /\ [LinkNext]_linkVars => LinkInv'
  BY LinkStep
<1> QED BY <1>1, <1>2, LinkInvImplies, PTL DEF LinkSpec

-----------------------------------------------------------------------------
(* The three parts run side by side over separate state, so the property   *)
(* of the whole holds of their composition.                                *)
THEOREM BridgesAlwaysTracked ==
  BridgeSpec /\ WormholeSpec /\ LinkSpec => []BridgesAreTracked
<1>1. (BridgeTypeOK /\ OrphansAreTracked) /\ (WormholeTypeOK /\ LinksAreAttested)
      /\ (LinkTypeOK /\ LinksHaveEvidence) => BridgesAreTracked
  BY DEF BridgesAreTracked
<1> QED BY <1>1, OrphansAlwaysTracked, LinksAlwaysAttested, LinksAlwaysEvident, PTL

=============================================================================
