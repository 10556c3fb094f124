------------------------- MODULE OracleQuorumProofs -------------------------
(***************************************************************************)
(* Quorums of any oracle set.  The fault model of both docstrings is       *)
(* n = 3f + 1: with it two quorums of 2f + 1 reports share an honest node, *)
(* which reports one score, so coordinators never accept two values,       *)
(* whatever the f faulty nodes tell each of them and whatever is lost.     *)
(*                                                                         *)
(* The strict majority of BFTQuorumAggregator is smaller than a quorum     *)
(* from seven nodes on; it has that guarantee where two majorities share   *)
(* more than f nodes, as they do in a set of four.                         *)
(***************************************************************************)
EXTENDS OracleQuorum, FiniteSetTheorems, TLAPS

\* "n total nodes, f = (n - 1) // 3 tolerated": the sizes the docstrings name.
ThreeFPlusOne == Cardinality(Nodes) = 3 * ToleratedFaults + 1

\* Any two of these share more than f nodes.
QuorumsOverlap == 2 * RequiredQuorum > Cardinality(Nodes) + ToleratedFaults
MajoritiesOverlap == 2 * Majority > Cardinality(Nodes) + ToleratedFaults

\* What an honest node has told anybody is its score.
HonestIsConsistent ==
    \A c \in Coordinators, n \in Honest : heard[c][n] \in {NoValue, scored[n]}

\* A value is accepted on a quorum, and the slashed reported something else.
AcceptedHasQuorum ==
    \A c \in Coordinators :
        /\ value[c] # NoValue => Cardinality(Reporting(c, value[c])) >= RequiredQuorum
        /\ \A n \in slashed[c] : value[c] # NoValue /\ heard[c][n] \notin {value[c], NoValue}

IInv == TypeOK /\ HonestIsConsistent /\ AcceptedHasQuorum
-----------------------------------------------------------------------------
(* Counting.                                                               *)

\* Two sets of nodes with more than n + f members between them share a node
\* that is not faulty.
LEMMA OverlapHasHonest ==
  ASSUME NEW A \in SUBSET Nodes, NEW B \in SUBSET Nodes,
         Cardinality(Faulty) <= ToleratedFaults,
         Cardinality(A) + Cardinality(B) > Cardinality(Nodes) + ToleratedFaults
  PROVE  \E n \in Honest : n \in A \cap B
<1>1. /\ IsFiniteSet(Nodes) /\ IsFiniteSet(Faulty) /\ IsFiniteSet(A) /\ IsFiniteSet(B)
      /\ IsFiniteSet(A \cap B) /\ IsFiniteSet(A \cup B)
  BY OracleAssumption, FS_Subset, FS_Union, FS_Intersection
<1>2. /\ Cardinality(Nodes) \in Nat /\ Cardinality(Faulty) \in Nat /\ Cardinality(A) \in Nat
      /\ Cardinality(B) \in Nat /\ Cardinality(A \cap B) \in Nat
  BY <1>1, FS_CardinalityType
<1>3. Cardinality(A \cup B) = Cardinality(A) + Cardinality(B) - Cardinality(A \cap B)
  BY <1>1, FS_Union
<1>4. Cardinality(A \cup B) <= Cardinality(Nodes)
  BY <1>1, FS_Subset
<1>5. ToleratedFaults \in Int
  BY <1>2 DEF ToleratedFaults
<1>6. Cardinality(A \cap B) > Cardinality(Faulty)
  BY <1>2, <1>3, <1>4, <1>5
<1>7. ~(A \cap B \subseteq Faulty)
  <2>1. A \cap B \subseteq Faulty => Cardinality(A \cap B) <= Cardinality(Faulty)
    BY <1>1, FS_Subset
  <2> QED
    BY <1>2, <1>6, <2>1
<1> QED
  BY <1>7 DEF Honest

\* In a set of 3f + 1 nodes two quorums of 2f + 1 overlap in more than f.
LEMMA QuorumSize ==
  ASSUME ThreeFPlusOne
  PROVE  QuorumsOverlap /\ ToleratedFaults \in Nat
<1>1. Cardinality(Nodes) \in Nat
  BY OracleAssumption, FS_CardinalityType
<1>2. ToleratedFaults \in Int
  BY <1>1 DEF ToleratedFaults
<1>3. ToleratedFaults >= 0
  BY <1>1, <1>2 DEF ThreeFPlusOne
<1> QED
  BY <1>1, <1>2, <1>3 DEF ThreeFPlusOne, QuorumsOverlap, RequiredQuorum

-----------------------------------------------------------------------------
(* The invariant.                                                          *)

LEMMA InitIInv == Init => IInv
  BY DEF Init, IInv, TypeOK, HonestIsConsistent, AcceptedHasQuorum, Honest

LEMMA ScoreIInv ==
  ASSUME IInv, NEW n \in Nodes, NEW v \in Values, Score(n, v)
  PROVE  IInv'
<1>1. TypeOK'
  BY DEF Score, IInv, TypeOK
<1>2. HonestIsConsistent'
  BY DEF Score, IInv, TypeOK, HonestIsConsistent, Honest
<1>3. AcceptedHasQuorum'
  BY DEF Score, IInv, AcceptedHasQuorum, Reporting
<1> QED
  BY <1>1, <1>2, <1>3 DEF IInv

LEMMA ReportIInv ==
  ASSUME IInv, NEW c \in Coordinators, NEW n \in Nodes, NEW v \in Values, Report(c, n, v)
  PROVE  IInv'
<1>1. /\ value[c] = NoValue /\ heard' = [heard EXCEPT ![c][n] = v]
      /\ UNCHANGED <<scored, value, slashed>>
      /\ heard \in [Coordinators -> [Nodes -> Values \cup {NoValue}]]
  BY DEF Report, IInv, TypeOK
<1>2. TypeOK'
  BY <1>1 DEF IInv, TypeOK
<1>3. HonestIsConsistent'
  BY <1>1 DEF Report, IInv, HonestIsConsistent, Honest
<1>4. AcceptedHasQuorum'
  <2> SUFFICES ASSUME NEW d \in Coordinators
               PROVE  /\ value[d] # NoValue =>
                           Cardinality({k \in Nodes : heard'[d][k] = value[d]}) >= RequiredQuorum
                      /\ \A k \in slashed[d] :
                           value[d] # NoValue /\ heard'[d][k] \notin {value[d], NoValue}
    BY <1>1 DEF AcceptedHasQuorum, Reporting
  <2>1. CASE d = c
    BY <1>1, <2>1 DEF IInv, AcceptedHasQuorum
  <2>2. CASE d # c
    <3>1. heard'[d] = heard[d]
      BY <1>1, <2>2
    <3> QED
      BY <3>1 DEF IInv, AcceptedHasQuorum, Reporting
  <2> QED
    BY <2>1, <2>2
<1> QED
  BY <1>2, <1>3, <1>4 DEF IInv

LEMMA AggregateIInv ==
  ASSUME IInv, NEW c \in Coordinators, AggregateReports(c)
  PROVE  IInv'
<1>1. PICK v \in Values :
        /\ Cardinality(Reporting(c, v)) >= RequiredQuorum
        /\ value' = [value EXCEPT ![c] = v]
        /\ slashed' = [slashed EXCEPT ![c] = {n \in Nodes : heard[c][n] \notin {v, NoValue}}]
  BY DEF AggregateReports
<1>2. UNCHANGED <<scored, heard>>
  BY DEF AggregateReports
<1>3. TypeOK'
  BY <1>1, <1>2 DEF IInv, TypeOK
<1>4. HonestIsConsistent'
  BY <1>2 DEF IInv, HonestIsConsistent
<1>5. AcceptedHasQuorum'
  <2> SUFFICES ASSUME NEW d \in Coordinators
               PROVE  /\ value'[d] # NoValue =>
                           Cardinality(Reporting(d, value'[d])) >= RequiredQuorum
                      /\ \A k \in slashed'[d] :
                           value'[d] # NoValue /\ heard[d][k] \notin {value'[d], NoValue}
    BY <1>2 DEF AcceptedHasQuorum, Reporting
  <2>1. CASE d = c
    BY <1>1, <2>1, OracleAssumption DEF IInv, TypeOK
  <2>2. CASE d # c
    BY <1>1, <2>2 DEF IInv, AcceptedHasQuorum, TypeOK
  <2> QED
    BY <2>1, <2>2
<1> QED
  BY <1>3, <1>4, <1>5 DEF IInv

LEMMA NextIInv == ASSUME IInv, [Next]_vars PROVE IInv'
<1>1. CASE UNCHANGED vars
  BY <1>1 DEF vars, IInv, TypeOK, HonestIsConsistent, AcceptedHasQuorum, Reporting
<1> QED
  BY <1>1, ScoreIInv, ReportIInv, AggregateIInv DEF Next
-----------------------------------------------------------------------------
(* What it implies.                                                        *)

LEMMA QuorumsShareTheValue ==
  ASSUME IInv, QuorumsOverlap, Cardinality(Faulty) <= ToleratedFaults
  PROVE  AcceptedAgree
<1> SUFFICES ASSUME NEW c \in Coordinators, NEW d \in Coordinators,
                    value[c] # NoValue, value[d] # NoValue
             PROVE  value[c] = value[d]
  BY DEF AcceptedAgree
<1> DEFINE A == Reporting(c, value[c])
           B == Reporting(d, value[d])
<1>1. A \in SUBSET Nodes /\ B \in SUBSET Nodes
  BY DEF Reporting
<1>2. Cardinality(A) >= RequiredQuorum /\ Cardinality(B) >= RequiredQuorum
  BY DEF IInv, AcceptedHasQuorum
<1>3. /\ Cardinality(A) \in Nat /\ Cardinality(B) \in Nat /\ Cardinality(Nodes) \in Nat
      /\ ToleratedFaults \in Int /\ RequiredQuorum \in Int
  BY <1>1, OracleAssumption, FS_Subset, FS_CardinalityType DEF ToleratedFaults, RequiredQuorum
<1>4. Cardinality(A) + Cardinality(B) > Cardinality(Nodes) + ToleratedFaults
  <2> HIDE DEF A, B
  <2> QED
    BY <1>2, <1>3 DEF QuorumsOverlap
<1>5. PICK n \in Honest : n \in A \cap B
  BY <1>1, <1>4, OverlapHasHonest
<1> QED
  BY <1>5 DEF Reporting, IInv, HonestIsConsistent

LEMMA MajoritiesShareTheValue ==
  ASSUME IInv, MajoritiesOverlap, Cardinality(Faulty) <= ToleratedFaults
  PROVE  MajoritiesAgree
<1> SUFFICES ASSUME NEW c \in Coordinators, NEW d \in Coordinators
             PROVE  Cardinality(AggregatorWinners(c) \cup AggregatorWinners(d)) <= 1
  BY DEF MajoritiesAgree
<1>1. ASSUME NEW e \in {c, d}, NEW g \in {c, d},
             NEW u \in AggregatorWinners(e), NEW v \in AggregatorWinners(g)
      PROVE  u = v
  <2> DEFINE A == Reporting(e, u)
             B == Reporting(g, v)
  <2>1. A \in SUBSET Nodes /\ B \in SUBSET Nodes
    BY DEF Reporting
  <2>2. Cardinality(A) >= Majority /\ Cardinality(B) >= Majority /\ u # NoValue /\ v # NoValue
    BY OracleAssumption DEF AggregatorWinners
  <2>3. /\ Cardinality(A) \in Nat /\ Cardinality(B) \in Nat /\ Cardinality(Nodes) \in Nat
        /\ ToleratedFaults \in Int /\ Majority \in Int
    BY <2>1, OracleAssumption, FS_Subset, FS_CardinalityType DEF ToleratedFaults, Majority
  <2>4. Cardinality(A) + Cardinality(B) > Cardinality(Nodes) + ToleratedFaults
    <3> HIDE DEF A, B
    <3> QED
      BY <2>2, <2>3 DEF MajoritiesOverlap
  <2>5. PICK n \in Honest : n \in A \cap B
    BY <2>1, <2>4, OverlapHasHonest
  <2> QED
    BY <2>2, <2>5 DEF Reporting, IInv, HonestIsConsistent
<1> DEFINE W == AggregatorWinners(c) \cup AggregatorWinners(d)
<1>2. \A u, v \in W : u = v
  BY <1>1
<1> HIDE DEF W
<1>3. CASE W = {}
  BY <1>3, FS_EmptySet DEF W
<1>4. CASE W # {}
  <2>1. PICK v : W = {v}
    BY <1>2, <1>4
  <2>2. Cardinality({v}) = 1
    BY FS_Singleton
  <2>3. Cardinality(W) = 1
    BY <2>1, <2>2
  <2> QED
    BY <2>3 DEF W
<1> QED
  BY <1>3, <1>4 DEF W

LEMMA SlashedAreFewer ==
  ASSUME IInv
  PROVE  SlashedIsOutvoted
<1> SUFFICES ASSUME NEW c \in Coordinators, NEW n \in Honest, n \in slashed[c]
             PROVE  Cardinality({k \in Nodes : heard[c][k] \notin {scored[n], NoValue}})
                        > ToleratedFaults
  BY DEF SlashedIsOutvoted
<1> DEFINE Against == {k \in Nodes : heard[c][k] \notin {scored[n], NoValue}}
           Quorum == Reporting(c, value[c])
<1>1. value[c] # NoValue /\ value[c] # scored[n]
  BY DEF IInv, AcceptedHasQuorum, HonestIsConsistent
<1>2. Quorum \subseteq Against /\ Against \subseteq Nodes
  BY <1>1 DEF Reporting
<1>3. Cardinality(Quorum) >= RequiredQuorum
  BY <1>1 DEF IInv, AcceptedHasQuorum
<1>4. n \in Nodes
  BY DEF Honest
<1> HIDE DEF Quorum, Against
<1>5. IsFiniteSet(Against) /\ IsFiniteSet(Quorum) /\ IsFiniteSet(Nodes)
  BY <1>2, OracleAssumption, FS_Subset
<1>6. /\ Cardinality(Quorum) \in Nat /\ Cardinality(Against) \in Nat
      /\ Cardinality(Nodes) \in Nat /\ Cardinality(Nodes) # 0
      /\ Cardinality(Quorum) <= Cardinality(Against)
  BY <1>2, <1>4, <1>5, FS_CardinalityType, FS_EmptySet, FS_Subset
<1>7. ToleratedFaults \in Nat
  BY <1>6 DEF ToleratedFaults
<1>8. Cardinality(Against) > ToleratedFaults
  BY <1>3, <1>6, <1>7 DEF RequiredQuorum
<1> QED
  BY <1>8 DEF Against

(* "A quorum requires 2f + 1 agreeing reports, which guarantees that any    *)
(* two quorums intersect in at least one honest node" (AggregationResult):  *)
(* in a set of 3f + 1 nodes with at most f liars coordinators never accept  *)
(* different values, and slash an honest node only if it was outvoted.      *)
THEOREM QuorumsNeverConflict ==
  ASSUME ThreeFPlusOne, Cardinality(Faulty) <= ToleratedFaults
  PROVE  Spec => [](AcceptedAgree /\ SlashedIsOutvoted)
<1>1. IInv /\ [Next]_vars => IInv'
  BY NextIInv
<1>2. IInv => AcceptedAgree /\ SlashedIsOutvoted
  BY QuorumSize, QuorumsShareTheValue, SlashedAreFewer
<1> QED
  BY <1>1, <1>2, InitIInv, PTL DEF Spec

(* Both rules, where quorums and majorities both overlap: the smallest set  *)
(* of nodes that tolerates a fault.                                         *)
THEOREM FourNodesAgree ==
  ASSUME Cardinality(Nodes) = 4
  PROVE  Spec => []QuorumsAgree
<1>1. IInv /\ [Next]_vars => IInv'
  BY NextIInv
<1>2. QuorumsOverlap /\ MajoritiesOverlap
  BY DEF QuorumsOverlap, MajoritiesOverlap, ToleratedFaults, RequiredQuorum, Majority
<1>3. IInv => QuorumsAgree
  BY <1>2, QuorumsShareTheValue, MajoritiesShareTheValue, SlashedAreFewer DEF QuorumsAgree
<1> QED
  BY <1>1, <1>3, InitIInv, PTL DEF Spec
=============================================================================
