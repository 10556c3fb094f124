---------------------------- MODULE AccessProofs ----------------------------
(***************************************************************************)
(* Who publishes and who may call.                                         *)
(*                                                                         *)
(* The lease, for any number of regions and any lease parameters: if only  *)
(* regions that were granted the lease renew it, two regions never publish *)
(* at once.  The argument is the optimistic-concurrency one: a claim that  *)
(* was read before the lease changed hands carries an old resource         *)
(* version, and a lease this code wrote has no renewTime, so it never      *)
(* becomes stale.                                                          *)
(*                                                                         *)
(* Quotas, tokens and keys, for any number of each: an admitted request is *)
(* in the log, in flight or lost, so what a quota check does not see is no *)
(* more than the other requests under way and the lost rows; a family      *)
(* whose token came back is revoked or forgotten and never issued again;   *)
(* and a rotated key points to a younger one of its namespace, so the      *)
(* youngest key of a namespace is active.                                  *)
(***************************************************************************)
EXTENDS SubmissionLease, ApiAccess, FiniteSetTheorems, WellFoundedInduction, TLAPS

-----------------------------------------------------------------------------
(* The lease.                                                              *)


(* NoHolder is no region.                                                   *)
Distinct == NoHolder \notin Regions

IInv ==
    /\ TypeOK
    /\ holder \in Regions => exists /\ age = NoRenewTime
    /\ ~exists => age = NoRenewTime
    /\ \A r \in Regions : pc[r] \in {"claim", "renew"} => tries[r] >= 1
    /\ \A r \in Regions : pc[r] = "publish" \/ r \in acquired \/ pc[r] = "renew"
                             => holder = r
    /\ \A r \in Regions : pc[r] \in {"claim", "renew"} => read[r] <= version
    /\ \A r \in Regions : pc[r] = "claim" => exists
    /\ \A r \in Regions : pc[r] = "claim" /\ read[r] = version => holder \notin Regions

LEMMA InitIInv == ASSUME Distinct, Init PROVE IInv
<1>1. holder \in {NoHolder, Former} /\ holder \notin Regions
  BY LeaseAssumption DEF Distinct, Init
<1>2. exists \in BOOLEAN
  BY DEF Init
<1>3. age \in {NoRenewTime} \cup 0..(Duration + 1)
  BY LeaseAssumption DEF Init
<1>4. TypeOK
  BY <1>1, <1>2, <1>3, LeaseAssumption DEF Init, TypeOK
<1> QED
  BY <1>1, <1>4 DEF Init, IInv

LEMMA NextIInv ==
  ASSUME Distinct, Renewers = {}, IInv, [Next]_vars
  PROVE  IInv'
<1> USE LeaseAssumption DEF Distinct, IInv, TypeOK, NoRenewTime, lease, Goto
<1>1. ASSUME NEW r \in Regions, Acquire(r) PROVE IInv'
  <2>1. CASE ~exists /\ Goto(r, "create") /\ UNCHANGED <<read, tries>>
    BY <1>1, <2>1 DEF Acquire
  <2>2. CASE exists /\ ~Stale /\ holder = r /\ Goto(r, "publish") /\ UNCHANGED <<read, tries>>
    BY <1>1, <2>2 DEF Acquire
  <2>3. CASE /\ exists /\ Stale /\ Goto(r, "claim")
             /\ read' = [read EXCEPT ![r] = version]
             /\ tries' = [tries EXCEPT ![r] = MaxAttempts]
    <3>1. holder \notin Regions
      BY <2>3 DEF Stale
    <3> QED
      BY <1>1, <2>3, <3>1 DEF Acquire
  <2> QED
    BY <1>1, <2>1, <2>2, <2>3 DEF Acquire
<1>2. ASSUME NEW r \in Regions, Create(r) PROVE IInv'
  <2>1. CASE ~exists /\ exists' = TRUE /\ holder' = r /\ UNCHANGED <<version, age>>
             /\ Goto(r, "publish")
    BY <1>2, <2>1 DEF Create
  <2>2. CASE UNCHANGED lease /\ Goto(r, "idle")
    BY <1>2, <2>2 DEF Create
  <2> QED
    BY <1>2, <2>1, <2>2 DEF Create
<1>3. ASSUME NEW r \in Regions, Replace(r) PROVE IInv'
  <2>1. version = read[r] /\ version' = version + 1 /\ holder' = r /\ age' = -1
    BY <1>3 DEF Replace, VersionMatches
  <2>2. CASE pc[r] = "claim"
    BY <1>3, <2>1, <2>2 DEF Replace
  <2>3. CASE pc[r] = "renew"
    BY <1>3, <2>1, <2>3 DEF Replace
  <2> QED
    BY <1>3, <2>2, <2>3 DEF Replace
<1>4. ASSUME NEW r \in Regions, ReplaceFails(r) PROVE IInv'
  BY <1>4 DEF ReplaceFails
<1>5. ASSUME NEW r \in Regions, Renew(r) PROVE IInv'
  BY <1>5 DEF Renew
<1>6. ASSUME NEW r \in Regions, Published(r) PROVE IInv'
  BY <1>6 DEF Published
<1>7. ASSUME NEW r \in Regions, Crash(r) PROVE IInv'
  BY <1>7 DEF Crash
<1>8. CASE Tick
  BY <1>8 DEF Tick
<1>9. CASE UNCHANGED vars
  BY <1>9 DEF vars
<1> QED
  BY <1>1, <1>2, <1>3, <1>4, <1>5, <1>6, <1>7, <1>8, <1>9 DEF Next, Region

(* acquire_submission_lease: no two regions publish at the same time, and   *)
(* the region that publishes is the holder on record.                       *)
THEOREM LeaseExclusive ==
  ASSUME Distinct, Renewers = {}
  PROVE  Spec => []OnePublisher
<1>1. Init => IInv
  BY InitIInv
<1>2. IInv /\ [Next]_vars => IInv'
  BY NextIInv
<1>3. IInv => OnePublisher
  BY DEF IInv, OnePublisher, Publishing
<1> QED
  BY <1>1, <1>2, <1>3, PTL DEF Spec
-----------------------------------------------------------------------------
(* Cardinalities.                                                          *)

LEMMA UnionBound ==
  ASSUME NEW S, NEW T, IsFiniteSet(S), IsFiniteSet(T)
  PROVE  /\ IsFiniteSet(S \cup T)
         /\ Cardinality(S \cup T) <= Cardinality(S) + Cardinality(T)
<1>1. /\ IsFiniteSet(S \cup T)
      /\ Cardinality(S \cup T) = Cardinality(S) + Cardinality(T) - Cardinality(S \cap T)
  BY FS_Union
<1>2. Cardinality(S \cap T) \in Nat
  <2>1. IsFiniteSet(S \cap T)
    BY FS_Subset
  <2> QED BY <2>1, FS_CardinalityType
<1>3. Cardinality(S) \in Nat /\ Cardinality(T) \in Nat
  BY FS_CardinalityType
<1> QED BY <1>1, <1>2, <1>3

LEMMA ImageBound ==
  ASSUME NEW S, NEW f, IsFiniteSet(S)
  PROVE  /\ IsFiniteSet({f[x] : x \in S})
         /\ Cardinality({f[x] : x \in S}) <= Cardinality(S)
<1> DEFINE g == [x \in S |-> f[x]]
           T == {f[x] : x \in S}
<1>1. g \in Surjection(S, T)
  BY DEF Surjection
<1> HIDE DEF g, T
<1>2. IsFiniteSet(T) /\ Cardinality(T) <= Cardinality(S)
  BY <1>1, FS_Surjection
<1> QED BY <1>2 DEF T

\* A set is no larger than the three that cover it.
LEMMA CoverBound ==
  ASSUME NEW A, NEW R, NEW f, NEW V, NEW g, NEW U,
         IsFiniteSet(R), IsFiniteSet(V), IsFiniteSet(U),
         \A a \in A : \/ \E r \in R : f[r] = a
                      \/ \E v \in V : g[v] = a
                      \/ a \in U
  PROVE  /\ IsFiniteSet(A)
         /\ Cardinality(A) <= Cardinality(R) + Cardinality(V) + Cardinality(U)
<1> DEFINE F == {f[x] : x \in R}
           G == {g[x] : x \in V}
<1>1. A \subseteq (F \cup G) \cup U
  OBVIOUS
<1>2. /\ IsFiniteSet(F) /\ Cardinality(F) <= Cardinality(R)
      /\ IsFiniteSet(G) /\ Cardinality(G) <= Cardinality(V)
  BY ImageBound
<1> HIDE DEF F, G
<1>3. /\ IsFiniteSet(F \cup G)
      /\ Cardinality(F \cup G) <= Cardinality(F) + Cardinality(G)
  BY <1>2, UnionBound
<1>4. /\ IsFiniteSet((F \cup G) \cup U)
      /\ Cardinality((F \cup G) \cup U) <= Cardinality(F \cup G) + Cardinality(U)
  BY <1>3, UnionBound
<1>5. IsFiniteSet(A) /\ Cardinality(A) <= Cardinality((F \cup G) \cup U)
  BY <1>1, <1>4, FS_Subset
<1>6. /\ Cardinality(A) \in Nat /\ Cardinality(R) \in Nat /\ Cardinality(V) \in Nat
      /\ Cardinality(U) \in Nat /\ Cardinality(F) \in Nat /\ Cardinality(G) \in Nat
      /\ Cardinality(F \cup G) \in Nat /\ Cardinality((F \cup G) \cup U) \in Nat
  BY <1>2, <1>3, <1>4, <1>5, FS_CardinalityType
<1> QED BY <1>2, <1>3, <1>4, <1>5, <1>6

-----------------------------------------------------------------------------
(* The gateway.                                                            *)

\* Every admitted request is in the log, will never be, or is being served.
Accounted ==
    \A r \in admitted : \/ \E x \in gatewayRows : x.of = r
                        \/ r \in unlogged
                        \/ \E w \in GatewayWorkers : req[w].at = "handler" /\ req[w].of = r

\* A row is not older than its request, and nothing is of a day to come.
RowsInTime ==
    /\ \A r \in admitted : r.on <= gatewayDay
    /\ \A x \in gatewayRows : x.of.on <= x.day /\ x.day <= gatewayDay

GInv == /\ GatewayTypeOK /\ Accounted /\ RowsInTime /\ QuotaOvershootBounded
        /\ IsFiniteSet(admitted) /\ IsFiniteSet(gatewayRows)

\* The days of a quota that ends today: today, or this month.
Period(D) == D = {gatewayDay} \/ D = MonthOf(gatewayDay)

LEMMA PeriodIsOver ==
  ASSUME GInv, NEW D, Period(D), NEW x \in gatewayRows, x.of.on \in D
  PROVE  x.day \in D
<1> DEFINE o == x.of.on
           d == x.day
<1>1. o \in Nat /\ d \in Nat /\ gatewayDay \in Nat /\ o <= d /\ d <= gatewayDay /\ d \in Days
  BY GatewayAssumption DEF GInv, RowsInTime, GatewayTypeOK, Days, Request
<1>2. CASE D = {gatewayDay}
  BY <1>1, <1>2
<1>3. CASE D = MonthOf(gatewayDay)
  <2> HIDE DEF o, d
  <2>1. o \div 2 = gatewayDay \div 2
    BY <1>3 DEF MonthOf, Month, o
  <2>2. d \div 2 = gatewayDay \div 2
    BY <1>1, <2>1
  <2> QED BY <1>1, <1>3, <2>2 DEF MonthOf, Month, d
<1> QED BY <1>2, <1>3 DEF Period

\* What a check of a quota may miss: the other workers' requests and lost rows.
LEMMA UncountedBound ==
  ASSUME GInv, NEW w \in GatewayWorkers, req[w].at # "handler", NEW D, Period(D), NEW K
  PROVE  /\ IsFiniteSet(AdmittedOn(K, D))
         /\ Cardinality(AdmittedOn(K, D)) <= RowsOf(K, D) + Slack(D)
         /\ RowsOf(K, D) \in Nat /\ Slack(D) \in Nat
<1> DEFINE A == AdmittedOn(K, D)
           R == {r \in gatewayRows : r.of.key \in K /\ r.day \in D}
           f == [x \in gatewayRows |-> x.of]
           V == GatewayWorkers \ {w}
           g == [v \in GatewayWorkers |-> req[v].of]
           U == {r \in unlogged : r.on \in D}
<1>1. ASSUME NEW a \in A
      PROVE  \/ \E r \in R : f[r] = a
             \/ \E v \in V : g[v] = a
             \/ a \in U
  <2>1. a \in admitted /\ a.key \in K /\ a.on \in D
    BY <1>1 DEF AdmittedOn
  <2>2. CASE \E x \in gatewayRows : x.of = a
    <3>1. PICK x \in gatewayRows : x.of = a
      BY <2>2
    <3>2. x.day \in D
      BY <2>1, <3>1, PeriodIsOver
    <3> QED BY <2>1, <3>1, <3>2
  <2>3. CASE a \in unlogged
    BY <2>1, <2>3
  <2>4. CASE \E v \in GatewayWorkers : req[v].at = "handler" /\ req[v].of = a
    BY <2>4
  <2> QED BY <2>1, <2>2, <2>3, <2>4 DEF GInv, Accounted
<1>2. IsFiniteSet(R) /\ IsFiniteSet(U)
  BY FS_Subset DEF GInv, GatewayTypeOK
<1>3. IsFiniteSet(V) /\ Cardinality(V) = Cardinality(GatewayWorkers) - 1
  BY GatewayAssumption, FS_RemoveElement
<1>4. RowsOf(K, D) = Cardinality(R) /\ Slack(D) = Cardinality(V) + Cardinality(U)
  <2>1. Cardinality(GatewayWorkers) \in Nat /\ Cardinality(U) \in Nat
    BY <1>2, GatewayAssumption, FS_CardinalityType
  <2> QED BY <1>3, <2>1 DEF RowsOf, Slack
<1> HIDE DEF A, R, f, V, g, U
<1>5. IsFiniteSet(A) /\ Cardinality(A) <= Cardinality(R) + Cardinality(V) + Cardinality(U)
  BY <1>1, <1>2, <1>3, CoverBound
<1>6. /\ Cardinality(R) \in Nat /\ Cardinality(V) \in Nat /\ Cardinality(U) \in Nat
      /\ Cardinality(A) \in Nat
  BY <1>2, <1>3, <1>5, FS_CardinalityType
<1>7. AdmittedOn(K, D) = A
  BY DEF A
<1> QED BY <1>4, <1>5, <1>6, <1>7

LEMMA GInit == GatewayInit => GInv
<1> SUFFICES ASSUME GatewayInit PROVE GInv
  OBVIOUS
<1> USE GatewayAssumption DEF GatewayInit
<1>1. IsFiniteSet({}) /\ Cardinality({}) = 0
  BY FS_EmptySet
<1>2. GatewayTypeOK
  BY <1>1 DEF GatewayTypeOK, Keys, Days, GatewayNever, GatewayIdle, Unadmitted, Request
<1>3. Accounted /\ RowsInTime
  BY DEF Accounted, RowsInTime
<1>4. QuotaOvershootBounded
  <2>1. ASSUME NEW K, NEW D, NEW limit \in Nat
        PROVE  Bounded(K, D, limit)
    <3>1. AdmittedOn(K, D) = {} /\ {r \in unlogged : r.on \in D} = {}
      BY DEF AdmittedOn
    <3>2. Cardinality(GatewayWorkers) \in Nat
      BY FS_CardinalityType
    <3> QED BY <1>1, <3>1, <3>2 DEF Bounded, Slack
  <2> QED BY <2>1 DEF QuotaOvershootBounded
<1> QED BY <1>1, <1>2, <1>3, <1>4 DEF GInv

\* Nothing is admitted, and a lost row only allows for more.
LEMMA BoundKept ==
  ASSUME GInv, admitted' = admitted, unlogged \subseteq unlogged', unlogged' \subseteq admitted
  PROVE  QuotaOvershootBounded'
<1>1. ASSUME NEW K, NEW D, NEW limit \in Nat, Bounded(K, D, limit)
      PROVE  Bounded(K, D, limit)'
  <2> DEFINE U == {r \in unlogged : r.on \in D}
             V == {r \in unlogged' : r.on \in D}
  <2>1. IsFiniteSet(V) /\ U \in SUBSET V
    BY FS_Subset DEF GInv
  <2>2. IsFiniteSet(U) /\ Cardinality(U) <= Cardinality(V)
    BY <2>1, FS_Subset
  <2>3. Cardinality(U) \in Nat /\ Cardinality(V) \in Nat /\ Cardinality(GatewayWorkers) \in Nat
    BY <2>1, <2>2, GatewayAssumption, FS_CardinalityType
  <2>4. IsFiniteSet(AdmittedOn(K, D)) /\ AdmittedOn(K, D)' = AdmittedOn(K, D)
    BY FS_Subset DEF GInv, AdmittedOn
  <2>5. Cardinality(AdmittedOn(K, D)) \in Nat
    BY <2>4, FS_CardinalityType
  <2>6. Slack(D) = Cardinality(GatewayWorkers) - 1 + Cardinality(U) /\ Slack(D)' = Cardinality(GatewayWorkers) - 1 + Cardinality(V)
    BY DEF Slack
  <2> HIDE DEF U, V
  <2> QED BY <1>1, <2>2, <2>3, <2>4, <2>5, <2>6 DEF Bounded
<1> QED BY <1>1, GatewayAssumption DEF GInv, QuotaOvershootBounded

LEMMA AdmitBound ==
  ASSUME GInv, NEW w \in GatewayWorkers, Admit(w), NEW K, NEW D, NEW limit \in Nat,
         Bounded(K, D, limit),
         gatewayDay \in D /\ req[w].of.key \in K => Period(D) /\ Within(RowsOf(K, D), limit)
  PROVE  Bounded(K, D, limit)'
<1> DEFINE k == req[w].of.key
           n == Cardinality(AdmittedOn({k}, {gatewayDay})) + 1
           r == [key |-> k, on |-> gatewayDay, nth |-> n]
           A == AdmittedOn(K, D)
<1>1. admitted' = admitted \cup {r} /\ unlogged' = unlogged
  BY DEF Admit
<1>2. r.key = k /\ r.on = gatewayDay
  OBVIOUS
<1> HIDE DEF n, r
<1>3. IsFiniteSet(A)
  BY FS_Subset DEF GInv, AdmittedOn
<1>4. Slack(D)' = Slack(D)
  BY <1>1 DEF Slack
<1>5. CASE ~(gatewayDay \in D /\ k \in K)
  <2>1. AdmittedOn(K, D)' = A
    BY <1>1, <1>2, <1>5 DEF AdmittedOn
  <2> QED BY <1>4, <2>1 DEF Bounded
<1>6. CASE gatewayDay \in D /\ k \in K
  <2>1. AdmittedOn(K, D)' = A \cup {r}
    BY <1>1, <1>2, <1>6 DEF AdmittedOn
  <2>2. Cardinality(A \cup {r}) <= Cardinality(A) + 1 /\ Cardinality(A) \in Nat /\ Cardinality(A \cup {r}) \in Nat
    <3> HIDE DEF A
    <3> QED BY <1>3, FS_AddElement, FS_CardinalityType
  <2>3. Cardinality(A) <= RowsOf(K, D) + Slack(D) /\ RowsOf(K, D) \in Nat /\ Slack(D) \in Nat
    BY <1>6, UncountedBound DEF Admit
  <2>4. limit = 0 \/ RowsOf(K, D) < limit
    BY <1>6 DEF Within
  <2> HIDE DEF A
  <2> QED BY <1>4, <2>1, <2>2, <2>3, <2>4 DEF Bounded
<1> QED BY <1>5, <1>6

LEMMA AdmitKeepsBound ==
  ASSUME GInv, NEW w \in GatewayWorkers, Admit(w)
  PROVE  QuotaOvershootBounded'
<1> USE GatewayAssumption
<1> DEFINE key == req[w].of.key
<1>1. /\ Within(RowsOf({key}, {gatewayDay}), DailyQuota)
      /\ Within(RowsOf(Keys, {gatewayDay}), NamespaceQuota)
      /\ Within(RowsOf({key}, MonthOf(gatewayDay)), MonthlyQuota)
      /\ Within(RowsOf(Keys, MonthOf(gatewayDay)), NamespaceMonthlyQuota)
  BY DEF Admit, CheckQuota
<1> HIDE DEF key
<1>2. ASSUME NEW d \in Days, gatewayDay \in MonthOf(d)
      PROVE  MonthOf(d) = MonthOf(gatewayDay)
  BY <1>2 DEF MonthOf
<1>3. ASSUME NEW d \in Days, NEW k \in Keys
      PROVE  Bounded({k}, {d}, DailyQuota)' /\ Bounded({k}, MonthOf(d), MonthlyQuota)'
  <2>1. Bounded({k}, {d}, DailyQuota) /\ Bounded({k}, MonthOf(d), MonthlyQuota)
    BY DEF GInv, QuotaOvershootBounded
  <2>2. gatewayDay \in {d} /\ key \in {k} =>
           Period({d}) /\ Within(RowsOf({k}, {d}), DailyQuota)
    BY <1>1 DEF Period
  <2>3. gatewayDay \in MonthOf(d) /\ key \in {k} =>
           Period(MonthOf(d)) /\ Within(RowsOf({k}, MonthOf(d)), MonthlyQuota)
    BY <1>1, <1>2 DEF Period
  <2> QED BY <2>1, <2>2, <2>3, AdmitBound DEF key
<1>4. ASSUME NEW d \in Days
      PROVE  Bounded(Keys, {d}, NamespaceQuota)' /\ Bounded(Keys, MonthOf(d), NamespaceMonthlyQuota)'
  <2>1. Bounded(Keys, {d}, NamespaceQuota) /\ Bounded(Keys, MonthOf(d), NamespaceMonthlyQuota)
    BY DEF GInv, QuotaOvershootBounded
  <2>2. gatewayDay \in {d} => Period({d}) /\ Within(RowsOf(Keys, {d}), NamespaceQuota)
    BY <1>1 DEF Period
  <2>3. gatewayDay \in MonthOf(d) =>
           Period(MonthOf(d)) /\ Within(RowsOf(Keys, MonthOf(d)), NamespaceMonthlyQuota)
    BY <1>1, <1>2 DEF Period
  <2> QED BY <2>1, <2>2, <2>3, AdmitBound
<1> QED BY <1>3, <1>4 DEF QuotaOvershootBounded

\* A step of the key table or of the clock.
LEMMA KeyStepKeepsGInv ==
  ASSUME GInv, GatewayTypeOK', gatewayDay <= gatewayDay',
         UNCHANGED <<req, gatewayRows, admitted, unlogged>>
  PROVE  GInv'
<1>1. Accounted'
  BY DEF GInv, Accounted
<1>2. RowsInTime'
  <2>1. gatewayDay \in Nat /\ gatewayDay' \in Nat
    BY GatewayAssumption DEF GInv, GatewayTypeOK, Days
  <2>2. \A r \in admitted : r.on \in Nat
    BY GatewayAssumption DEF GInv, GatewayTypeOK, Days, Request
  <2>3. \A x \in gatewayRows : x.day \in Nat /\ x.of.on \in Nat
    BY GatewayAssumption DEF GInv, GatewayTypeOK, Days, Request
  <2> QED BY <2>1, <2>2, <2>3 DEF GInv, RowsInTime
<1>3. QuotaOvershootBounded'
  BY BoundKept DEF GInv, GatewayTypeOK
<1> QED BY <1>1, <1>2, <1>3 DEF GInv

\* What a worker may have in hand.
InHand == [of : [key : 0 .. GatewayMaxKeys, on : Days, nth : Nat], at : {"idle", "quota", "handler"}]

LEMMA ReqTyped ==
  /\ GatewayIdle \in InHand /\ GatewayIdle.at = "idle"
  /\ \A k \in Keys : [of |-> Unadmitted(k), at |-> "quota"] \in InHand /\ Unadmitted(k).key = k
  /\ \A r \in Request : [of |-> r, at |-> "handler"] \in InHand
<1>1. 0 \in Days /\ 0 \in 0 .. GatewayMaxKeys /\ Keys \subseteq 0 .. GatewayMaxKeys
  BY GatewayAssumption DEF Days, Keys
<1>2. \A k \in 0 .. GatewayMaxKeys :
         Unadmitted(k) \in [key : 0 .. GatewayMaxKeys, on : Days, nth : Nat] /\ Unadmitted(k).key = k
  BY <1>1 DEF Unadmitted
<1>3. Request \subseteq [key : 0 .. GatewayMaxKeys, on : Days, nth : Nat]
  BY <1>1 DEF Request
<1> QED BY <1>1, <1>2, <1>3 DEF InHand, GatewayIdle

LEMMA ReqKept ==
  ASSUME GatewayTypeOK, NEW w \in GatewayWorkers, NEW h \in InHand,
         req' = [req EXCEPT ![w] = h], admitted \subseteq admitted',
         h.at = "quota" => h.of.key \in Keys, h.at = "handler" => h.of \in admitted'
  PROVE  /\ req' \in [GatewayWorkers -> InHand]
         /\ \A v \in GatewayWorkers : /\ req'[v].at = "quota" => req'[v].of.key \in Keys
                                     /\ req'[v].at = "handler" => req'[v].of \in admitted'
<1>1. req \in [GatewayWorkers -> InHand]
  BY DEF GatewayTypeOK, InHand
<1>2. \A v \in GatewayWorkers : /\ req[v].at = "quota" => req[v].of.key \in Keys
                                /\ req[v].at = "handler" => req[v].of \in admitted
  BY DEF GatewayTypeOK
<1>3. req' \in [GatewayWorkers -> InHand] /\ \A v \in GatewayWorkers : req'[v] = IF v = w THEN h ELSE req[v]
  BY <1>1
<1> QED BY <1>2, <1>3

LEMMA GNext == GInv /\ [GatewayNext]_gatewayVars => GInv'
<1> SUFFICES ASSUME GInv, [GatewayNext]_gatewayVars PROVE GInv'
  OBVIOUS
<1> USE GatewayAssumption
<1>a. GatewayTypeOK /\ gatewayDay \in Nat /\ gatewayDay <= LastDay
  BY DEF GInv, GatewayTypeOK, Days
<1>1. CASE Midnight
  <2>1. GatewayTypeOK' /\ gatewayDay <= gatewayDay'
    BY <1>a, <1>1 DEF Midnight, keyVars, GatewayTypeOK, Days
  <2> QED BY <1>1, <2>1, KeyStepKeepsGInv DEF Midnight
<1>2. CASE SweepExpiredApiKeys
  <2>1. GatewayTypeOK'
    BY <1>a, <1>2 DEF SweepExpiredApiKeys, GatewayTypeOK
  <2> QED BY <1>a, <1>2, <2>1, KeyStepKeepsGInv DEF SweepExpiredApiKeys
<1>3. ASSUME NEW k \in Keys, NEW e \in {0, GatewayNever}, CreateApiKey(k, e)
      PROVE  GInv'
  <2>1. e \in Days \cup {GatewayNever}
    BY <1>3 DEF Days
  <2>2. GatewayTypeOK'
    BY <1>a, <1>3, <2>1 DEF CreateApiKey, GatewayTypeOK
  <2> QED BY <1>a, <1>3, <2>2, KeyStepKeepsGInv DEF CreateApiKey
<1>4. ASSUME NEW k \in Keys, RevokeApiKey(k)
      PROVE  GInv'
  <2>1. GatewayTypeOK'
    BY <1>a, <1>4 DEF RevokeApiKey, GatewayTypeOK
  <2> QED BY <1>a, <1>4, <2>1, KeyStepKeepsGInv DEF RevokeApiKey
<1>5. ASSUME NEW k \in Keys, ReadForRotation(k)
      PROVE  GInv'
  <2>1. GatewayTypeOK'
    BY <1>a, <1>5 DEF ReadForRotation, GatewayTypeOK, Keys
  <2> QED BY <1>a, <1>5, <2>1, KeyStepKeepsGInv DEF ReadForRotation
<1>6. ASSUME NEW k \in Keys, RotateApiKey(k)
      PROVE  GInv'
  <2>1. rotation \in Keys /\ gatewayDay + GatewayGrace \in 0 .. GatewayNever
    BY <1>a, <1>6 DEF RotateApiKey, GatewayTypeOK, Keys, GatewayNever
  <2>2. GatewayTypeOK'
    BY <1>a, <1>6, <2>1 DEF RotateApiKey, GatewayTypeOK
  <2> QED BY <1>a, <1>6, <2>2, KeyStepKeepsGInv DEF RotateApiKey
<1>7. ASSUME NEW w \in GatewayWorkers, NEW k \in Keys, Authenticate(w, k)
      PROVE  GInv'
  <2>1. GatewayTypeOK'
    BY <1>a, <1>7, ReqTyped, ReqKept DEF Authenticate, keyVars, GatewayTypeOK, InHand
  <2>2. Accounted'
    BY <1>7 DEF Authenticate, GatewayIdle, GInv, Accounted
  <2>3. RowsInTime'
    BY <1>7 DEF Authenticate, GInv, RowsInTime
  <2>4. QuotaOvershootBounded'
    BY <1>a, <1>7, BoundKept DEF Authenticate, GatewayTypeOK
  <2> QED BY <1>7, <2>1, <2>2, <2>3, <2>4 DEF Authenticate, GInv
<1>8. ASSUME NEW w \in GatewayWorkers, Admit(w)
      PROVE  GInv'
  <2> DEFINE k == req[w].of.key
             n == Cardinality(AdmittedOn({k}, {gatewayDay})) + 1
             r == [key |-> k, on |-> gatewayDay, nth |-> n]
  <2>1. n \in Nat \ {0}
    <3>1. IsFiniteSet(AdmittedOn({k}, {gatewayDay}))
      BY FS_Subset DEF GInv, AdmittedOn
    <3> QED BY <3>1, FS_CardinalityType
  <2>2. k \in Keys /\ gatewayDay \in Days
    BY <1>a, <1>8 DEF Admit, GatewayTypeOK
  <2>3. r \in Request /\ r.on = gatewayDay
    BY <2>1, <2>2 DEF Request
  <2>4. /\ req' = [req EXCEPT ![w] = [of |-> r, at |-> "handler"]]
        /\ req[w].at = "quota" /\ admitted' = admitted \cup {r}
        /\ UNCHANGED <<keyVars, gatewayDay, gatewayRows, unlogged>>
        /\ Cardinality(admitted) < MaxRequests
    BY <1>8 DEF Admit
  <2> HIDE DEF k, n, r
  <2>5. IsFiniteSet(admitted') /\ Cardinality(admitted') <= MaxRequests
    <3>1. IsFiniteSet(admitted) /\ Cardinality(admitted) \in Nat
      BY FS_CardinalityType DEF GInv
    <3>2. /\ IsFiniteSet(admitted \cup {r})
          /\ \/ Cardinality(admitted \cup {r}) = Cardinality(admitted)
             \/ Cardinality(admitted \cup {r}) = Cardinality(admitted) + 1
      BY <3>1, FS_AddElement
    <3> QED BY <2>4, <3>1, <3>2
  <2>6. GatewayTypeOK'
    <3>1. [of |-> r, at |-> "handler"] \in InHand
      BY <2>3, ReqTyped
    <3>2. /\ req' \in [GatewayWorkers -> InHand]
          /\ \A v \in GatewayWorkers : /\ req'[v].at = "quota" => req'[v].of.key \in Keys
                                      /\ req'[v].at = "handler" => req'[v].of \in admitted'
      BY <1>a, <2>4, <3>1, ReqKept
    <3> QED BY <1>a, <2>3, <2>4, <2>5, <3>2 DEF keyVars, GatewayTypeOK, InHand
  <2>7. Accounted'
    <3>1. /\ req'[w].at = "handler" /\ req'[w].of = r
          /\ \A v \in GatewayWorkers : v # w => req'[v] = req[v]
      BY <1>a, <2>4 DEF GatewayTypeOK
    <3> QED BY <2>4, <3>1 DEF GInv, Accounted
  <2>8. RowsInTime'
    BY <1>a, <2>3, <2>4 DEF GInv, RowsInTime
  <2>9. QuotaOvershootBounded'
    BY <1>8, AdmitKeepsBound
  <2> QED BY <2>4, <2>5, <2>6, <2>7, <2>8, <2>9 DEF GInv
<1>9. ASSUME NEW w \in GatewayWorkers, Refuse(w)
      PROVE  GInv'
  <2>1. GatewayTypeOK'
    BY <1>a, <1>9, ReqTyped, ReqKept DEF Refuse, keyVars, GatewayTypeOK, InHand
  <2>2. Accounted'
    BY <1>9 DEF Refuse, GInv, Accounted
  <2>3. RowsInTime'
    BY <1>9 DEF Refuse, GInv, RowsInTime
  <2>4. QuotaOvershootBounded'
    BY <1>a, <1>9, BoundKept DEF Refuse, GatewayTypeOK
  <2> QED BY <1>9, <2>1, <2>2, <2>3, <2>4 DEF Refuse, GInv
<1>10. ASSUME NEW w \in GatewayWorkers, LogAccess(w)
       PROVE  GInv'
  <2> DEFINE x == [of |-> req[w].of, day |-> gatewayDay]
  <2>1. x.of = req[w].of /\ x.day = gatewayDay /\ req[w].of \in admitted /\ req[w].at = "handler"
    BY <1>a, <1>10 DEF LogAccess, GatewayTypeOK
  <2>2. /\ gatewayRows' = gatewayRows \cup {x} /\ req' = [req EXCEPT ![w] = GatewayIdle]
        /\ UNCHANGED <<keyVars, gatewayDay, admitted, unlogged>>
    BY <1>10 DEF LogAccess
  <2> HIDE DEF x
  <2>3. GatewayTypeOK'
    BY <1>a, <2>1, <2>2, ReqTyped, ReqKept DEF keyVars, GatewayTypeOK, InHand
  <2>4. Accounted'
    BY <1>a, <2>1, <2>2 DEF GInv, Accounted, GatewayTypeOK
  <2>5. RowsInTime'
    BY <1>a, <2>1, <2>2 DEF GInv, RowsInTime
  <2>6. QuotaOvershootBounded'
    BY <1>a, <2>2, BoundKept DEF GatewayTypeOK
  <2>7. IsFiniteSet(gatewayRows')
    BY <2>2, FS_AddElement DEF GInv
  <2> QED BY <2>2, <2>3, <2>4, <2>5, <2>6, <2>7 DEF GInv
<1>11. ASSUME NEW w \in GatewayWorkers, LogLost(w)
       PROVE  GInv'
  <2>1. req[w].of \in admitted /\ req[w].at = "handler"
    BY <1>a, <1>11 DEF LogLost, GatewayTypeOK
  <2>2. GatewayTypeOK'
    BY <1>a, <1>11, <2>1, ReqTyped, ReqKept DEF LogLost, keyVars, GatewayTypeOK, InHand
  <2>3. Accounted'
    BY <1>a, <1>11, <2>1 DEF LogLost, GInv, Accounted, GatewayTypeOK
  <2>4. RowsInTime'
    BY <1>11 DEF LogLost, GInv, RowsInTime
  <2>5. QuotaOvershootBounded'
    BY <1>a, <1>11, <2>1, BoundKept DEF LogLost, GatewayTypeOK
  <2> QED BY <1>11, <2>2, <2>3, <2>4, <2>5 DEF LogLost, GInv
<1>12. CASE UNCHANGED gatewayVars
  <2>1. GatewayTypeOK'
    BY <1>a, <1>12 DEF gatewayVars, keyVars, GatewayTypeOK
  <2> QED BY <1>a, <1>12, <2>1, KeyStepKeepsGInv DEF gatewayVars
<1> QED
  BY <1>1, <1>2, <1>3, <1>4, <1>5, <1>6, <1>7, <1>8, <1>9, <1>10, <1>11, <1>12 DEF GatewayNext

(* gateway.py, policy.py and api_key_store.py: for any number of workers,   *)
(* keys and quotas, no key and no namespace is served more in a day or a    *)
(* month than its quota, the other requests then in flight, and those whose *)
(* row was lost.                                                            *)
THEOREM QuotasAlwaysBounded == GatewaySpec => [](GatewayTypeOK /\ QuotaOvershootBounded)
<1>1. GInv => GatewayTypeOK /\ QuotaOvershootBounded
  BY DEF GInv
<1> QED BY <1>1, GInit, GNext, PTL DEF GatewaySpec

-----------------------------------------------------------------------------
(* Token families.                                                         *)

\* A token was exchanged at most once, and only below the current one of a
\* family that has left the service.
ExchangedOnce ==
    \A f \in Families, j \in Jtis : tokenAccepted[f][j] >= 1 =>
        /\ tokenAccepted[f][j] = 1 /\ held[f] # {}
        /\ Known(f) => j < current[f]

\* The family of an answer that is being built is known.
AnswersHaveFamilies ==
    \A c \in Clients : answer[c] # "none" => Known(answer[c]) /\ current[answer[c]] >= 1

\* A family with an alert is revoked or forgotten, and not issued again.
AlertsEndFamilies ==
    \A f \in alerts : held[f] # {} /\ (Known(f) => revoked[f])

TInv == TokenTypeOK /\ ExchangedOnce /\ AnswersHaveFamilies /\ AlertsEndFamilies

LEMMA TInit == TokenInit => TInv
<1> SUFFICES ASSUME TokenInit PROVE TInv
  OBVIOUS
<1>1. TokenTypeOK
  BY TokenAssumption DEF TokenInit, TokenTypeOK, TokenNever
<1>2. ExchangedOnce /\ AnswersHaveFamilies /\ AlertsEndFamilies
  BY DEF TokenInit, ExchangedOnce, AnswersHaveFamilies, AlertsEndFamilies
<1> QED BY <1>1, <1>2 DEF TInv

LEMMA TNext == TInv /\ [TokenNext]_tokenVars => TInv'
<1> SUFFICES ASSUME TInv, [TokenNext]_tokenVars PROVE TInv'
  OBVIOUS
<1> USE TokenAssumption DEF family, Jtis, Known
<1>a. TokenTypeOK /\ ExchangedOnce /\ AnswersHaveFamilies /\ AlertsEndFamilies
  BY DEF TInv
<1>1. CASE TokenTick
  <2>1. TokenTypeOK'
    BY <1>a, <1>1 DEF TokenTick, TokenTypeOK
  <2> QED BY <1>a, <1>1, <2>1 DEF TokenTick, TInv, ExchangedOnce, AnswersHaveFamilies, AlertsEndFamilies
<1>2. CASE TokenRestart
  <2>1. TokenTypeOK'
    BY <1>a, <1>2 DEF TokenRestart, TokenTypeOK, TokenNever
  <2> QED BY <1>a, <1>2, <2>1 DEF TokenRestart, TInv, ExchangedOnce, AnswersHaveFamilies, AlertsEndFamilies, TokenTypeOK
<1>3. ASSUME NEW c \in Clients, Answer(c) PROVE TInv'
  <2> DEFINE f == answer[c]
  <2>1. /\ f \in Families /\ current[f] \in 1 .. MaxJti
        /\ answer' = [answer EXCEPT ![c] = "none"]
        /\ held' = [held EXCEPT ![f] = @ \cup {current[f]}]
        /\ access' = [access EXCEPT ![f] = tokenNow + AccessTTL]
        /\ UNCHANGED <<tokenNow, tokenExpires, current, used, revoked, tokenAccepted, alerts>>
    BY <1>a, <1>3 DEF Answer, TokenTypeOK, AnswersHaveFamilies
  <2> HIDE DEF f
  <2>2. TokenTypeOK'
    BY <1>a, <2>1 DEF TokenTypeOK
  <2>3. \A g \in Families : held[g] # {} => held'[g] # {}
    BY <1>a, <2>1 DEF TokenTypeOK
  <2>4. ExchangedOnce'
    BY <1>a, <2>1, <2>3 DEF ExchangedOnce
  <2>5. AnswersHaveFamilies'
    BY <1>a, <2>1 DEF AnswersHaveFamilies, TokenTypeOK
  <2>6. AlertsEndFamilies'
    BY <1>a, <2>1, <2>3 DEF AlertsEndFamilies, TokenTypeOK
  <2> QED BY <2>2, <2>4, <2>5, <2>6 DEF TInv
<1>4. ASSUME NEW c \in Clients, AnswerLost(c) PROVE TInv'
  <2>1. TokenTypeOK'
    BY <1>a, <1>4 DEF AnswerLost, TokenTypeOK
  <2>2. AnswersHaveFamilies'
    BY <1>a, <1>4 DEF AnswerLost, AnswersHaveFamilies, TokenTypeOK
  <2> QED BY <1>a, <1>4, <2>1, <2>2 DEF AnswerLost, TInv, ExchangedOnce, AlertsEndFamilies
<1>5. ASSUME NEW f \in Families, Issue(f) PROVE TInv'
  <2>1. tokenNow + RefreshTTL \in 0 .. TokenNever /\ tokenNow + RefreshTTL # TokenNever
    BY <1>a DEF TokenTypeOK, TokenNever
  <2>2. /\ ~Known(f) /\ held[f] = {}
        /\ tokenExpires' = [tokenExpires EXCEPT ![f] = tokenNow + RefreshTTL]
        /\ current' = [current EXCEPT ![f] = 1] /\ held' = [held EXCEPT ![f] = {1}]
        /\ access' = [access EXCEPT ![f] = tokenNow + AccessTTL]
        /\ UNCHANGED <<tokenNow, used, revoked, answer, tokenAccepted, alerts>>
    BY <1>5 DEF Issue
  <2>3. TokenTypeOK'
    <3>1. tokenNow + AccessTTL \in 0 .. TokenMaxTime + AccessTTL
      BY <1>a DEF TokenTypeOK
    <3>2. tokenExpires' \in [Families -> 0 .. TokenNever]
      BY <1>a, <2>1, <2>2 DEF TokenTypeOK
    <3>3. current' \in [Families -> 0 .. MaxJti] /\ held' \in [Families -> SUBSET Jtis]
      BY <1>a, <2>2 DEF TokenTypeOK
    <3>4. access' \in [Families -> 0 .. TokenMaxTime + AccessTTL]
      BY <1>a, <2>2, <3>1 DEF TokenTypeOK
    <3> QED BY <1>a, <2>2, <3>2, <3>3, <3>4 DEF TokenTypeOK
  <2>4. ExchangedOnce'
    <3>1. ASSUME NEW g \in Families, NEW j \in Jtis, tokenAccepted[g][j] >= 1
          PROVE  /\ tokenAccepted[g][j] = 1 /\ held'[g] # {}
                 /\ Known(g)' => j < current'[g]
      <4>1. g # f
        BY <1>a, <2>2, <3>1 DEF ExchangedOnce
      <4> QED BY <1>a, <2>2, <3>1, <4>1 DEF ExchangedOnce, TokenTypeOK
    <3> QED BY <2>2, <3>1 DEF ExchangedOnce
  <2>5. AnswersHaveFamilies'
    <3>1. ASSUME NEW c \in Clients, answer[c] # "none"
          PROVE  Known(answer[c])' /\ current'[answer[c]] >= 1
      <4>1. answer[c] \in Families /\ answer[c] # f
        BY <1>a, <2>2, <3>1 DEF AnswersHaveFamilies, TokenTypeOK
      <4> QED BY <1>a, <2>2, <3>1, <4>1 DEF AnswersHaveFamilies, TokenTypeOK
    <3> QED BY <2>2, <3>1 DEF AnswersHaveFamilies
  <2>6. AlertsEndFamilies'
    BY <1>a, <2>2 DEF AlertsEndFamilies, TokenTypeOK
  <2> QED BY <2>3, <2>4, <2>5, <2>6 DEF TInv
<1>6. ASSUME NEW f \in Families, RevokeFamily(f) PROVE TInv'
  <2>1. TokenTypeOK'
    BY <1>a, <1>6 DEF RevokeFamily, TokenTypeOK
  <2>2. AlertsEndFamilies'
    BY <1>a, <1>6 DEF RevokeFamily, AlertsEndFamilies, TokenTypeOK
  <2> QED BY <1>a, <1>6, <2>1, <2>2 DEF RevokeFamily, TInv, ExchangedOnce, AnswersHaveFamilies
<1>7. ASSUME NEW c \in Clients, NEW f \in Families, NEW j \in Jtis, Refresh(c, f, j) PROVE TInv'
  <2>1. /\ j \in held[f] /\ Known(f) /\ j = current[f] /\ current[f] < MaxJti /\ answer[c] = "none"
        /\ used' = [used EXCEPT ![f] = @ \cup {j}] /\ current' = [current EXCEPT ![f] = @ + 1]
        /\ answer' = [answer EXCEPT ![c] = f]
        /\ tokenAccepted' = [tokenAccepted EXCEPT ![f][j] = @ + 1]
        /\ UNCHANGED <<tokenNow, tokenExpires, revoked, held, access, alerts>>
    BY <1>7 DEF Refresh, Presentable
  <2>2. tokenAccepted[f][j] = 0
    BY <1>a, <2>1 DEF ExchangedOnce, TokenTypeOK
  <2>3. \A g \in Families, i \in Jtis :
          tokenAccepted'[g][i] = IF g = f /\ i = j THEN 1 ELSE tokenAccepted[g][i]
    BY <1>a, <2>1, <2>2 DEF TokenTypeOK
  <2>4. tokenAccepted' \in [Families -> [Jtis -> 0 .. MaxJti]]
    BY <1>a, <2>1, <2>2 DEF TokenTypeOK
  <2>5. \A g \in Families : current'[g] = IF g = f THEN j + 1 ELSE current[g]
    BY <1>a, <2>1 DEF TokenTypeOK
  <2>6. TokenTypeOK'
    <3>1. used' \in [Families -> SUBSET Jtis] /\ answer' \in [Clients -> Families \cup {"none"}]
      BY <1>a, <2>1 DEF TokenTypeOK
    <3>2. current' \in [Families -> 0 .. MaxJti]
      BY <1>a, <2>1 DEF TokenTypeOK
    <3> QED BY <1>a, <2>1, <2>4, <3>1, <3>2 DEF TokenTypeOK
  <2>7. ExchangedOnce'
    <3>1. ASSUME NEW g \in Families, NEW i \in Jtis, tokenAccepted'[g][i] >= 1
          PROVE  /\ tokenAccepted'[g][i] = 1 /\ held[g] # {}
                 /\ Known(g) => i < current'[g]
      <4>1. i \in Nat /\ j \in Nat /\ current[g] \in Nat
        BY <1>a DEF TokenTypeOK
      <4>2. CASE g = f /\ i = j
        BY <2>1, <2>3, <2>5, <4>1, <4>2
      <4>3. CASE ~(g = f /\ i = j)
        <5>1. tokenAccepted[g][i] = 1 /\ held[g] # {} /\ (Known(g) => i < current[g])
          BY <1>a, <2>3, <3>1, <4>3 DEF ExchangedOnce
        <5> QED BY <2>1, <2>3, <2>5, <4>1, <4>3, <5>1
      <4> QED BY <4>2, <4>3
    <3> QED BY <2>1, <3>1 DEF ExchangedOnce
  <2>8. AnswersHaveFamilies'
    BY <1>a, <2>1, <2>5 DEF AnswersHaveFamilies, TokenTypeOK
  <2> QED BY <1>a, <2>1, <2>6, <2>7, <2>8 DEF TInv, AlertsEndFamilies
<1>8. ASSUME NEW c \in Clients, NEW f \in Families, NEW j \in Jtis, Reuse(c, f, j) PROVE TInv'
  <2>1. TokenTypeOK'
    BY <1>a, <1>8 DEF Reuse, TokenTypeOK
  <2>2. AlertsEndFamilies'
    BY <1>a, <1>8 DEF Reuse, Presentable, AlertsEndFamilies, TokenTypeOK
  <2> QED BY <1>a, <1>8, <2>1, <2>2 DEF Reuse, TInv, ExchangedOnce, AnswersHaveFamilies
<1>9. CASE UNCHANGED tokenVars
  <2>1. TokenTypeOK'
    BY <1>a, <1>9 DEF tokenVars, TokenTypeOK
  <2> QED BY <1>a, <1>9, <2>1 DEF tokenVars, TInv, ExchangedOnce, AnswersHaveFamilies, AlertsEndFamilies
<1> QED BY <1>1, <1>2, <1>3, <1>4, <1>5, <1>6, <1>7, <1>8, <1>9 DEF TokenNext

(* auth.py, TokenService: for any number of families, clients and           *)
(* rotations, and whatever answers are lost or processes restarted, no      *)
(* refresh token works twice, and a family that saw a stale token again     *)
(* gives no access any more.                                                *)
THEOREM StaleTokensAlwaysEndFamilies == TokenSpec => [](TokenTypeOK /\ StaleTokenEndsFamily)
<1>1. TInv => TokenTypeOK /\ StaleTokenEndsFamily
  BY DEF TInv, ExchangedOnce, AlertsEndFamilies, StaleTokenEndsFamily, AccessWorks, Presentable, TokenTypeOK
<1> QED BY <1>1, TInit, TNext, PTL DEF TokenSpec

-----------------------------------------------------------------------------
(* Keys of namespaces.                                                     *)

LEMMA GreatestNatural ==
  ASSUME NEW n \in Nat, NEW S, S \subseteq 1 .. n, S # {}
  PROVE  \E i \in S : \A j \in S : j <= i
<1> DEFINE R == OpToRel(<, Nat)
           T == {n - i : i \in S}
<1>0. T \subseteq Nat /\ T # {}
  <2>1. \A i \in S : n - i \in Nat
    <3> HIDE DEF R, T
    <3> QED OBVIOUS
  <2> HIDE DEF R
  <2> QED BY <2>1
<1>1. PICK t \in T : \A u \in T : <<u, t>> \notin R
  <2>1. T \subseteq Nat /\ T # {}
    BY <1>0
  <2>2. IsWellFoundedOn(R, Nat)
    BY NatLessThanWellFounded
  <2> HIDE DEF R, T
  <2> QED BY <2>1, <2>2, WFMin
<1>2. \A u \in T : ~(u < t)
  <2> HIDE DEF T
  <2> QED BY <1>0, <1>1 DEF OpToRel
<1> HIDE DEF R
<1>3. PICK i \in S : t = n - i
  BY <1>1
<1>4. ASSUME NEW j \in S PROVE j <= i
  <2>1. ~(n - j < n - i)
    BY <1>2, <1>3
  <2> QED BY <2>1
<1> QED BY <1>3, <1>4

KeyRow == [ns : Namespaces, active : BOOLEAN, status : {"active", "rotating", "revoked"},
           deadline : Int, from : Nat, to : Nat, created : Nat, marked : Int]
Held == [pc : {"idle", "read", "legacy", "looked", "rotating"}, key : Nat,
         ns : Namespaces \cup {"none"}, at : Nat]

\* The ids are consecutive, and what each variable holds.
Rows(n) ==
    /\ n \in 0 .. NamespaceMaxKeys /\ keys \in [1 .. n -> KeyRow] /\ columns \in BOOLEAN
    /\ namespaceNow \in 0 .. NamespaceMaxTime /\ namespaceW \in [NamespaceWorkers -> Held]

\* A rotated key points to a younger key of its namespace that points back.
Linked(k) ==
    keys[k].status # "active" =>
        /\ keys[k].to \in Ids /\ keys[k].to > k
        /\ keys[keys[k].to].ns = keys[k].ns /\ keys[keys[k].to].from = k
KeysLinked == \A k \in Ids : Linked(k) /\ keys[k].marked <= namespaceNow

\* What was deactivated, and since when.
OffIsRecorded ==
    /\ \A k \in DOMAIN off : k \in Ids /\ off[k] \in Nat /\ off[k] <= namespaceNow
    /\ \A k \in DOMAIN off : ~keys[k].active

\* Without the columns nothing was rotated.
NothingRotated ==
    /\ \A k \in Ids : keys[k].status = "active"
    /\ \A x \in NamespaceWorkers : namespaceW[x].pc # "rotating"

\* A request for a key: of its namespace and not of the future; its answer
\* respects the deadline and the deactivation; its key was not rotated before.
Asked(a) == /\ a.key \in Ids /\ a.ns = keys[a.key].ns /\ a.at \in Nat /\ a.at <= namespaceNow
Timely(a) ==
    /\ (keys[a.key].status # "active" /\ a.at > keys[a.key].marked) => a.at <= keys[a.key].deadline
    /\ a.key \in DOMAIN off => a.at <= off[a.key]
Before(a) == keys[a.key].status # "active" => a.at <= keys[a.key].marked

RequestsAreTimely ==
    /\ \A x \in NamespaceWorkers :
        /\ namespaceW[x].pc # "idle" => Asked(namespaceW[x])
        /\ namespaceW[x].pc = "legacy" => Before(namespaceW[x])
        /\ namespaceW[x].pc = "looked" => Timely(namespaceW[x])
    /\ \A a \in namespaceAccepted : Asked(a) /\ Timely(a)

NInv == /\ (\E n \in Nat : Rows(n)) /\ KeysLinked /\ OffIsRecorded /\ RequestsAreTimely
        /\ ~columns => NothingRotated

LEMMA NInit == NamespaceInit => NInv
<1> SUFFICES ASSUME NamespaceInit PROVE NInv
  OBVIOUS
<1> USE NamespaceAssumption DEF NamespaceInit
<1>1. DOMAIN keys = {} /\ DOMAIN off = {} /\ keys \in [1 .. 0 -> KeyRow]
  OBVIOUS
<1>2. Rows(0)
  <2>1. NamespaceIdle \in Held
    BY DEF Held, NamespaceIdle, None
  <2>2. namespaceW \in [NamespaceWorkers -> Held]
    BY <2>1
  <2>3. namespaceNow = 0 /\ columns \in BOOLEAN
    OBVIOUS
  <2> HIDE DEF NamespaceInit
  <2>4. NamespaceMaxKeys \in Nat /\ NamespaceMaxTime \in Nat
    OBVIOUS
  <2>5. 0 \in 0 .. NamespaceMaxKeys /\ 0 \in 0 .. NamespaceMaxTime
    BY <2>4
  <2> QED BY <1>1, <2>2, <2>3, <2>5 DEF Rows
<1>3. KeysLinked /\ OffIsRecorded /\ NothingRotated
  BY <1>1 DEF KeysLinked, OffIsRecorded, NothingRotated, Ids, NamespaceIdle
<1>4. RequestsAreTimely
  BY DEF RequestsAreTimely, NamespaceIdle
<1> QED BY <1>2, <1>3, <1>4 DEF NInv

LEMMA IdsAre == ASSUME NEW n \in Nat, Rows(n) PROVE Ids = 1 .. n /\ NewId = n + 1
<1>1. Ids = 1 .. n
  BY DEF Rows, Ids
<1>2. Cardinality(1 .. n) = n
  BY FS_Interval
<1> QED BY <1>1, <1>2 DEF NewId

\* A step that only marks, revokes, deactivates or adds keys disturbs no request.
LEMMA KeysMoveOn ==
  ASSUME NInv, namespaceNow <= namespaceNow', namespaceNow' \in Nat, Ids \subseteq Ids',
         \A k \in Ids : /\ keys'[k].ns = keys[k].ns
                        /\ keys'[k].status # "active" =>
                              \/ keys'[k].marked = namespaceNow
                              \/ /\ keys[k].status # "active" /\ keys'[k].marked = keys[k].marked
                                 /\ keys'[k].deadline = keys[k].deadline,
         \A k \in DOMAIN off' : (k \in DOMAIN off /\ off'[k] = off[k]) \/ off'[k] = namespaceNow
  PROVE  \A a : Asked(a) => /\ Asked(a)' /\ (Timely(a) => Timely(a)') /\ (Before(a) => Before(a)')
<1> SUFFICES ASSUME NEW a, Asked(a)
             PROVE  Asked(a)' /\ (Timely(a) => Timely(a)') /\ (Before(a) => Before(a)')
  OBVIOUS
<1>1. a.key \in Ids /\ a.at \in Nat /\ a.at <= namespaceNow /\ a.ns = keys[a.key].ns
  BY DEF Asked
<1>2. namespaceNow \in Nat /\ keys[a.key].marked \in Int /\ keys[a.key].deadline \in Int
  <2>1. PICK n \in Nat : Rows(n)
    BY DEF NInv
  <2>2. a.key \in 1 .. n
    BY <1>1, <2>1, IdsAre
  <2>3. keys[a.key] \in KeyRow
    BY <2>1, <2>2 DEF Rows
  <2>4. keys[a.key].marked \in Int /\ keys[a.key].deadline \in Int
    BY <2>3 DEF KeyRow
  <2> QED BY <2>1, <2>4, NamespaceAssumption DEF Rows
<1>3. Asked(a)'
  BY <1>1, <1>2 DEF Asked
<1>4. Before(a) => Before(a)'
  BY <1>1, <1>2 DEF Before
<1>5. ASSUME Timely(a) PROVE Timely(a)'
  <2>1. (keys'[a.key].status # "active" /\ a.at > keys'[a.key].marked) => a.at <= keys'[a.key].deadline
    BY <1>1, <1>2, <1>5 DEF Timely
  <2>2. a.key \in DOMAIN off' => a.at <= off'[a.key]
    BY <1>1, <1>2, <1>5 DEF Timely
  <2> QED BY <2>1, <2>2 DEF Timely
<1> QED BY <1>3, <1>4, <1>5

\* Workers keep their requests or drop them.
LEMMA RequestsMoveOn ==
  ASSUME NInv, namespaceAccepted' = namespaceAccepted,
         \A a : Asked(a) => /\ Asked(a)' /\ (Timely(a) => Timely(a)') /\ (Before(a) => Before(a)'),
         \A x \in NamespaceWorkers : namespaceW'[x] = namespaceW[x] \/ namespaceW'[x].pc = "idle"
  PROVE  RequestsAreTimely'
<1>1. ASSUME NEW x \in NamespaceWorkers, namespaceW'[x].pc # "idle", NEW c, c = namespaceW'[x]
      PROVE  /\ Asked(c)'
             /\ c.pc = "legacy" => Before(c)'
             /\ c.pc = "looked" => Timely(c)'
  <2>1. c = namespaceW[x] /\ c.pc # "idle"
    BY <1>1
  <2>2. Asked(c) /\ (c.pc = "legacy" => Before(c)) /\ (c.pc = "looked" => Timely(c))
    BY <2>1 DEF NInv, RequestsAreTimely
  <2> QED BY <2>2
<1>2. ASSUME NEW a \in namespaceAccepted PROVE Asked(a)' /\ Timely(a)'
  BY DEF NInv, RequestsAreTimely
<1> QED BY <1>1, <1>2 DEF RequestsAreTimely, Asked, Before, Timely

\* A step of the key table: what is left to show of each.
LEMMA KeyTableStep ==
  ASSUME NInv, NEW n \in Nat, Rows(n)', KeysLinked', OffIsRecorded',
         UNCHANGED <<namespaceNow, namespaceAccepted>>, Ids \subseteq Ids',
         \A x \in NamespaceWorkers : namespaceW'[x] = namespaceW[x] \/ namespaceW'[x].pc = "idle",
         \A k \in Ids : /\ keys'[k].ns = keys[k].ns
                        /\ keys'[k].status # "active" =>
                              \/ keys'[k].marked = namespaceNow
                              \/ /\ keys[k].status # "active" /\ keys'[k].marked = keys[k].marked
                                 /\ keys'[k].deadline = keys[k].deadline,
         \A k \in DOMAIN off' : (k \in DOMAIN off /\ off'[k] = off[k]) \/ off'[k] = namespaceNow,
         ~columns' => NothingRotated'
  PROVE  NInv'
<1>1. namespaceNow \in Nat /\ namespaceNow <= namespaceNow' /\ namespaceNow' \in Nat
  BY NamespaceAssumption DEF NInv, Rows
<1>2. \A a : Asked(a) => /\ Asked(a)' /\ (Timely(a) => Timely(a)') /\ (Before(a) => Before(a)')
  BY <1>1, KeysMoveOn
<1>3. RequestsAreTimely'
  BY <1>2, RequestsMoveOn
<1> QED BY <1>3 DEF NInv

\* A step of the workers: the key table and the clock stay.
LEMMA WorkerStep ==
  ASSUME NInv, UNCHANGED <<keys, off, namespaceNow>>, columns' \in BOOLEAN, columns => columns',
         namespaceW' \in [NamespaceWorkers -> Held], RequestsAreTimely',
         ~columns' => \A x \in NamespaceWorkers : namespaceW'[x].pc # "rotating"
  PROVE  NInv'
<1>1. PICK n \in Nat : Rows(n)
  BY DEF NInv
<1>2. Rows(n)'
  BY <1>1 DEF Rows
<1>3. KeysLinked' /\ OffIsRecorded'
  BY DEF NInv, KeysLinked, Linked, OffIsRecorded, Ids
<1>4. ~columns' => NothingRotated'
  BY DEF NInv, NothingRotated, Ids
<1> QED BY <1>2, <1>3, <1>4 DEF NInv

LEMMA RegisterKeeps == ASSUME NInv, NEW ns \in Namespaces, RegisterApiKey(ns) PROVE NInv'
<1> USE NamespaceAssumption
<1>1. PICK n \in Nat : Rows(n)
  BY DEF NInv
<1>2. Ids = 1 .. n /\ NewId = n + 1
  BY <1>1, IdsAre
<1> DEFINE new == [ns |-> ns, active |-> TRUE, status |-> "active", deadline |-> -1,
                   from |-> None, to |-> None, created |-> namespaceNow, marked |-> -1]
<1>3. namespaceNow \in Nat /\ new \in KeyRow /\ new.status = "active" /\ new.active /\ new.marked = -1
  BY <1>1 DEF Rows, KeyRow, None
<1>4. /\ n + 1 <= NamespaceMaxKeys /\ keys' = [i \in 1 .. n \cup {n + 1} |-> IF i = n + 1 THEN new ELSE keys[i]]
      /\ UNCHANGED <<columns, namespaceW, namespaceAccepted, off, namespaceNow>>
  BY <1>2 DEF RegisterApiKey, With
<1> HIDE DEF new
<1>5. 1 .. n \cup {n + 1} = 1 .. n + 1 /\ DOMAIN keys' = 1 .. n + 1
  BY <1>4
<1>6. /\ keys'[n + 1] = new
      /\ \A k \in Ids : keys'[k] = keys[k]
  BY <1>2, <1>4
<1>7. Ids' = Ids \cup {n + 1}
  BY <1>2, <1>5 DEF Ids
<1>8. Rows(n + 1)'
  <2>1. keys' \in [1 .. n + 1 -> KeyRow]
    BY <1>1, <1>3, <1>4, <1>5 DEF Rows
  <2> QED BY <1>1, <1>4, <2>1 DEF Rows
<1>9. KeysLinked'
  <2>1. ASSUME NEW k \in Ids PROVE Linked(k)' /\ keys'[k].marked <= namespaceNow
    <3>1. Linked(k) /\ keys[k].marked <= namespaceNow
      BY DEF NInv, KeysLinked
    <3> QED BY <1>6, <1>7, <3>1 DEF Linked
  <2>2. Linked(n + 1)' /\ keys'[n + 1].marked <= namespaceNow
    BY <1>3, <1>6 DEF Linked
  <2> QED BY <1>4, <1>7, <2>1, <2>2 DEF KeysLinked
<1>10. OffIsRecorded'
  BY <1>3, <1>4, <1>6, <1>7 DEF NInv, OffIsRecorded
<1>11. ~columns' => NothingRotated'
  BY <1>3, <1>4, <1>6, <1>7 DEF NInv, NothingRotated
<1> QED BY <1>4, <1>6, <1>7, <1>8, <1>9, <1>10, <1>11, KeyTableStep

LEMMA DeactivateKeeps == ASSUME NInv, NEW k \in Ids, DeactivateApiKey(k) PROVE NInv'
<1> USE NamespaceAssumption
<1>1. PICK n \in Nat : Rows(n)
  BY DEF NInv
<1>2. Ids = 1 .. n
  BY <1>1, IdsAre
<1>3. /\ keys' = [keys EXCEPT ![k].active = FALSE]
      /\ off' = [i \in DOMAIN off \cup {k} |-> IF i = k THEN namespaceNow ELSE off[i]]
      /\ UNCHANGED <<columns, namespaceW, namespaceAccepted, namespaceNow>>
  BY DEF DeactivateApiKey
<1>4. keys' \in [1 .. n -> KeyRow] /\ Ids' = Ids
  BY <1>1, <1>2, <1>3 DEF Rows, KeyRow, Ids
<1>5. \A i \in Ids : /\ keys'[i].ns = keys[i].ns /\ keys'[i].status = keys[i].status
                     /\ keys'[i].deadline = keys[i].deadline /\ keys'[i].marked = keys[i].marked
                     /\ keys'[i].to = keys[i].to /\ keys'[i].from = keys[i].from
  BY <1>1, <1>2, <1>3 DEF Rows, KeyRow
<1>6. \A i \in Ids : i # k => keys'[i] = keys[i]
  BY <1>1, <1>2, <1>3 DEF Rows
<1>6a. ~keys'[k].active
  BY <1>1, <1>2, <1>3 DEF Rows, KeyRow
<1>7. Rows(n)'
  BY <1>1, <1>3, <1>4 DEF Rows
<1>8. KeysLinked'
  BY <1>3, <1>4, <1>5 DEF NInv, KeysLinked, Linked
<1>9. OffIsRecorded'
  BY <1>1, <1>3, <1>4, <1>6, <1>6a DEF NInv, OffIsRecorded, Rows
<1>10. ~columns' => NothingRotated'
  BY <1>3, <1>4, <1>5 DEF NInv, NothingRotated
<1>11. \A i \in DOMAIN off' : (i \in DOMAIN off /\ off'[i] = off[i]) \/ off'[i] = namespaceNow
  BY <1>3
<1> QED BY <1>3, <1>4, <1>5, <1>7, <1>8, <1>9, <1>10, <1>11, KeyTableStep

LEMMA SweepKeeps == ASSUME NInv, SweepNamespaceKeys PROVE NInv'
<1>1. PICK n \in Nat : Rows(n)
  BY DEF NInv
<1>2. Ids = 1 .. n
  BY <1>1, IdsAre
<1>3. /\ keys' = [k \in Ids |-> IF keys[k].status = "rotating" /\ keys[k].deadline < namespaceNow
                                THEN [keys[k] EXCEPT !.status = "revoked"] ELSE keys[k]]
      /\ columns' = TRUE /\ UNCHANGED <<namespaceW, namespaceAccepted, off, namespaceNow>>
  BY DEF SweepNamespaceKeys
<1>4. \A k \in Ids : keys[k] \in KeyRow
  BY <1>1, <1>2 DEF Rows
<1>5. Ids' = Ids /\ \A k \in Ids : /\ keys'[k] \in KeyRow /\ keys'[k].active = keys[k].active
                     /\ keys'[k].ns = keys[k].ns /\ (keys'[k].status # "active" => keys[k].status # "active")
                     /\ keys'[k].deadline = keys[k].deadline /\ keys'[k].marked = keys[k].marked
                     /\ keys'[k].to = keys[k].to /\ keys'[k].from = keys[k].from
  BY <1>3, <1>4 DEF KeyRow, Ids
<1>6. Rows(n)'
  BY <1>1, <1>2, <1>3, <1>5 DEF Rows
<1>7. KeysLinked'
  BY <1>3, <1>5 DEF NInv, KeysLinked, Linked
<1>8. OffIsRecorded'
  BY <1>3, <1>5 DEF NInv, OffIsRecorded
<1> QED BY <1>3, <1>5, <1>6, <1>7, <1>8, KeyTableStep

LEMMA RotateWriteKeeps == ASSUME NInv, NEW x \in NamespaceWorkers, RotateWrite(x) PROVE NInv'
<1> USE NamespaceAssumption
<1>1. PICK n \in Nat : Rows(n)
  BY DEF NInv
<1>2. Ids = 1 .. n /\ NewId = n + 1
  BY <1>1, IdsAre
<1>0. PICK c, k : c = namespaceW[x] /\ k = c.key
  OBVIOUS
<1> DEFINE old == [keys[k] EXCEPT !.status = "rotating", !.deadline = c.at + NamespaceGrace,
                                  !.to = n + 1, !.marked = namespaceNow]
           new == [ns |-> c.ns, active |-> TRUE, status |-> "active", deadline |-> -1,
                   from |-> k, to |-> None, created |-> c.at, marked |-> -1]
<1>3. /\ c.pc = "rotating" /\ n + 1 <= NamespaceMaxKeys
      /\ keys' = [i \in 1 .. n \cup {n + 1} |-> IF i = k THEN old ELSE IF i = n + 1 THEN new ELSE keys[i]]
      /\ namespaceW' = [namespaceW EXCEPT ![x] = NamespaceIdle]
      /\ UNCHANGED <<columns, namespaceAccepted, off, namespaceNow>>
  BY <1>0, <1>2 DEF RotateWrite
<1>4. /\ k \in 1 .. n /\ c.ns = keys[k].ns /\ c.at \in Nat /\ keys[k] \in KeyRow
      /\ keys[k].ns \in Namespaces /\ namespaceNow \in Nat /\ columns
  <2>1. k \in 1 .. n /\ c.ns = keys[k].ns /\ c.at \in Nat
    BY <1>0, <1>2, <1>3 DEF NInv, RequestsAreTimely, Asked
  <2>2. keys[k] \in KeyRow /\ keys[k].ns \in Namespaces
    BY <1>1, <2>1 DEF Rows, KeyRow
  <2>3. namespaceNow \in Nat
    BY <1>1 DEF Rows
  <2>4. columns
    BY <1>0, <1>3 DEF NInv, NothingRotated
  <2> QED BY <2>1, <2>2, <2>3, <2>4
<1>5. /\ old \in KeyRow /\ old.ns = keys[k].ns /\ old.status = "rotating" /\ old.to = n + 1
      /\ old.from = keys[k].from /\ old.marked = namespaceNow /\ old.active = keys[k].active
  <2>1. c.at + NamespaceGrace \in Int /\ n + 1 \in Nat
    BY <1>4
  <2> DEFINE row == keys[k]
             d == c.at + NamespaceGrace
  <2>2. row \in KeyRow /\ d \in Int /\ n + 1 \in Nat /\ namespaceNow \in Int
    BY <1>4, <2>1
  <2>3. old = [row EXCEPT !.status = "rotating", !.deadline = d, !.to = n + 1, !.marked = namespaceNow]
    OBVIOUS
  <2> HIDE DEF row, d, old
  <2>4. old \in KeyRow
    BY <2>2, <2>3 DEF KeyRow
  <2>5. /\ old.ns = row.ns /\ old.status = "rotating" /\ old.to = n + 1
        /\ old.from = row.from /\ old.marked = namespaceNow /\ old.active = row.active
    BY <2>2, <2>3 DEF KeyRow
  <2> QED BY <2>4, <2>5 DEF row
<1>6. /\ new \in KeyRow /\ new.ns = keys[k].ns /\ new.status = "active" /\ new.from = k
      /\ new.marked = -1 /\ new.active
  BY <1>4 DEF KeyRow, None
<1> HIDE DEF old, new
<1>7. 1 .. n \cup {n + 1} = 1 .. n + 1 /\ DOMAIN keys' = 1 .. n + 1
  BY <1>3
<1>8. /\ keys'[k] = old /\ keys'[n + 1] = new
      /\ \A i \in Ids : i # k => keys'[i] = keys[i]
  BY <1>2, <1>3, <1>4
<1>9. Ids' = Ids \cup {n + 1}
  BY <1>2, <1>7 DEF Ids
<1>10. Rows(n + 1)'
  <2>1. keys' \in [1 .. n + 1 -> KeyRow]
    BY <1>1, <1>3, <1>5, <1>6, <1>7 DEF Rows
  <2>2. namespaceW' \in [NamespaceWorkers -> Held]
    <3>1. NamespaceIdle \in Held
      BY DEF Held, NamespaceIdle, None
    <3> QED BY <1>1, <1>3, <3>1 DEF Rows
  <2> QED BY <1>1, <1>3, <2>1, <2>2 DEF Rows
<1>11. KeysLinked'
  <2>1. ASSUME NEW i \in Ids, i # k PROVE Linked(i)' /\ keys'[i].marked <= namespaceNow
    <3>1. Linked(i) /\ keys[i].marked <= namespaceNow
      BY DEF NInv, KeysLinked
    <3>2. \A j \in Ids : keys'[j].ns = keys[j].ns /\ keys'[j].from = keys[j].from
      BY <1>5, <1>8
    <3> QED BY <1>8, <1>9, <2>1, <3>1, <3>2 DEF Linked
  <2>2. Linked(k)' /\ keys'[k].marked <= namespaceNow
    BY <1>4, <1>5, <1>6, <1>8, <1>9 DEF Linked
  <2>3. Linked(n + 1)' /\ keys'[n + 1].marked <= namespaceNow
    BY <1>4, <1>6, <1>8 DEF Linked
  <2> QED BY <1>3, <1>9, <2>1, <2>2, <2>3 DEF KeysLinked
<1>12. OffIsRecorded'
  <2>1. OffIsRecorded
    BY DEF NInv
  <2>2. \A i \in DOMAIN off : keys'[i].active = keys[i].active /\ i \in Ids'
    BY <1>5, <1>8, <1>9, <2>1 DEF OffIsRecorded
  <2> QED BY <1>3, <2>1, <2>2 DEF OffIsRecorded
<1>13. \A i \in Ids : /\ keys'[i].ns = keys[i].ns
                      /\ keys'[i].status # "active" =>
                            \/ keys'[i].marked = namespaceNow
                            \/ /\ keys[i].status # "active" /\ keys'[i].marked = keys[i].marked
                               /\ keys'[i].deadline = keys[i].deadline
  BY <1>5, <1>8
<1>14. \A y \in NamespaceWorkers : namespaceW'[y] = namespaceW[y] \/ namespaceW'[y].pc = "idle"
  BY <1>1, <1>3 DEF Rows, NamespaceIdle
<1> QED BY <1>3, <1>4, <1>9, <1>10, <1>11, <1>12, <1>13, <1>14, KeyTableStep

\* A worker's request becomes h.
LEMMA WorkerTakes ==
  ASSUME NInv, UNCHANGED <<keys, off, namespaceNow, namespaceAccepted>>, columns' \in BOOLEAN, columns => columns',
         NEW x \in NamespaceWorkers, NEW h \in Held, namespaceW' = [namespaceW EXCEPT ![x] = h],
         /\ h.pc # "idle" => Asked(h)
         /\ h.pc = "legacy" => Before(h)
         /\ h.pc = "looked" => Timely(h)
         /\ h.pc = "rotating" => columns'
  PROVE  NInv'
<1>1. namespaceW' \in [NamespaceWorkers -> Held]
  BY DEF NInv, Rows
<1>2. \A y \in NamespaceWorkers : namespaceW'[y] = IF y = x THEN h ELSE namespaceW[y]
  BY DEF NInv, Rows
<1>3. RequestsAreTimely'
  BY <1>2 DEF NInv, RequestsAreTimely, Asked, Before, Timely, Ids
<1>4. ~columns' => \A y \in NamespaceWorkers : namespaceW'[y].pc # "rotating"
  BY <1>2 DEF NInv, NothingRotated
<1> QED BY <1>1, <1>3, <1>4, WorkerStep

LEMMA LookupStartKeeps ==
  ASSUME NInv, NEW x \in NamespaceWorkers, NEW k, LookupStart(x, k) PROVE NInv'
<1>1. PICK n \in Nat : Rows(n)
  BY DEF NInv
<1>2. k \in 1 .. n /\ keys[k] \in KeyRow /\ keys[k].ns \in Namespaces /\ namespaceNow \in Nat
  <2>1. k \in 1 .. n
    BY <1>1, IdsAre DEF LookupStart
  <2>2. keys[k] \in KeyRow
    BY <1>1, <2>1 DEF Rows
  <2>3. keys[k].ns \in Namespaces
    BY <2>2 DEF KeyRow
  <2>4. namespaceNow \in Nat
    BY <1>1, NamespaceAssumption DEF Rows
  <2> QED BY <2>1, <2>2, <2>3, <2>4
<1> DEFINE p == IF columns THEN "read" ELSE "legacy"
           h == [pc |-> p, key |-> k, ns |-> keys[k].ns, at |-> namespaceNow]
<1>3. h \in Held /\ h.pc = p /\ h.key = k /\ h.ns = keys[k].ns /\ h.at = namespaceNow
  BY <1>2 DEF Held
<1>4. /\ UNCHANGED <<keys, off, namespaceNow, namespaceAccepted, columns>>
      /\ namespaceW' = [namespaceW EXCEPT ![x] = h] /\ k \in Ids
  BY DEF LookupStart
<1>5. (p = "read" \/ p = "legacy") /\ (p = "legacy" => ~columns) /\ columns \in BOOLEAN
  BY <1>1 DEF Rows
<1> HIDE DEF h, p
<1>6. Asked(h)
  BY <1>2, <1>3, <1>4 DEF Asked
<1>7. h.pc = "legacy" => Before(h)
  BY <1>3, <1>4, <1>5 DEF Before, NInv, NothingRotated
<1> QED BY <1>3, <1>4, <1>5, <1>6, <1>7, WorkerTakes

LEMMA LookupReadKeeps == ASSUME NInv, NEW x \in NamespaceWorkers, LookupRead(x) PROVE NInv'
<1>1. PICK n \in Nat : Rows(n)
  BY DEF NInv
<1>2. PICK c : c = namespaceW[x]
  OBVIOUS
<1> DEFINE ok == IF c.pc = "read" THEN NamespaceValid(c.key, c.at) ELSE keys[c.key].active
           h == IF ok THEN [c EXCEPT !.pc = "looked"] ELSE NamespaceIdle
<1>3. /\ c.pc \in {"read", "legacy"} /\ namespaceW' = [namespaceW EXCEPT ![x] = h]
      /\ UNCHANGED <<keys, columns, namespaceAccepted, off, namespaceNow>>
  BY <1>2 DEF LookupRead
<1>4. c \in Held /\ Asked(c) /\ (c.pc = "legacy" => Before(c))
  BY <1>1, <1>2, <1>3 DEF NInv, RequestsAreTimely, Rows
<1>5. NamespaceIdle \in Held /\ NamespaceIdle.pc = "idle"
  BY DEF Held, NamespaceIdle, None
<1>6. CASE ~ok
  BY <1>1, <1>3, <1>5, <1>6, WorkerTakes DEF Rows
<1>7. CASE ok
  <2>1. h = [c EXCEPT !.pc = "looked"]
    BY <1>7
  <2>2. /\ h \in Held /\ h.pc = "looked" /\ h.key = c.key /\ h.ns = c.ns /\ h.at = c.at
    BY <1>4, <2>1 DEF Held
  <2>3. keys[c.key].active /\ (c.pc = "read" => NamespaceValid(c.key, c.at))
    BY <1>7 DEF NamespaceValid
  <2> HIDE DEF h, ok
  <2>4. Asked(h)
    BY <1>4, <2>2 DEF Asked
  <2>5. keys[c.key] \in KeyRow /\ c.key \in Ids
    BY <1>1, <1>4, IdsAre DEF Asked, Rows
  <2>6. Timely(h)
    <3>1. (keys[c.key].status # "active" /\ c.at > keys[c.key].marked) => c.at <= keys[c.key].deadline
      <4>1. CASE c.pc = "read"
        BY <2>3, <2>5, <4>1 DEF NamespaceValid, KeyRow
      <4>2. CASE c.pc = "legacy"
        <5>1. keys[c.key].marked \in Int /\ c.at \in Nat
          BY <1>4, <2>5 DEF KeyRow, Asked
        <5> QED BY <1>4, <4>2, <5>1 DEF Before
      <4> QED BY <1>3, <4>1, <4>2
    <3>2. c.key \notin DOMAIN off
      BY <2>3, <2>5 DEF NInv, OffIsRecorded
    <3> QED BY <2>2, <3>1, <3>2 DEF Timely
  <2> QED BY <1>1, <1>3, <2>2, <2>4, <2>6, WorkerTakes DEF Rows
<1> QED BY <1>6, <1>7

LEMMA LookupAnswerKeeps == ASSUME NInv, NEW x \in NamespaceWorkers, LookupAnswer(x) PROVE NInv'
<1>1. PICK n \in Nat : Rows(n)
  BY DEF NInv
<1>2. PICK c, a : c = namespaceW[x] /\ a = [key |-> c.key, ns |-> c.ns, at |-> c.at]
  OBVIOUS
<1>3. /\ c.pc = "looked" /\ namespaceAccepted' = {a}
      /\ namespaceW' = [namespaceW EXCEPT ![x] = NamespaceIdle]
      /\ UNCHANGED <<keys, columns, off, namespaceNow>>
  BY <1>2 DEF LookupAnswer
<1>4. Asked(a) /\ Timely(a)
  <2>1. Asked(c) /\ Timely(c)
    BY <1>2, <1>3 DEF NInv, RequestsAreTimely
  <2> QED BY <1>2, <2>1 DEF Asked, Timely
<1>5. NamespaceIdle \in Held /\ NamespaceIdle.pc = "idle"
  BY DEF Held, NamespaceIdle, None
<1>6. namespaceW' \in [NamespaceWorkers -> Held]
  BY <1>1, <1>3, <1>5 DEF Rows
<1>7. \A y \in NamespaceWorkers : namespaceW'[y] = IF y = x THEN NamespaceIdle ELSE namespaceW[y]
  BY <1>1, <1>3 DEF Rows
<1>8. RequestsAreTimely'
  BY <1>3, <1>4, <1>5, <1>7 DEF NInv, RequestsAreTimely, Asked, Before, Timely, Ids
<1>9. ~columns' => \A y \in NamespaceWorkers : namespaceW'[y].pc # "rotating"
  BY <1>3, <1>5, <1>7 DEF NInv, NothingRotated
<1> QED BY <1>1, <1>3, <1>6, <1>8, <1>9, WorkerStep DEF Rows

LEMMA RotateReadKeeps ==
  ASSUME NInv, NEW x \in NamespaceWorkers, NEW ns \in Namespaces, RotateRead(x, ns) PROVE NInv'
<1>1. PICK n \in Nat : Rows(n)
  BY DEF NInv
<1>2. columns' = TRUE /\ UNCHANGED <<keys, namespaceAccepted, off, namespaceNow>>
  BY DEF RotateRead
<1>3. CASE namespaceW' = namespaceW
  <2>1. RequestsAreTimely'
    BY <1>2, <1>3 DEF NInv, RequestsAreTimely, Asked, Before, Timely, Ids
  <2> QED BY <1>1, <1>2, <1>3, <2>1, WorkerStep DEF Rows
<1>4. ASSUME NEW k \in Ids, keys[k].ns = ns,
             namespaceW' = [namespaceW EXCEPT ![x] = [pc |-> "rotating", key |-> k, ns |-> ns, at |-> namespaceNow]]
      PROVE  NInv'
  <2> DEFINE h == [pc |-> "rotating", key |-> k, ns |-> ns, at |-> namespaceNow]
  <2>1. k \in Nat /\ namespaceNow \in Nat
    BY <1>1, IdsAre, NamespaceAssumption DEF Rows
  <2>2. h \in Held /\ h.pc = "rotating" /\ h.key = k /\ h.ns = ns /\ h.at = namespaceNow
    BY <2>1 DEF Held
  <2>3. namespaceW' = [namespaceW EXCEPT ![x] = h]
    BY <1>4
  <2> HIDE DEF h
  <2>4. Asked(h)
    BY <1>4, <2>1, <2>2 DEF Asked
  <2> QED BY <1>2, <2>2, <2>3, <2>4, WorkerTakes
<1> QED BY <1>3, <1>4 DEF RotateRead

LEMMA TickKeeps == ASSUME NInv, NamespaceTick PROVE NInv'
<1>1. PICK n \in Nat : Rows(n)
  BY DEF NInv
<1>2. /\ namespaceNow \in Nat /\ namespaceNow' = namespaceNow + 1 /\ namespaceNow < NamespaceMaxTime
      /\ UNCHANGED <<keys, columns, namespaceW, namespaceAccepted, off>>
  BY <1>1, NamespaceAssumption DEF NamespaceTick, Rows
<1>3. Rows(n)'
  BY <1>1, <1>2, NamespaceAssumption DEF Rows
<1>4. \A k \in Ids : keys[k].marked \in Int
  <2>1. \A k \in Ids : keys[k] \in KeyRow
    BY <1>1, IdsAre DEF Rows
  <2> QED BY <2>1 DEF KeyRow
<1>5. KeysLinked'
  BY <1>2, <1>4 DEF NInv, KeysLinked, Linked, Ids
<1>6. OffIsRecorded'
  BY <1>2 DEF NInv, OffIsRecorded, Ids
<1>7. RequestsAreTimely'
  BY <1>2 DEF NInv, RequestsAreTimely, Asked, Before, Timely, Ids
<1>8. ~columns' => NothingRotated'
  BY <1>2 DEF NInv, NothingRotated, Ids
<1> QED BY <1>3, <1>5, <1>6, <1>7, <1>8 DEF NInv

LEMMA NNext == NInv /\ [NamespaceNext]_namespaceVars => NInv'
<1> SUFFICES ASSUME NInv, [NamespaceNext]_namespaceVars PROVE NInv'
  OBVIOUS
<1>1. CASE UNCHANGED namespaceVars
  <2>1. UNCHANGED <<keys, columns, namespaceW, namespaceAccepted, off, namespaceNow>>
    BY <1>1 DEF namespaceVars
  <2>2. \E n \in Nat : Rows(n)'
    BY <2>1 DEF NInv, Rows
  <2>3. KeysLinked' /\ OffIsRecorded' /\ RequestsAreTimely' /\ (~columns' => NothingRotated')
    BY <2>1 DEF NInv, KeysLinked, Linked, OffIsRecorded, RequestsAreTimely, Asked, Before, Timely, Ids, NothingRotated
  <2> QED BY <2>2, <2>3 DEF NInv
<1>2. \A k : DeactivateApiKey(k) => k \in Ids
  BY DEF DeactivateApiKey
<1>3. CASE NamespaceNext
  BY <1>2, <1>3, RegisterKeeps, DeactivateKeeps, SweepKeeps, RotateWriteKeeps, LookupStartKeeps,
     LookupReadKeeps, LookupAnswerKeeps, RotateReadKeeps, TickKeeps DEF NamespaceNext
<1> QED BY <1>1, <1>3

\* The youngest key of a namespace was never rotated.
LEMMA NImplies == NInv => NamespaceTypeOK /\ RotationKeepsAccess
<1> SUFFICES ASSUME NInv PROVE NamespaceTypeOK /\ RotationKeepsAccess
  OBVIOUS
<1>1. PICK n \in Nat : Rows(n)
  BY DEF NInv
<1>2. Ids = 1 .. n /\ n <= NamespaceMaxKeys
  BY <1>1, IdsAre, NamespaceAssumption DEF Rows
<1>3. NamespaceTypeOK
  <2>1. \A k \in Ids : keys[k] \in KeyRow
    BY <1>1, <1>2 DEF Rows
  <2>2. \A k \in Ids : keys[k].ns \in Namespaces /\ keys[k].status \in {"active", "rotating", "revoked"}
    BY <2>1 DEF KeyRow
  <2>3. Ids \subseteq 1 .. NamespaceMaxKeys
    BY <1>2, NamespaceAssumption
  <2> QED BY <1>1, <2>2, <2>3 DEF Rows, NamespaceTypeOK
<1>4. ASSUME NEW ns, NEW k \in Ids, keys[k].ns = ns
      PROVE  \E i \in Ids : keys[i].ns = ns /\ keys[i].status = "active"
  <2> DEFINE mine == {i \in Ids : keys[i].ns = ns}
  <2>1. mine \subseteq 1 .. n /\ mine # {}
    BY <1>2, <1>4
  <2>2. PICK i \in mine : \A j \in mine : j <= i
    <3> HIDE DEF mine
    <3> QED BY <2>1, GreatestNatural
  <2>3. Linked(i)
    BY DEF NInv, KeysLinked
  <2>4. ASSUME keys[i].status # "active" PROVE FALSE
    <3>1. keys[i].to \in mine /\ keys[i].to > i
      BY <2>3, <2>4 DEF Linked
    <3>2. keys[i].to <= i /\ keys[i].to \in Nat /\ i \in Nat
      BY <2>1, <2>2, <3>1
    <3> QED BY <3>1, <3>2
  <2> QED BY <2>4
<1>5. \A k \in Ids : keys[k].status # "active" =>
        /\ keys[k].to \in Ids /\ keys[keys[k].to].ns = keys[k].ns /\ keys[keys[k].to].from = k
  BY DEF NInv, KeysLinked, Linked
<1>6. \A a \in namespaceAccepted :
        /\ keys[a.key].ns = a.ns
        /\ (keys[a.key].status # "active" /\ a.at > keys[a.key].marked) => a.at <= keys[a.key].deadline
        /\ a.key \in DOMAIN off => a.at <= off[a.key]
  BY DEF NInv, RequestsAreTimely, Asked, Timely
<1> QED BY <1>3, <1>4, <1>5, <1>6 DEF RotationKeepsAccess

(* namespace.py: for any number of namespaces, keys and workers, no         *)
(* rotation, not even two at once, leaves a tenant without a key, and a key *)
(* answers for its own namespace and only while its grace lasts.            *)
THEOREM RotationAlwaysKeepsAccess == NamespaceSpec => [](NamespaceTypeOK /\ RotationKeepsAccess)
BY NInit, NNext, NImplies, PTL DEF NamespaceSpec

(* Access ends when it should, in the gateway, in the token service and for *)
(* the keys of the namespaces (gateway.py, auth.py, namespace.py).          *)
THEOREM AccessAlwaysBounded == GatewaySpec /\ TokenSpec /\ NamespaceSpec => []AccessIsBounded
<1>1. (GatewayTypeOK /\ QuotaOvershootBounded) /\ (TokenTypeOK /\ StaleTokenEndsFamily)
        /\ (NamespaceTypeOK /\ RotationKeepsAccess) => AccessIsBounded
  BY DEF AccessIsBounded
<1> QED
  BY <1>1, QuotasAlwaysBounded, StaleTokensAlwaysEndFamilies, RotationAlwaysKeepsAccess, PTL
=============================================================================
