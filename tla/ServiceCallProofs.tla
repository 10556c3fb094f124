------------------------- MODULE ServiceCallProofs --------------------------
(***************************************************************************)
(* The circuit breaker and the streams of the API, for every instance.     *)
(*                                                                         *)
(* The breaker's state, its failure counter and its recovery timer always  *)
(* agree; with the types that is inductive.  The counter of HTTP requests  *)
(* is the number of those that run, so a drain that saw zero left none.    *)
(* The Redis counter of event streams never exceeds the connections and    *)
(* the responses never begun, even after it expired.  What a gRPC client   *)
(* got and what is still in the buffer are the scored requests up to where *)
(* the producer is, or up to where it gave up.  And the SDK shows "open"   *)
(* only while no reconnection is being counted.                            *)
(***************************************************************************)
EXTENDS CircuitBreaker, ApiStreams, FiniteSetTheorems, WellFoundedInduction, TLAPS

-----------------------------------------------------------------------------
(* The circuit breaker.                                                    *)

IInv == TypeOK /\ BookkeepingAgrees

LEMMA InitIInv == Init => IInv
  BY BreakerAssumption DEF Init, IInv, TypeOK, BookkeepingAgrees, CircuitState, NotOpened

LEMMA NextIInv == IInv /\ [Next]_vars => IInv'
<1> SUFFICES ASSUME IInv, [Next]_vars PROVE IInv'
  OBVIOUS
<1> USE BreakerAssumption DEF IInv, TypeOK, BookkeepingAgrees, CircuitState, NotOpened
<1>1. ASSUME NEW c \in Callers, CallAdmitted(c) PROVE IInv'
  BY <1>1 DEF CallAdmitted, MaybeHalfOpen
<1>2. ASSUME NEW c \in Callers, RecordSuccess(c) PROVE IInv'
  BY <1>2 DEF RecordSuccess, Close
<1>3. ASSUME NEW c \in Callers, RecordFailure(c) PROVE IInv'
  BY <1>3 DEF RecordFailure, Bumped, Open
<1>4. CASE Inspect
  BY <1>4 DEF Inspect, MaybeHalfOpen
<1>5. CASE Tick
  BY <1>5 DEF Tick
<1>6. CASE UNCHANGED vars
  BY <1>6 DEF vars
<1>7. QED
  BY <1>1, <1>2, <1>3, <1>4, <1>5, <1>6 DEF Next

(* Type correctness of the breaker, for every instance.                     *)
THEOREM BreakerTypeCorrect == Spec => []TypeOK
<1>1. IInv => TypeOK
  BY DEF IInv
<1>2. QED
  BY <1>1, InitIInv, NextIInv, PTL DEF Spec

(* The state, _failure_count and _opened_at of utils/circuit_breaker.py     *)
(* agree in every reachable state: in particular an open circuit always has *)
(* a timer, so it cannot be stuck open.                                     *)
THEOREM BreakerBookkeeping == Spec => []BookkeepingAgrees
<1>1. IInv => BookkeepingAgrees
  BY DEF IInv
<1>2. QED
  BY <1>1, InitIInv, NextIInv, PTL DEF Spec

-----------------------------------------------------------------------------
(* The API server.                                                         *)

\* The requests that are counted.
Busy == {r \in Requests : http[r] \in {"running", "health"}}

ServerInv == ServerTypeOK /\ inflight = Cardinality(Busy) /\ DrainedBeforeClose

LEMMA BusyIsFinite ==
  IsFiniteSet(Busy) /\ Cardinality(Busy) \in Nat /\ Cardinality(Requests) \in Nat
    /\ Cardinality(Busy) <= Cardinality(Requests)
BY ServerAssumption, FS_Subset, FS_CardinalityType DEF Busy

LEMMA ServerInitInv == ServerInit => ServerInv
<1> SUFFICES ASSUME ServerInit PROVE ServerInv
  OBVIOUS
<1>1. Busy = {} /\ Cardinality({}) = 0
  BY FS_EmptySet DEF ServerInit, Busy
<1>2. ServerTypeOK
  <2>1. 0 \in 0 .. Cardinality(Requests) /\ 1 \in 1 .. MaxKeys /\ 0 \in 0 .. MaxKeys
    BY BusyIsFinite, ServerAssumption
  <2>2. cast \in [left : SUBSET Sockets, dead : SUBSET Sockets, on : BOOLEAN]
    BY DEF ServerInit, NoCast
  <2>3. sock \in [Sockets -> [at : {"none", "accepting", "open", "dropping", "gone"}, key : 0 .. MaxKeys]]
    BY <2>1 DEF ServerInit
  <2> QED BY <2>1, <2>2, <2>3 DEF ServerInit, ServerTypeOK
<1> QED BY <1>1, <1>2 DEF ServerInit, ServerInv, DrainedBeforeClose

\* A step that begins and ends no request and leaves the lifespan alone.
LEMMA SessionStep ==
  ASSUME ServerInv, UNCHANGED <<http, inflight, life, serverExpired>>, ServerTypeOK'
  PROVE  ServerInv'
<1>1. Busy' = Busy
  BY DEF Busy
<1> QED BY <1>1 DEF ServerInv, DrainedBeforeClose

LEMMA ServerNextInv == ServerInv /\ [ServerNext]_serverVars => ServerInv'
<1> SUFFICES ASSUME ServerInv, [ServerNext]_serverVars PROVE ServerInv'
  OBVIOUS
<1> USE ServerAssumption
<1>a. ServerTypeOK /\ inflight = Cardinality(Busy) /\ DrainedBeforeClose
  BY DEF ServerInv
<1>1. CASE Shutdown
  BY <1>a, <1>1 DEF Shutdown, ServerInv, ServerTypeOK, Busy, DrainedBeforeClose
<1>2. CASE DrainEnds
  <2>1. ServerTypeOK' /\ Busy' = Busy
    BY <1>a, <1>2 DEF DrainEnds, ServerDrained, ServerTypeOK, Busy
  <2>2. DrainedBeforeClose'
    <3>1. CASE ServerDrained
      <4>1. Busy = {}
        BY <1>a, <3>1, BusyIsFinite, FS_EmptySet DEF ServerDrained
      <4> QED BY <1>2, <4>1 DEF DrainEnds, Busy, DrainedBeforeClose
    <3>2. CASE serverExpired' = TRUE
      BY <3>2 DEF DrainedBeforeClose
    <3> QED BY <1>2, <3>1, <3>2 DEF DrainEnds
  <2> QED BY <1>a, <1>2, <2>1, <2>2 DEF DrainEnds, ServerInv
<1>3. CASE CloseResources
  <2>1. ServerTypeOK' /\ Busy' = Busy
    BY <1>a, <1>3 DEF CloseResources, ServerTypeOK, Busy
  <2> QED BY <1>a, <1>3, <2>1 DEF CloseResources, ServerInv, DrainedBeforeClose
<1>4. ASSUME NEW r \in Requests, EndRequest(r) PROVE ServerInv'
  <2>1. /\ r \in Busy /\ http' = [http EXCEPT ![r] = "done"] /\ inflight' = inflight - 1
        /\ UNCHANGED <<life, serverExpired, adminKey, sock, conns, toClose, cast>>
    BY <1>4 DEF EndRequest, Busy
  <2>2. Busy' = Busy \ {r}
    BY <1>a, <2>1 DEF Busy, ServerTypeOK
  <2>3. Cardinality(Busy') = Cardinality(Busy) - 1
    BY <2>1, <2>2, BusyIsFinite, FS_RemoveElement
  <2>4. inflight' \in 0 .. Cardinality(Requests)
    <3>1. Cardinality(Busy) # 0
      BY <2>1, BusyIsFinite, FS_EmptySet
    <3> QED BY <1>a, <2>1, <3>1, BusyIsFinite
  <2>5. ServerTypeOK'
    BY <1>a, <2>1, <2>4 DEF ServerTypeOK
  <2> QED BY <1>a, <2>1, <2>3, <2>5 DEF ServerInv, DrainedBeforeClose, ServerTypeOK
<1>5. ASSUME NEW r \in Requests, NEW kind \in {"running", "health"}, BeginRequest(r, kind) PROVE ServerInv'
  <2>1. http[r] = "new" /\ UNCHANGED <<life, serverExpired, adminKey, sock, conns, toClose, cast>>
    BY <1>5 DEF BeginRequest
  <2>2. CASE ShuttingDown /\ kind # "health"
    <3>1. http' = [http EXCEPT ![r] = "done"] /\ inflight' = inflight
      BY <1>5, <2>2 DEF BeginRequest
    <3>2. Busy' = Busy
      BY <1>a, <2>1, <3>1 DEF Busy, ServerTypeOK
    <3>3. ServerTypeOK'
      BY <1>a, <2>1, <3>1 DEF ServerTypeOK
    <3> QED BY <1>a, <2>1, <3>1, <3>2, <3>3 DEF ServerInv, DrainedBeforeClose, ServerTypeOK
  <2>3. CASE ~ShuttingDown \/ kind = "health"
    <3>1. http' = [http EXCEPT ![r] = kind] /\ inflight' = inflight + 1
      BY <1>5, <2>3 DEF BeginRequest
    <3>2. Busy' = Busy \cup {r} /\ r \notin Busy
      BY <1>a, <2>1, <3>1 DEF Busy, ServerTypeOK
    <3>3. /\ Cardinality(Busy') = Cardinality(Busy) + 1
          /\ Cardinality(Busy') <= Cardinality(Requests)
      <4>1. Busy' \in SUBSET Requests
        BY DEF Busy
      <4> QED BY <3>2, <4>1, BusyIsFinite, FS_AddElement, FS_Subset
    <3>4. ServerTypeOK'
      BY <1>a, <2>1, <3>1, <3>3, BusyIsFinite DEF ServerTypeOK
    <3> QED BY <1>a, <2>1, <2>3, <3>1, <3>3, <3>4 DEF ServerInv, DrainedBeforeClose, ServerTypeOK, ShuttingDown
  <2> QED BY <2>2, <2>3
<1>6. CASE RotateAdminKey
  <2>1. ServerTypeOK'
    BY <1>a, <1>6 DEF RotateAdminKey, ServerTypeOK
  <2> QED BY <1>6, <2>1, SessionStep DEF RotateAdminKey
<1>7. CASE Broadcast
  <2>1. ServerTypeOK'
    BY <1>a, <1>7 DEF Broadcast, ServerTypeOK
  <2> QED BY <1>7, <2>1, SessionStep DEF Broadcast
<1>8. CASE EndBroadcast
  <2>1. ServerTypeOK'
    BY <1>a, <1>8 DEF EndBroadcast, ServerTypeOK, NoCast
  <2> QED BY <1>8, <2>1, SessionStep DEF EndBroadcast
<1>9. ASSUME NEW s \in Sockets, CloseNext(s) PROVE ServerInv'
  <2>1. ServerTypeOK'
    BY <1>a, <1>9 DEF CloseNext, ServerTypeOK
  <2> QED BY <1>9, <2>1, SessionStep DEF CloseNext
<1>10. ASSUME NEW s \in Sockets, Accepted(s) PROVE ServerInv'
  <2>1. ServerTypeOK'
    BY <1>a, <1>10 DEF Accepted, ServerTypeOK
  <2> QED BY <1>10, <2>1, SessionStep DEF Accepted
<1>11. ASSUME NEW s \in Sockets, Disconnect(s) PROVE ServerInv'
  <2>1. ServerTypeOK'
    BY <1>a, <1>11 DEF Disconnect, ServerTypeOK
  <2> QED BY <1>11, <2>1, SessionStep DEF Disconnect
<1>12. ASSUME NEW s \in Sockets, AuthRecheck(s) PROVE ServerInv'
  <2>1. ServerTypeOK'
    BY <1>a, <1>12 DEF AuthRecheck, ServerTypeOK
  <2> QED BY <1>12, <2>1, SessionStep DEF AuthRecheck
<1>13. ASSUME NEW s \in Sockets, AuthDrop(s) PROVE ServerInv'
  <2>1. ServerTypeOK'
    BY <1>a, <1>13 DEF AuthDrop, ServerTypeOK
  <2> QED BY <1>13, <2>1, SessionStep DEF AuthDrop
<1>14. ASSUME NEW s \in Sockets, SendAlert(s) PROVE ServerInv'
  <2>1. ServerTypeOK'
    <3>1. cast' = [cast EXCEPT !.left = @ \ {s}] \/ cast' = [cast EXCEPT !.left = @ \ {s}, !.dead = @ \cup {s}]
      BY <1>14 DEF SendAlert
    <3>2. cast \in [left : SUBSET Sockets, dead : SUBSET Sockets, on : BOOLEAN]
      BY <1>a DEF ServerTypeOK
    <3>3. cast' \in [left : SUBSET Sockets, dead : SUBSET Sockets, on : BOOLEAN]
      BY <3>1, <3>2
    <3> QED BY <1>a, <1>14, <3>3 DEF SendAlert, ServerTypeOK
  <2> QED BY <1>14, <2>1, SessionStep DEF SendAlert
<1>15. ASSUME NEW s \in Sockets, NEW k \in 1 .. MaxKeys, ServerConnect(s, k) PROVE ServerInv'
  <2>1. ServerTypeOK'
    BY <1>a, <1>15 DEF ServerConnect, ServerTypeOK
  <2> QED BY <1>15, <2>1, SessionStep DEF ServerConnect
<1>16. CASE UNCHANGED serverVars
  <2>1. ServerTypeOK'
    BY <1>a, <1>16 DEF serverVars, ServerTypeOK
  <2> QED BY <1>16, <2>1, SessionStep DEF serverVars
<1> QED
  BY <1>1, <1>2, <1>3, <1>4, <1>5, <1>6, <1>7, <1>8, <1>9, <1>10, <1>11, <1>12, <1>13, <1>14, <1>15,
     <1>16 DEF ServerNext

(* api/main.py, the lifespan: for any number of requests and sessions, the  *)
(* resources are closed under no counted request but a health check, unless *)
(* the drain gave up at its deadline.                                       *)
THEOREM AlwaysDrainedBeforeClose == ServerSpec => [](ServerTypeOK /\ DrainedBeforeClose)
<1>1. ServerInv => ServerTypeOK /\ DrainedBeforeClose
  BY DEF ServerInv
<1> QED BY <1>1, ServerInitInv, ServerNextInv, PTL DEF ServerSpec

-----------------------------------------------------------------------------
(* Server-sent events.                                                     *)

LEMMA LeastOfSome ==
  ASSUME NEW S, S \subseteq Nat, S # {}
  PROVE  \E i \in S : \A j \in S : i <= j
<1> DEFINE R == OpToRel(<, Nat)
<1>1. PICK i \in S : \A j \in S : <<j, i>> \notin R
  <2>1. IsWellFoundedOn(R, Nat)
    BY NatLessThanWellFounded
  <2> HIDE DEF R
  <2> QED BY <2>1, WFMin
<1>2. \A j \in S : ~(j < i)
  BY <1>1 DEF OpToRel
<1> HIDE DEF R
<1>3. i \in Nat /\ \A j \in S : j \in Nat /\ ~(j < i)
  BY <1>2
<1> QED BY <1>3

LEMMA GreatestOfSome ==
  ASSUME NEW n \in Nat, NEW S, S \subseteq 1 .. n, S # {}
  PROVE  \E i \in S : \A j \in S : i >= j
<1> DEFINE T == {n - i : i \in S}
<1>0. T \subseteq Nat /\ T # {}
  <2>1. \A i \in S : n - i \in Nat
    OBVIOUS
  <2> QED BY <2>1
<1>1. PICK t \in T : \A u \in T : t <= u
  <2> HIDE DEF T
  <2> QED BY <1>0, LeastOfSome
<1>2. PICK i \in S : t = n - i
  OBVIOUS
<1>3. \A j \in S : n - i <= n - j
  BY <1>1, <1>2
<1> QED BY <1>2, <1>3

\* The connections that are counted.
Connected == {c \in Clients : Counted(c)}

SseInv == /\ SseTypeOK /\ CounterIsExact
          /\ count <= Cardinality(Connected) + unstarted

LEMMA ConnectedIsFinite ==
  IsFiniteSet(Connected) /\ Cardinality(Connected) \in Nat /\ Cardinality(Clients) \in Nat
    /\ Cardinality(Connected) <= Cardinality(Clients)
BY SseAssumption, FS_Subset, FS_CardinalityType DEF Connected

\* The type invariant without the counter.
SseTyped ==
    /\ sseExpired \in BOOLEAN /\ events \in 0 .. MaxEvents /\ unstarted \in 0 .. MaxUnstarted
    /\ conn \in [Clients -> {"out", "counted", "refused", "started", "replayed", "live"}]
    /\ lastId \in [Clients -> 0 .. MaxEvents] /\ since \in [Clients -> 0 .. MaxEvents]
    /\ got \in [Clients -> SUBSET (1 .. MaxEvents)]
    /\ queue \in [Clients -> SUBSET (1 .. MaxEvents)]

\* A counter that is covered is in its type's range.
LEMMA CoveredIsTyped ==
  ASSUME SseTyped, count \in Nat, count <= Cardinality(Connected) + unstarted, CounterIsExact
  PROVE  SseInv
<1>1. unstarted \in Nat /\ unstarted <= MaxUnstarted /\ MaxUnstarted \in Nat
  BY SseAssumption DEF SseTyped
<1>2. count \in 0 .. Cardinality(Clients) + MaxUnstarted
  BY <1>1, ConnectedIsFinite
<1> QED BY <1>2 DEF SseTyped, SseInv, SseTypeOK

LEMMA SseInitInv == SseInit => SseInv
<1> SUFFICES ASSUME SseInit PROVE SseInv
  OBVIOUS
<1>1. SseTyped /\ count = 0 /\ unstarted = 0
  <2>1. 0 \in 0 .. MaxEvents /\ 0 \in 0 .. MaxUnstarted
    BY SseAssumption
  <2> QED BY <2>1 DEF SseInit, SseTyped
<1>2. Connected = {} /\ Cardinality({}) = 0
  BY FS_EmptySet DEF SseInit, Connected, Counted
<1> QED BY <1>1, <1>2, CoveredIsTyped DEF CounterIsExact, Connected

\* Nobody comes or goes.
LEMMA SameConnections ==
  ASSUME SseInv, SseTyped', Connected' = Connected, UNCHANGED <<count, sseExpired, unstarted>>
  PROVE  SseInv'
<1>1. CounterIsExact' /\ count' \in Nat /\ count' <= Cardinality(Connected') + unstarted'
  <2>1. count \in Nat
    BY ConnectedIsFinite, SseAssumption DEF SseInv, SseTypeOK
  <2>2. (~sseExpired => count = Cardinality(Connected) + unstarted) /\ count <= Cardinality(Connected) + unstarted
    BY DEF SseInv, CounterIsExact, Connected
  <2>3. ~sseExpired' => count' = Cardinality(Connected') + unstarted'
    BY <2>2
  <2> QED BY <2>1, <2>2, <2>3 DEF CounterIsExact, Connected
<1>2. (SseTyped /\ count \in Nat /\ count <= Cardinality(Connected) + unstarted /\ CounterIsExact => SseInv)'
  BY CoveredIsTyped, PTL
<1> QED BY <1>1, <1>2

\* One connection more or less.
LEMMA ConnectionJoins ==
  ASSUME SseInv, NEW c \in Clients, conn[c] = "out", NEW a \in {"counted", "refused"},
         conn' = [conn EXCEPT ![c] = a]
  PROVE  Cardinality(Connected') = Cardinality(Connected) + 1
<1>1. Connected' = Connected \cup {c} /\ c \notin Connected
  BY DEF SseInv, SseTypeOK, Connected, Counted
<1> QED BY <1>1, ConnectedIsFinite, FS_AddElement

LEMMA ConnectionLeaves ==
  ASSUME SseInv, NEW c \in Clients, conn[c] # "out", conn' = [conn EXCEPT ![c] = "out"]
  PROVE  Cardinality(Connected') = Cardinality(Connected) - 1
<1>1. Connected' = Connected \ {c} /\ c \in Connected
  BY DEF SseInv, SseTypeOK, Connected, Counted
<1> QED BY <1>1, ConnectedIsFinite, FS_RemoveElement

\* Its state changes, and nothing that is counted.
LEMMA ConnectionStays ==
  ASSUME SseInv, NEW c \in Clients, conn[c] # "out", NEW a \in {"started", "replayed", "live"},
         conn' = [conn EXCEPT ![c] = a]
  PROVE  Connected' = Connected
BY DEF SseInv, SseTypeOK, Connected, Counted

LEMMA CountersAgree ==
  ASSUME SseTyped', count' \in Nat, count' <= Cardinality(Connected') + unstarted',
         ~sseExpired' => count' = Cardinality(Connected') + unstarted'
  PROVE  SseInv'
<1>1. CounterIsExact'
  BY DEF CounterIsExact, Connected
<1>2. (SseTyped /\ count \in Nat /\ count <= Cardinality(Connected) + unstarted /\ CounterIsExact => SseInv)'
  BY CoveredIsTyped, PTL
<1> QED BY <1>1, <1>2

LEMMA SseNextInv == SseInv /\ [SseNext]_sseVars => SseInv'
<1> SUFFICES ASSUME SseInv, [SseNext]_sseVars PROVE SseInv'
  OBVIOUS
<1>a. SseTyped /\ SseTypeOK
  BY DEF SseInv, SseTypeOK, SseTyped
<1>b. /\ count \in Nat /\ unstarted \in Nat /\ count <= Cardinality(Connected) + unstarted
      /\ ~sseExpired => count = Cardinality(Connected) + unstarted
  <2>1. count \in Nat /\ unstarted \in Nat
    BY <1>a, ConnectedIsFinite, SseAssumption DEF SseTypeOK
  <2> QED BY <2>1 DEF SseInv, CounterIsExact, Connected
<1>c. /\ IsFiniteSet(Connected) /\ Cardinality(Connected) \in Nat /\ Cardinality(Connected') \in Nat
      /\ MaxEvents \in Nat /\ MaxUnstarted \in Nat
  <2>1. Connected' \in SUBSET Clients
    BY DEF Connected
  <2> QED BY <2>1, ConnectedIsFinite, SseAssumption, FS_Subset, FS_CardinalityType
<1>1. CASE Publish
  <2>1. events + 1 \in 1 .. MaxEvents /\ events' = events + 1
    BY <1>a, <1>c, <1>1 DEF Publish, SseTyped
  <2>2. queue' \in [Clients -> SUBSET (1 .. MaxEvents)]
    BY <1>a, <1>1, <2>1 DEF Publish, SseTyped
  <2>3. SseTyped'
    BY <1>a, <1>1, <2>1, <2>2 DEF Publish, SseTyped
  <2> QED BY <1>1, <2>3, SameConnections DEF Publish, Connected, Counted
<1>2. CASE Expire
  <2>1. SseTyped' /\ Connected' = Connected
    BY <1>a, <1>2 DEF Expire, SseTyped, Connected, Counted
  <2> QED BY <1>b, <1>c, <1>2, <2>1, CountersAgree DEF Expire
<1>3. ASSUME NEW c \in Clients, Increment(c) PROVE SseInv'
  <2> DEFINE a == IF count + 1 > SseMaxConnections THEN "refused" ELSE "counted"
  <2>1. /\ conn[c] = "out" /\ count' = count + 1 /\ conn' = [conn EXCEPT ![c] = a]
        /\ a \in {"counted", "refused"}
        /\ UNCHANGED <<sseExpired, events, lastId, got, queue, since, unstarted>>
    BY <1>3 DEF Increment
  <2> HIDE DEF a
  <2>2. Cardinality(Connected') = Cardinality(Connected) + 1
    BY <2>1, ConnectionJoins
  <2>3. SseTyped'
    BY <1>a, <2>1 DEF SseTyped
  <2> QED BY <1>b, <1>c, <2>1, <2>2, <2>3, CountersAgree
<1>4. ASSUME NEW c \in Clients, Refuse(c) PROVE SseInv'
  <2>1. /\ conn[c] # "out" /\ count' = Decremented(c) /\ conn' = [conn EXCEPT ![c] = "out"]
        /\ UNCHANGED <<sseExpired, events, lastId, got, queue, since, unstarted>>
    BY <1>4 DEF Refuse
  <2>2. Cardinality(Connected') = Cardinality(Connected) - 1
    BY <2>1, ConnectionLeaves
  <2>3. SseTyped'
    BY <1>a, <2>1 DEF SseTyped
  <2>4. count' = IF count > 0 THEN count - 1 ELSE 0
    BY <2>1 DEF Decremented
  <2>5. /\ count' \in Nat /\ count' <= Cardinality(Connected') + unstarted'
        /\ ~sseExpired' => count' = Cardinality(Connected') + unstarted'
    BY <1>b, <1>c, <2>1, <2>2, <2>4
  <2> QED BY <2>3, <2>5, CountersAgree
<1>5. ASSUME NEW c \in Clients, NeverStarted(c) PROVE SseInv'
  <2>1. /\ conn[c] # "out" /\ unstarted' = unstarted + 1 /\ conn' = [conn EXCEPT ![c] = "out"]
        /\ unstarted < MaxUnstarted
        /\ UNCHANGED <<count, sseExpired, events, lastId, got, queue, since>>
    BY <1>5 DEF NeverStarted
  <2>2. Cardinality(Connected') = Cardinality(Connected) - 1
    BY <2>1, ConnectionLeaves
  <2>3. SseTyped'
    BY <1>a, <1>b, <1>c, <2>1 DEF SseTyped
  <2> QED BY <1>b, <1>c, <2>1, <2>2, <2>3, CountersAgree
<1>6. ASSUME NEW c \in Clients, Start(c) PROVE SseInv'
  <2>1. SseTyped' /\ Connected' = Connected
    BY <1>a, <1>6, ConnectionStays DEF Start, SseTyped
  <2> QED BY <1>6, <2>1, SameConnections DEF Start
<1>7. ASSUME NEW c \in Clients, Replay(c) PROVE SseInv'
  <2>1. Connected' = Connected
    BY <1>7, ConnectionStays DEF Replay
  <2>2. got' \in [Clients -> SUBSET (1 .. MaxEvents)]
    <3>1. events > 0 => events \in 1 .. MaxEvents
      BY <1>a, <1>c DEF SseTyped
    <3> QED BY <1>a, <1>7, <3>1 DEF Replay, SseTyped
  <2>3. SseTyped'
    BY <1>a, <1>7, <2>2 DEF Replay, SseTyped
  <2> QED BY <1>7, <2>1, <2>3, SameConnections DEF Replay
<1>8. ASSUME NEW c \in Clients, SseSubscribe(c) PROVE SseInv'
  <2>1. SseTyped' /\ Connected' = Connected
    BY <1>a, <1>8, ConnectionStays DEF SseSubscribe, SseTyped
  <2> QED BY <1>8, <2>1, SameConnections DEF SseSubscribe
<1>9. ASSUME NEW c \in Clients, Receive(c) PROVE SseInv'
  <2> DEFINE e == CHOOSE x \in queue[c] : \A y \in queue[c] : x <= y
  <2>1. queue[c] # {} /\ queue[c] \subseteq 1 .. MaxEvents /\ queue[c] \subseteq Nat
    BY <1>a, <1>9 DEF Receive, SseTyped
  <2>2. e \in queue[c]
    BY <2>1, LeastOfSome
  <2>3. /\ queue' = [queue EXCEPT ![c] = @ \ {e}] /\ got' = [got EXCEPT ![c] = @ \cup {e}]
        /\ UNCHANGED <<count, sseExpired, events, conn, lastId, since, unstarted>>
    BY <1>9 DEF Receive
  <2> HIDE DEF e
  <2>4. SseTyped'
    BY <1>a, <2>1, <2>2, <2>3 DEF SseTyped
  <2>5. Connected' = Connected
    BY <2>3 DEF Connected, Counted
  <2> QED BY <2>3, <2>4, <2>5, SameConnections
<1>10. ASSUME NEW c \in Clients, Leave(c) PROVE SseInv'
  <2> DEFINE m == CHOOSE x \in got[c] : \A y \in got[c] : x >= y
             l == IF got[c] = {} THEN 0 ELSE m
  <2>1. /\ conn[c] # "out" /\ count' = Decremented(c) /\ conn' = [conn EXCEPT ![c] = "out"]
        /\ queue' = [queue EXCEPT ![c] = {}] /\ lastId' = [lastId EXCEPT ![c] = l]
        /\ UNCHANGED <<sseExpired, events, got, since, unstarted>>
    BY <1>10 DEF Leave
  <2>2. got[c] \subseteq 1 .. MaxEvents
    BY <1>a DEF SseTyped
  <2>3. l \in 0 .. MaxEvents
    <3>1. CASE got[c] = {}
      BY <1>c, <3>1
    <3>2. CASE got[c] # {}
      <4>1. m \in got[c]
        BY <1>c, <2>2, <3>2, GreatestOfSome
      <4> QED BY <2>2, <3>2, <4>1
    <3> QED BY <3>1, <3>2
  <2> HIDE DEF m, l
  <2>4. SseTyped'
    BY <1>a, <2>1, <2>3 DEF SseTyped
  <2>5. Cardinality(Connected') = Cardinality(Connected) - 1
    BY <2>1, ConnectionLeaves
  <2> QED BY <1>b, <1>c, <2>1, <2>4, <2>5, CountersAgree DEF Decremented
<1>11. CASE UNCHANGED sseVars
  <2>1. SseTyped' /\ Connected' = Connected
    BY <1>a, <1>11 DEF sseVars, SseTyped, Connected, Counted
  <2> QED BY <1>11, <2>1, SameConnections DEF sseVars
<1> QED
  BY <1>1, <1>2, <1>3, <1>4, <1>5, <1>6, <1>7, <1>8, <1>9, <1>10, <1>11 DEF SseNext

(* streaming_router.py: for any number of connections and any limit, until  *)
(* the Redis key expires the counter is the number of connections and of    *)
(* responses that were never begun.                                         *)
THEOREM CounterAlwaysExact == SseSpec => [](SseTypeOK /\ CounterIsExact)
<1>1. SseInv => SseTypeOK /\ CounterIsExact
  BY DEF SseInv
<1> QED BY <1>1, SseInitInv, SseNextInv, PTL DEF SseSpec

-----------------------------------------------------------------------------
(* gRPC streams.                                                           *)

\* What was sent, to the client or as far as the buffer, in order.
Total == Len(received) + Len(buf)
Sent(i) == IF i <= Len(received) THEN received[i] ELSE buf[i - Len(received)]
AllSent == {Sent(i) : i \in 1 .. Total}
SentInOrder == \A i, j \in 1 .. Total : i < j => Sent(i) < Sent(j)

GrpcTyped ==
    /\ GrpcTypeOK /\ scored \in Seq(BOOLEAN) /\ buf \in Seq(Nat) /\ received \in Seq(Nat)
    /\ next \in Nat \ {0} /\ next <= Len(scored) + 1 /\ next <= MaxBatch + 1

\* Nothing is missing up to some request; up to which, while the producer runs.
NothingMissing ==
    /\ \E m \in 1 .. next : AllSent = Scored(m - 1)
    /\ (producer # "put" /\ ~slow /\ ~stop) => AllSent = Scored(next - 1)
    /\ producer = "run" => AllSent = Scored(next - 1)
    /\ producer = "put" => /\ item = next - 1 /\ item \in Nat \ {0} /\ scored[item]
                           /\ AllSent = Scored(item - 1)

\* Why the producer ended.
EndHasItsReason ==
    /\ producer \in {"end", "done"} /\ error = "" /\ ~slow /\ ~stop => next = Len(scored) + 1
    /\ error = "limit" => next = MaxBatch + 1 /\ MaxBatch < Len(scored)
    /\ error # "" => producer \in {"end", "done"}
    /\ slow => producer \in {"end", "done"} /\ Total >= BufferSize
    /\ stop <=> rpc # "loop"

Outcome ==
    /\ rpc = "ok" => Delivered = Scored(Len(scored)) /\ Len(scored) <= MaxBatch
    /\ rpc = "limit" => Delivered = Scored(MaxBatch) /\ Len(scored) > MaxBatch
    /\ rpc = "slow" => Len(received) >= BufferSize

GrpcInv == GrpcTyped /\ SentInOrder /\ NothingMissing /\ EndHasItsReason /\ Outcome

LEMMA GrpcInitInv == GrpcInit => GrpcInv
<1> SUFFICES ASSUME GrpcInit PROVE GrpcInv
  OBVIOUS
<1> USE GrpcAssumption
<1>1. scored \in Seq(BOOLEAN)
  <2>1. PICK n \in 0 .. MaxRequests : scored \in [1 .. n -> BOOLEAN]
    BY DEF GrpcInit
  <2> QED BY <2>1
<1>2. /\ next = 1 /\ producer = "run" /\ buf = <<>> /\ received = <<>> /\ item = 0
      /\ stop = FALSE /\ slow = FALSE /\ error = "" /\ rpc = "loop"
  BY DEF GrpcInit
<1>3. Len(scored) \in Nat /\ MaxBatch \in Nat /\ BufferSize \in Nat
  BY <1>1
<1>4. Len(buf) = 0 /\ Len(received) = 0 /\ buf \in Seq(Nat) /\ received \in Seq(Nat)
  <2>1. buf = <<>> /\ received = <<>>
    BY <1>2
  <2>2. Len(<<>>) = 0 /\ <<>> \in Seq(Nat)
    OBVIOUS
  <2> QED BY <2>1, <2>2
<1>5. GrpcTyped
  <2>1. Len(buf) <= BufferSize /\ next \in Nat \ {0} /\ next <= Len(scored) + 1 /\ next <= MaxBatch + 1
    <3>1. next = 1
      BY <1>2
    <3> QED BY <1>3, <1>4, <3>1
  <2>2. GrpcTypeOK
    BY <1>2, <2>1, Zenon DEF GrpcTypeOK
  <2> QED BY <1>1, <1>4, <2>1, <2>2, Zenon DEF GrpcTyped
<1>6. Total = 0 /\ 1 .. 0 = {}
  BY <1>4 DEF Total
<1>7. AllSent = {} /\ SentInOrder /\ Scored(0) = {}
  BY <1>6 DEF AllSent, SentInOrder, Scored
<1>8. NothingMissing
  <2>1. next = 1 /\ producer # "put"
    BY <1>2
  <2>2. next - 1 = 0 /\ 1 \in 1 .. next /\ 1 - 1 = 0
    BY <2>1
  <2>3. AllSent = Scored(1 - 1) /\ AllSent = Scored(next - 1)
    BY <1>7, <2>2
  <2> QED BY <2>1, <2>2, <2>3, Zenon DEF NothingMissing
<1> QED BY <1>2, <1>5, <1>7, <1>8 DEF GrpcInv, EndHasItsReason, Outcome

\* The buffer's head goes to the client.
LEMMA SentMovesOn ==
  ASSUME GrpcTyped, buf # <<>>, received' = Append(received, Head(buf)), buf' = Tail(buf)
  PROVE  /\ received' \in Seq(Nat) /\ buf' \in Seq(Nat)
         /\ Len(buf') <= Len(buf) /\ Total' = Total /\ AllSent' = AllSent /\ (SentInOrder => SentInOrder')
<1>1. /\ received \in Seq(Nat) /\ buf \in Seq(Nat) /\ Len(received) \in Nat /\ Len(buf) \in Nat
      /\ Head(buf) = buf[1] /\ Head(buf) \in Nat /\ Len(buf) > 0
  BY DEF GrpcTyped
<1>2. /\ received' \in Seq(Nat) /\ buf' \in Seq(Nat)
      /\ Len(received') = Len(received) + 1 /\ Len(buf') = Len(buf) - 1
      /\ \A i \in 1 .. Len(received) : received'[i] = received[i]
      /\ received'[Len(received) + 1] = buf[1]
      /\ \A i \in 1 .. Len(buf) - 1 : buf'[i] = buf[i + 1]
  BY <1>1
<1>3. Total' = Total
  BY <1>1, <1>2 DEF Total
<1>4. \A i \in 1 .. Total : Sent(i)' = Sent(i)
  <2>1. ASSUME NEW i \in 1 .. Total PROVE Sent(i)' = Sent(i)
    <3>1. i \in Nat /\ i >= 1 /\ i <= Len(received) + Len(buf)
      BY <1>1 DEF Total
    <3>2. CASE i <= Len(received)
      BY <1>1, <1>2, <3>1, <3>2 DEF Sent
    <3>3. CASE i = Len(received) + 1
      BY <1>1, <1>2, <3>1, <3>3 DEF Sent
    <3>4. CASE i > Len(received) + 1
      <4> DEFINE k == i - (Len(received) + 1)
      <4>1. k \in 1 .. Len(buf) - 1 /\ k + 1 = i - Len(received)
        BY <1>1, <3>1, <3>4
      <4>2. buf'[k] = buf[k + 1]
        BY <1>2, <4>1
      <4> QED BY <1>1, <1>2, <3>4, <4>1, <4>2 DEF Sent
    <3> QED BY <1>1, <3>1, <3>2, <3>3, <3>4
  <2> QED BY <2>1
<1>5. AllSent' = AllSent /\ (SentInOrder => SentInOrder')
  BY <1>3, <1>4 DEF AllSent, SentInOrder
<1> QED BY <1>1, <1>2, <1>3, <1>5

\* A score enters the buffer.
LEMMA SentGrows ==
  ASSUME GrpcTyped, NEW x \in Nat, received' = received, buf' = Append(buf, x)
  PROVE  /\ buf' \in Seq(Nat) /\ Len(buf') = Len(buf) + 1 /\ Total' = Total + 1
         /\ AllSent' = AllSent \cup {x}
         /\ (SentInOrder /\ \A y \in AllSent : y < x) => SentInOrder'
<1>1. /\ received \in Seq(Nat) /\ buf \in Seq(Nat) /\ Len(received) \in Nat /\ Len(buf) \in Nat
  BY DEF GrpcTyped
<1>2. /\ buf' \in Seq(Nat) /\ Len(buf') = Len(buf) + 1 /\ buf'[Len(buf) + 1] = x
      /\ \A i \in 1 .. Len(buf) : buf'[i] = buf[i]
  BY <1>1
<1>3. Total' = Total + 1 /\ Total \in Nat
  BY <1>1, <1>2 DEF Total
<1> PICK n \in Nat : n = Total
  BY <1>3
<1>4. \A i \in 1 .. n : Sent(i)' = Sent(i)
  <2>1. ASSUME NEW i \in 1 .. n PROVE Sent(i)' = Sent(i)
    <3>1. i \in Nat /\ i >= 1 /\ i <= Len(received) + Len(buf)
      BY <1>1 DEF Total
    <3>2. CASE i <= Len(received)
      BY <3>2 DEF Sent
    <3>3. CASE i > Len(received)
      <4>1. i - Len(received) \in 1 .. Len(buf)
        BY <1>1, <3>1, <3>3
      <4> QED BY <1>1, <1>2, <3>1, <3>3, <4>1 DEF Sent
    <3> QED BY <1>1, <3>1, <3>2, <3>3
  <2> QED BY <2>1
<1>5. Sent(n + 1)' = x
  <2>1. (n + 1) - Len(received) = Len(buf) + 1 /\ ~(n + 1 <= Len(received))
    BY <1>1 DEF Total
  <2> QED BY <1>2, <2>1 DEF Sent
<1>6. AllSent = {Sent(i) : i \in 1 .. n} /\ AllSent' = {Sent(i)' : i \in 1 .. n + 1}
  BY <1>3 DEF AllSent
<1>7. AllSent' = AllSent \cup {x}
  <2>1. \A i : i \in 1 .. n + 1 <=> i \in 1 .. n \/ i = n + 1
    OBVIOUS
  <2>2. ASSUME NEW y \in AllSent' PROVE y \in AllSent \cup {x}
    BY <1>4, <1>5, <1>6, <2>1
  <2>3. ASSUME NEW y \in AllSent \cup {x} PROVE y \in AllSent'
    <3>1. CASE y = x
      BY <1>5, <1>6, <2>1, <3>1
    <3>2. CASE y \in AllSent
      BY <1>4, <1>6, <2>1, <3>2
    <3> QED BY <3>1, <3>2
  <2> QED BY <2>2, <2>3
<1>8. ASSUME SentInOrder, \A y \in AllSent : y < x PROVE SentInOrder'
  <2>1. ASSUME NEW i \in 1 .. n + 1, NEW j \in 1 .. n + 1, i < j PROVE Sent(i)' < Sent(j)'
    <3>1. i \in 1 .. n /\ (j \in 1 .. n \/ j = n + 1)
      BY <2>1
    <3>2. Sent(i) \in AllSent
      BY <1>6, <3>1
    <3>3. j \in 1 .. n => Sent(i) < Sent(j)
      BY <1>8, <2>1, <3>1 DEF SentInOrder
    <3> QED BY <1>4, <1>5, <1>8, <3>1, <3>2, <3>3
  <2> QED BY <1>3, <2>1 DEF SentInOrder
<1> QED BY <1>2, <1>3, <1>7, <1>8

\* What was sent is as before, and so are the requests.
LEMMA NothingSent ==
  ASSUME GrpcInv, received' = received, buf' = buf, scored' = scored
  PROVE  /\ Total' = Total /\ AllSent' = AllSent /\ SentInOrder'
         /\ Delivered' = Delivered /\ \A n : Scored(n)' = Scored(n)
<1>1. Total' = Total /\ \A i : Sent(i)' = Sent(i)
  BY DEF Total, Sent
<1>2. AllSent' = AllSent /\ SentInOrder'
  BY <1>1 DEF AllSent, SentInOrder, GrpcInv
<1> QED BY <1>1, <1>2 DEF Delivered, Scored

LEMMA OneMoreScored ==
  ASSUME NEW n \in Nat
  PROVE  /\ scored[n + 1] => Scored(n + 1) = Scored(n) \cup {n + 1}
         /\ ~scored[n + 1] => Scored(n + 1) = Scored(n)
<1>1. \A i : i \in 1 .. n + 1 <=> i \in 1 .. n \/ i = n + 1
  OBVIOUS
<1> QED BY <1>1 DEF Scored

LEMMA GrpcNextInv == GrpcInv /\ [GrpcNext]_grpcVars => GrpcInv'
<1> SUFFICES ASSUME GrpcInv, [GrpcNext]_grpcVars PROVE GrpcInv'
  OBVIOUS
<1> USE GrpcAssumption
<1>a. GrpcTyped /\ SentInOrder /\ NothingMissing /\ EndHasItsReason /\ Outcome
  BY DEF GrpcInv
<1>b. /\ scored \in Seq(BOOLEAN) /\ buf \in Seq(Nat) /\ received \in Seq(Nat)
      /\ Len(scored) \in Nat /\ Len(buf) \in Nat /\ Len(received) \in Nat
      /\ MaxBatch \in Nat /\ BufferSize \in Nat /\ next \in Nat \ {0}
      /\ next <= Len(scored) + 1 /\ next <= MaxBatch + 1
  BY <1>a DEF GrpcTyped
<1>1. CASE Produce
  <2>1. scored' = scored /\ buf' = buf /\ stop' = stop /\ slow' = slow /\ rpc' = rpc /\ received' = received
    BY <1>1 DEF Produce
  <2>2. /\ Total' = Total /\ AllSent' = AllSent /\ SentInOrder'
        /\ Delivered' = Delivered /\ \A n : Scored(n)' = Scored(n)
    BY <2>1, NothingSent
  <2>3. Outcome'
    BY <1>a, <2>1, <2>2 DEF Outcome
  <2>4. producer = "run" /\ AllSent = Scored(next - 1) /\ error = "" /\ ~slow
    BY <1>1, <1>a DEF Produce, NothingMissing, EndHasItsReason
  <2>5. CASE next > Len(scored) /\ producer' = "end" /\ UNCHANGED <<next, item, error>>
    <3>1. GrpcTyped'
      BY <1>a, <2>1, <2>5 DEF GrpcTyped, GrpcTypeOK
    <3>2. NothingMissing'
      BY <1>a, <2>1, <2>2, <2>4, <2>5 DEF NothingMissing
    <3>3. next' = Len(scored') + 1
      BY <1>b, <2>1, <2>5
    <3>4. EndHasItsReason'
      BY <1>a, <2>1, <2>2, <2>4, <2>5, <3>3 DEF EndHasItsReason
    <3> QED BY <2>2, <2>3, <3>1, <3>2, <3>4 DEF GrpcInv
  <2>6. CASE /\ next <= Len(scored) /\ next > MaxBatch
             /\ error' = "limit" /\ producer' = "end" /\ UNCHANGED <<next, item>>
    <3>1. GrpcTyped'
      BY <1>a, <2>1, <2>6 DEF GrpcTyped, GrpcTypeOK
    <3>2. NothingMissing'
      BY <1>a, <2>1, <2>2, <2>4, <2>6 DEF NothingMissing
    <3>3. next' = MaxBatch + 1 /\ MaxBatch < Len(scored')
      BY <1>b, <2>1, <2>6
    <3>4. EndHasItsReason'
      BY <1>a, <2>1, <2>2, <2>4, <2>6, <3>3 DEF EndHasItsReason
    <3> QED BY <2>2, <2>3, <3>1, <3>2, <3>4 DEF GrpcInv
  <2>7. CASE /\ next <= Len(scored) /\ next <= MaxBatch /\ next' = next + 1 /\ UNCHANGED error
             /\ item' = IF scored[next] THEN next ELSE 0
             /\ producer' = IF scored[next] THEN "put" ELSE "run"
    <3>1. next' \in Nat \ {0} /\ next' <= Len(scored') + 1 /\ next' <= MaxBatch + 1
      BY <1>b, <2>1, <2>7
    <3>2. GrpcTyped'
      <4>1. GrpcTypeOK'
        BY <1>a, <2>1, <2>7 DEF GrpcTyped, GrpcTypeOK
      <4> QED BY <1>b, <2>1, <3>1, <4>1 DEF GrpcTyped
    <3>3. EndHasItsReason'
      BY <1>a, <2>1, <2>2, <2>4, <2>7 DEF EndHasItsReason
    <3>4. PICK k \in Nat : next = k + 1 /\ next - 1 = k /\ next' - 1 = k + 1 /\ k + 1 \in 1 .. next'
      <4> WITNESS next - 1 \in Nat
      <4> QED BY <1>b, <2>7
    <3>5. next' = next + 1 /\ k + 2 \in 1 .. next' /\ (k + 2) - 1 = k + 1 /\ (k + 1) - 1 = k
      BY <1>b, <2>7, <3>4
    <3>6. AllSent' = Scored(k)
      BY <2>2, <2>4, <3>4
    <3>7. NothingMissing'
      <4>1. CASE scored[next]
        <5>1. item' = k + 1 /\ producer' = "put" /\ scored'[k + 1]
          BY <2>1, <2>7, <3>4, <4>1
        <5>2. (item' - 1) = k /\ item' = next' - 1 /\ item' \in Nat \ {0} /\ scored'[item']
          BY <3>4, <3>5, <5>1
        <5>3. Scored(item - 1)' = Scored(k)
          BY <2>1, <5>2 DEF Scored
        <5>4. \E m \in 1 .. next' : AllSent' = Scored(m - 1)'
          BY <2>2, <3>4, <3>5, <3>6
        <5> QED BY <3>6, <5>1, <5>2, <5>3, <5>4 DEF NothingMissing
      <4>2. CASE ~scored[next]
        <5>1. AllSent' = Scored(k + 1)
          BY <3>4, <3>6, <4>2, OneMoreScored
        <5>2. Scored(next - 1)' = Scored(k + 1) /\ producer' = "run"
          BY <2>1, <2>7, <3>4, <4>2 DEF Scored
        <5>3. \E m \in 1 .. next' : AllSent' = Scored(m - 1)'
          BY <2>2, <3>4, <3>5, <3>6
        <5> QED BY <5>1, <5>2, <5>3 DEF NothingMissing
      <4> QED BY <4>1, <4>2
    <3> QED BY <2>2, <2>3, <3>2, <3>3, <3>7 DEF GrpcInv
  <2> QED BY <1>1, <2>5, <2>6, <2>7 DEF Produce
<1>2. CASE ReadFails
  <2>1. /\ scored' = scored /\ buf' = buf /\ stop' = stop /\ slow' = slow /\ rpc' = rpc /\ received' = received
        /\ next' = next /\ item' = item /\ producer = "run" /\ producer' = "end" /\ error' = "failed"
    BY <1>2 DEF ReadFails
  <2>2. /\ Total' = Total /\ AllSent' = AllSent /\ SentInOrder'
        /\ Delivered' = Delivered /\ \A n : Scored(n)' = Scored(n)
    BY <2>1, NothingSent
  <2>3. GrpcTyped'
    BY <1>a, <2>1 DEF GrpcTyped, GrpcTypeOK
  <2>4. NothingMissing'
    BY <1>a, <2>1, <2>2 DEF NothingMissing
  <2>5. EndHasItsReason' /\ Outcome'
    BY <1>a, <2>1, <2>2 DEF EndHasItsReason, Outcome
  <2> QED BY <2>2, <2>3, <2>4, <2>5 DEF GrpcInv
<1>3. CASE Put
  <2>1. /\ scored' = scored /\ next' = next /\ stop' = stop /\ error' = error /\ rpc' = rpc
        /\ received' = received /\ producer = "put" /\ item' = 0
    BY <1>3 DEF Put
  <2>2. /\ item = next - 1 /\ item \in Nat \ {0} /\ scored[item] /\ AllSent = Scored(item - 1)
    BY <1>a, <2>1 DEF NothingMissing
  <2>3. error = "" /\ ~slow
    BY <1>a, <2>1 DEF EndHasItsReason
  <2>4. CASE ~stop /\ Len(buf) < BufferSize /\ buf' = Append(buf, item) /\ producer' = "run" /\ UNCHANGED slow
    <3>1. /\ buf' \in Seq(Nat) /\ Len(buf') = Len(buf) + 1 /\ Total' = Total + 1
          /\ AllSent' = AllSent \cup {item}
          /\ (SentInOrder /\ \A y \in AllSent : y < item) => SentInOrder'
      BY <1>a, <2>1, <2>2, <2>4, SentGrows
    <3>2. ASSUME NEW y \in AllSent PROVE y < item
      <4>1. y \in 1 .. item - 1
        BY <2>2 DEF Scored
      <4> QED BY <2>2, <4>1
    <3>3. Len(buf') <= BufferSize
      BY <1>b, <2>4, <3>1
    <3>4. GrpcTyped'
      BY <1>a, <2>1, <2>4, <3>1, <3>3 DEF GrpcTyped, GrpcTypeOK
    <3>5. item - 1 \in Nat /\ (item - 1) + 1 = item
      <4>1. item \in Nat \ {0}
        BY <2>2
      <4> QED BY <4>1
    <3>6. AllSent' = Scored(item)
      BY <2>2, <3>1, <3>5, OneMoreScored
    <3>7. AllSent' = Scored(next - 1)' /\ next \in 1 .. next
      BY <1>b, <2>1, <2>2, <3>6 DEF Scored
    <3>8. NothingMissing'
      BY <2>1, <2>4, <3>7 DEF NothingMissing
    <3>9. EndHasItsReason' /\ Outcome'
      BY <1>a, <2>1, <2>3, <2>4 DEF EndHasItsReason, Outcome, Delivered, Scored
    <3> QED BY <1>a, <3>1, <3>2, <3>4, <3>8, <3>9 DEF GrpcInv
  <2>5. ASSUME buf' = buf, producer' = "end", stop \/ (slow' /\ Len(buf) = BufferSize),
               slow' \in BOOLEAN, stop => slow' = slow
        PROVE GrpcInv'
    <3>2. /\ Total' = Total /\ AllSent' = AllSent /\ SentInOrder'
          /\ Delivered' = Delivered /\ \A n : Scored(n)' = Scored(n)
      BY <2>1, <2>5, NothingSent
    <3>3. GrpcTyped'
      BY <1>a, <2>1, <2>5 DEF GrpcTyped, GrpcTypeOK
    <3>4. NothingMissing'
      BY <1>a, <2>1, <2>5, <3>2 DEF NothingMissing
    <3>5. Len(buf) = BufferSize => Total' >= BufferSize
      BY <1>b, <3>2 DEF Total
    <3>6. EndHasItsReason' /\ Outcome'
      BY <1>a, <2>1, <2>3, <2>5, <3>2, <3>5 DEF EndHasItsReason, Outcome
    <3> QED BY <3>2, <3>3, <3>4, <3>6 DEF GrpcInv
  <2>6. slow \in BOOLEAN /\ stop \in BOOLEAN
    BY <1>a DEF GrpcTyped, GrpcTypeOK
  <2> QED BY <1>3, <2>4, <2>5, <2>6 DEF Put
<1>4. CASE Finish
  <2>1. /\ scored' = scored /\ buf' = buf /\ stop' = stop /\ slow' = slow /\ rpc' = rpc /\ received' = received
        /\ next' = next /\ item' = item /\ error' = error /\ producer = "end" /\ producer' = "done"
    BY <1>4 DEF Finish
  <2>2. /\ Total' = Total /\ AllSent' = AllSent /\ SentInOrder'
        /\ Delivered' = Delivered /\ \A n : Scored(n)' = Scored(n)
    BY <2>1, NothingSent
  <2>3. GrpcTyped'
    BY <1>a, <2>1 DEF GrpcTyped, GrpcTypeOK
  <2>4. NothingMissing'
    BY <1>a, <2>1, <2>2 DEF NothingMissing
  <2>5. EndHasItsReason' /\ Outcome'
    BY <1>a, <2>1, <2>2 DEF EndHasItsReason, Outcome
  <2> QED BY <2>2, <2>3, <2>4, <2>5 DEF GrpcInv
<1>5. CASE Yield
  <2>1. /\ scored' = scored /\ stop' = stop /\ slow' = slow /\ rpc' = rpc /\ rpc = "loop" /\ buf # <<>>
        /\ next' = next /\ item' = item /\ error' = error /\ producer' = producer
        /\ received' = Append(received, Head(buf)) /\ buf' = Tail(buf)
    BY <1>5 DEF Yield
  <2>2. /\ received' \in Seq(Nat) /\ buf' \in Seq(Nat)
        /\ Len(buf') <= Len(buf) /\ Total' = Total /\ AllSent' = AllSent /\ SentInOrder'
    BY <1>a, <2>1, SentMovesOn
  <2>3. Len(buf') \in Nat /\ Len(buf) <= BufferSize
    <3>1. Len(buf') \in Nat
      BY <2>2
    <3> QED BY <1>a, <3>1 DEF GrpcTyped, GrpcTypeOK
  <2>4. Len(buf') <= BufferSize
    BY <1>b, <2>2, <2>3
  <2>5. GrpcTyped'
    BY <1>a, <2>1, <2>2, <2>4 DEF GrpcTyped, GrpcTypeOK
  <2>6. \A n : Scored(n)' = Scored(n)
    BY <2>1 DEF Scored
  <2>7. NothingMissing'
    BY <1>a, <2>1, <2>2, <2>6 DEF NothingMissing
  <2>8. EndHasItsReason' /\ Outcome'
    BY <1>a, <2>1, <2>2 DEF EndHasItsReason, Outcome
  <2> QED BY <2>2, <2>5, <2>7, <2>8 DEF GrpcInv
<1>6. ASSUME scored' = scored, buf' = buf, slow' = slow, received' = received, next' = next,
             item' = item, error' = error, producer' = producer, rpc = "loop", stop' = TRUE,
             \/ rpc' = "gone"
             \/ GrpcDrained /\ rpc' = IF slow THEN "slow" ELSE IF error # "" THEN error ELSE "ok"
      PROVE GrpcInv'
  <2>2. /\ Total' = Total /\ AllSent' = AllSent /\ SentInOrder'
        /\ Delivered' = Delivered /\ \A n : Scored(n)' = Scored(n)
    BY <1>6, NothingSent
  <2>3. GrpcTyped'
    <3>1. error \in {"", "limit", "failed"}
      BY <1>a DEF GrpcTyped, GrpcTypeOK
    <3>2. rpc' \in {"loop", "ok", "slow", "limit", "failed", "gone"}
      BY <1>6, <3>1
    <3> QED BY <1>a, <1>6, <3>2 DEF GrpcTyped, GrpcTypeOK
  <2>4. NothingMissing'
    BY <1>a, <1>6, <2>2 DEF NothingMissing
  <2>5. EndHasItsReason'
    <3>1. rpc' # "loop"
      BY <1>a, <1>6 DEF GrpcTyped, GrpcTypeOK
    <3> QED BY <1>a, <1>6, <2>2, <3>1 DEF EndHasItsReason
  <2>6. CASE GrpcDrained
    <3>1. producer = "done" /\ buf = <<>> /\ Len(buf) = 0
      BY <2>6 DEF GrpcDrained
    <3>2. Total = Len(received) /\ AllSent = Delivered
      <4>1. Total = Len(received)
        BY <1>b, <3>1 DEF Total
      <4>2. \A i \in 1 .. Total : Sent(i) = received[i]
        BY <1>b, <4>1 DEF Sent
      <4> QED BY <4>1, <4>2 DEF AllSent, Delivered
    <3>3. ~stop
      BY <1>a, <1>6 DEF EndHasItsReason
    <3>4. rpc' = "slow" => Len(received') >= BufferSize
      <4>1. rpc' = "slow" => slow
        BY <1>a, <1>6 DEF GrpcTyped, GrpcTypeOK
      <4> QED BY <1>a, <1>6, <3>2, <4>1 DEF EndHasItsReason
    <3>5. ~slow => AllSent = Scored(next - 1)
      BY <1>a, <3>1, <3>3 DEF NothingMissing
    <3>6. rpc' = "ok" => Delivered' = Scored(Len(scored))' /\ Len(scored') <= MaxBatch
      <4>1. SUFFICES ASSUME rpc' = "ok" PROVE Delivered' = Scored(Len(scored))' /\ Len(scored') <= MaxBatch
        OBVIOUS
      <4>2. ~slow /\ error = ""
        <5>1. error \in {"", "limit", "failed"}
          BY <1>a DEF GrpcTyped, GrpcTypeOK
        <5> QED BY <1>6, <4>1, <5>1
      <4>3. next = Len(scored) + 1
        BY <1>a, <3>1, <3>3, <4>2 DEF EndHasItsReason
      <4>4. next - 1 = Len(scored) /\ Len(scored) <= MaxBatch
        BY <1>b, <4>3
      <4>5. Delivered = Scored(Len(scored))
        BY <3>2, <3>5, <4>2, <4>4
      <4> QED BY <1>6, <2>2, <4>4, <4>5
    <3>7. rpc' = "limit" => Delivered' = Scored(MaxBatch)' /\ Len(scored') > MaxBatch
      <4>1. SUFFICES ASSUME rpc' = "limit" PROVE Delivered' = Scored(MaxBatch)' /\ Len(scored') > MaxBatch
        OBVIOUS
      <4>2. ~slow /\ error = "limit"
        BY <1>6, <4>1
      <4>3. next = MaxBatch + 1 /\ MaxBatch < Len(scored)
        BY <1>a, <4>2 DEF EndHasItsReason
      <4>4. next - 1 = MaxBatch
        BY <1>b, <4>3
      <4>5. Delivered = Scored(MaxBatch)
        BY <3>2, <3>5, <4>2, <4>4
      <4> QED BY <1>6, <1>b, <2>2, <4>3, <4>5
    <3>8. Outcome'
      BY <3>4, <3>6, <3>7 DEF Outcome
    <3> QED BY <2>2, <2>3, <2>4, <2>5, <3>8 DEF GrpcInv
  <2>7. CASE rpc' = "gone"
    BY <2>2, <2>3, <2>4, <2>5, <2>7 DEF GrpcInv, Outcome
  <2> QED BY <1>6, <2>6, <2>7
<1>7. CASE GrpcClose
  BY <1>7, <1>6 DEF GrpcClose
<1>8. CASE ClientGone
  BY <1>8, <1>6 DEF ClientGone
<1>9. CASE UNCHANGED grpcVars
  <2>1. /\ scored' = scored /\ buf' = buf /\ stop' = stop /\ slow' = slow /\ rpc' = rpc /\ received' = received
        /\ next' = next /\ item' = item /\ error' = error /\ producer' = producer
    BY <1>9 DEF grpcVars
  <2>2. /\ Total' = Total /\ AllSent' = AllSent /\ SentInOrder'
        /\ Delivered' = Delivered /\ \A n : Scored(n)' = Scored(n)
    BY <2>1, NothingSent
  <2>3. GrpcTyped' /\ NothingMissing'
    BY <1>a, <2>1, <2>2 DEF GrpcTyped, GrpcTypeOK, NothingMissing
  <2>4. EndHasItsReason' /\ Outcome'
    BY <1>a, <2>1, <2>2 DEF EndHasItsReason, Outcome
  <2> QED BY <2>2, <2>3, <2>4 DEF GrpcInv
<1> QED BY <1>1, <1>2, <1>3, <1>4, <1>5, <1>7, <1>8, <1>9 DEF GrpcNext

LEMMA GrpcInvSuffices == GrpcInv => GrpcTypeOK /\ StreamIsComplete
<1> SUFFICES ASSUME GrpcInv PROVE GrpcTypeOK /\ StreamIsComplete
  OBVIOUS
<1>1. GrpcTyped /\ SentInOrder /\ NothingMissing /\ Outcome
  BY DEF GrpcInv
<1>2. /\ Len(scored) \in Nat /\ Len(buf) \in Nat /\ Len(received) \in Nat /\ next \in Nat
      /\ next <= Len(scored) + 1 /\ Total \in Nat /\ Len(received) <= Total
  BY <1>1 DEF GrpcTyped, Total
<1>3. /\ 1 .. Len(received) \subseteq 1 .. Total
      /\ \A i \in 1 .. Len(received) : Sent(i) = received[i]
  BY <1>2 DEF Sent
<1>4. \A i, j \in 1 .. Len(received) : i < j => received[i] < received[j]
  BY <1>1, <1>3 DEF SentInOrder
<1>5. PICK m \in 1 .. next : AllSent = Scored(m - 1)
  BY <1>1 DEF NothingMissing
<1>6. Delivered \subseteq AllSent
  BY <1>3 DEF Delivered, AllSent
<1>7. ASSUME NEW r \in Delivered PROVE r <= Len(scored) /\ Delivered \cap 1 .. r = Scored(r)
  <2>1. r \in 1 .. m - 1 /\ scored[r]
    BY <1>5, <1>6 DEF Scored
  <2>2. r <= Len(scored)
    BY <1>2, <1>5, <2>1
  <2>3. ASSUME NEW y \in Delivered, y \in 1 .. r PROVE y \in Scored(r)
    BY <1>5, <1>6, <2>3 DEF Scored
  <2>4. ASSUME NEW y \in Scored(r) PROVE y \in Delivered /\ y \in 1 .. r
    <3>1. y \in 1 .. r /\ y \in AllSent
      BY <1>2, <1>5, <2>1 DEF Scored
    <3>2. PICK j \in 1 .. Total : y = Sent(j)
      BY <3>1 DEF AllSent
    <3>3. PICK i \in 1 .. Len(received) : r = received[i]
      BY DEF Delivered
    <3>4. i \in 1 .. Total /\ r = Sent(i)
      BY <1>3, <3>3
    <3>5. ~(i < j)
      <4>1. i < j => r < y
        BY <1>1, <3>2, <3>4 DEF SentInOrder
      <4> QED BY <2>1, <3>1, <4>1
    <3>6. j \in 1 .. Len(received)
      BY <1>2, <3>2, <3>3, <3>5
    <3> QED BY <1>3, <3>1, <3>2, <3>6 DEF Delivered
  <2> QED BY <2>2, <2>3, <2>4
<1> QED BY <1>1, <1>4, <1>7 DEF StreamIsComplete, Outcome, GrpcTyped

(* api/grpc_scoring_service.py: for any number of requests, any limit and    *)
(* any size of the buffer a stream has its scores in order without a gap,    *)
(* and its status says what the client got.                                  *)
THEOREM StreamsAlwaysComplete == GrpcSpec => [](GrpcTypeOK /\ StreamIsComplete)
BY GrpcInitInv, GrpcNextInv, GrpcInvSuffices, PTL DEF GrpcSpec

-----------------------------------------------------------------------------
(* The stream client of the SDK.                                           *)

SocketRecords == [state : {"connecting", "open", "closed"}, filter : Filters]

SdkTyped ==
    /\ wanted \in [Subs -> Filters \cup {"no"}] /\ unused \subseteq Subs /\ timer \in BOOLEAN
    /\ socket \in 0 .. MaxSockets /\ attempt \in 0 .. MaxAttempts /\ stopped \in BOOLEAN
    /\ shown \in {"closed", "connecting", "open", "reconnecting"}
    /\ byCaller \in {"none", "subscribe", "unsubscribe", "close"}

\* The sockets are numbered in the order they were made.
SocketsNumbered == \E n \in 0 .. MaxSockets : made \in [1 .. n -> SocketRecords]

SdkInv ==
    /\ SdkTyped /\ SocketsNumbered /\ StreamServesSubscriptions
    /\ attempt # 0 => shown # "open"

LEMMA ServerFilterIsOne ==
  ASSUME NEW w \in [Subs -> Filters \cup {"no"}]
  PROVE  ServerFilter(w) \in Filters
<1> DEFINE used == {w[s] : s \in Subs} \ {"no"}
<1>1. used \subseteq Filters
  OBVIOUS
<1>2. CASE Cardinality(used) = 1
  <2>1. Cardinality({}) = 0
    BY FS_EmptySet
  <2>2. used # {}
    BY <1>2, <2>1
  <2>3. (CHOOSE f \in used : TRUE) \in used
    BY <2>2
  <2>4. ServerFilter(w) = CHOOSE f \in used : TRUE
    BY <1>2 DEF ServerFilter
  <2> QED BY <1>1, <2>3, <2>4
<1>3. CASE Cardinality(used) # 1
  BY <1>3 DEF ServerFilter, Filters
<1> QED BY <1>2, <1>3

\* connect() over sockets that are all closed.
LEMMA ConnectMakesOne ==
  ASSUME NEW n \in 0 .. MaxSockets, DOMAIN made = 1 .. n,
         NEW old \in [1 .. n -> SocketRecords], \A k \in 1 .. n : old[k].state = "closed",
         NEW w \in [Subs -> Filters \cup {"no"}], NEW tries, SdkConnect(w, old, tries)
  PROVE  /\ SocketsNumbered' /\ socket' \in 1 .. MaxSockets /\ Live' = {socket'}
         /\ timer' = FALSE /\ shown' = IF tries = 0 THEN "connecting" ELSE shown
         /\ made'[socket'].state = "connecting" /\ made'[socket'].filter = ServerFilter(w)
<1> USE SdkAssumption
<1> DEFINE r == [state |-> "connecting", filter |-> ServerFilter(w)]
<1>1. Cardinality(1 .. n) = n
  BY FS_Interval
<1>2. /\ n + 1 <= MaxSockets /\ made' = Extend(old, n + 1, r) /\ socket' = n + 1 /\ timer' = FALSE
      /\ shown' = IF tries = 0 THEN "connecting" ELSE shown
  BY <1>1 DEF SdkConnect
<1>3. r \in SocketRecords
  BY ServerFilterIsOne DEF SocketRecords
<1> HIDE DEF r
<1>4. \A k : k \in 1 .. n + 1 <=> k \in 1 .. n \/ k = n + 1
  OBVIOUS
<1>5. made' = [k \in 1 .. n + 1 |-> IF k = n + 1 THEN r ELSE old[k]]
  <2>1. DOMAIN old \cup {n + 1} = 1 .. n + 1
    BY <1>4
  <2> QED BY <1>2, <2>1 DEF Extend
<1>6. n + 1 \in 1 .. MaxSockets /\ n + 1 \in 0 .. MaxSockets /\ n + 1 \notin 1 .. n
  BY <1>2
<1>7. SocketsNumbered'
  <2>1. made' \in [1 .. n + 1 -> SocketRecords]
    BY <1>3, <1>4, <1>5
  <2> QED BY <1>6, <2>1 DEF SocketsNumbered, SocketRecords, Filters
<1>8. made'[n + 1] = r /\ r.state = "connecting" /\ r.filter = ServerFilter(w)
  <2>1. made'[n + 1] = r
    BY <1>4, <1>5
  <2> QED BY <2>1 DEF r
<1>9. Live' = {n + 1}
  <2>1. \A k \in 1 .. n : made'[k] = old[k]
    BY <1>4, <1>5, <1>6
  <2>2. DOMAIN made' = 1 .. n + 1
    BY <1>5
  <2> QED BY <1>4, <1>8, <2>1, <2>2 DEF Live
<1> QED BY <1>2, <1>6, <1>7, <1>8, <1>9

\* Closing the current socket leaves none open.
LEMMA ShutClosesAll ==
  ASSUME SdkInv, NEW n \in 0 .. MaxSockets, made \in [1 .. n -> SocketRecords], socket # 0
  PROVE  /\ Shut(socket) \in [1 .. n -> SocketRecords] /\ socket \in 1 .. n
         /\ \A k \in 1 .. n : Shut(socket)[k].state = "closed"
         /\ \A k \in 1 .. n : Shut(socket)[k].filter = made[k].filter
<1>1. Live = {socket}
  BY DEF SdkInv, StreamServesSubscriptions
<1>2. socket \in 1 .. n
  BY <1>1 DEF Live
<1>3. \A k \in 1 .. n : k # socket => made[k].state = "closed"
  BY <1>1 DEF Live
<1>4. Shut(socket) = [made EXCEPT ![socket] = [@ EXCEPT !.state = "closed"]]
  BY DEF Shut
<1>5. ASSUME NEW k \in 1 .. n
      PROVE  /\ Shut(socket)[k] \in SocketRecords /\ Shut(socket)[k].state = "closed"
             /\ Shut(socket)[k].filter = made[k].filter
  <2>1. made[k] \in SocketRecords
    OBVIOUS
  <2>2. CASE k = socket
    <3>1. Shut(socket)[k] = [made[k] EXCEPT !.state = "closed"]
      BY <1>2, <1>4, <2>2
    <3> QED BY <2>1, <3>1 DEF SocketRecords
  <2>3. CASE k # socket
    <3>1. Shut(socket)[k] = made[k]
      BY <1>4, <2>3
    <3> QED BY <1>3, <2>1, <2>3, <3>1
  <2> QED BY <2>2, <2>3
<1>6. Shut(socket) \in [1 .. n -> SocketRecords]
  <2>1. DOMAIN Shut(socket) = 1 .. n /\ Shut(socket) = [k \in 1 .. n |-> Shut(socket)[k]]
    BY <1>4
  <2> QED BY <1>5, <2>1
<1> QED BY <1>2, <1>5, <1>6

\* Without a current socket none is open.
LEMMA NoneIsOpen ==
  ASSUME SdkInv, NEW n \in 0 .. MaxSockets, made \in [1 .. n -> SocketRecords], socket = 0
  PROVE  \A k \in 1 .. n : made[k].state = "closed"
<1>1. Live = {}
  BY DEF SdkInv, StreamServesSubscriptions
<1> QED BY <1>1 DEF Live

LEMMA CloseAllCloses ==
  ASSUME SdkInv, CloseAll
  PROVE  /\ SocketsNumbered' /\ Live' = {} /\ socket' = 0 /\ timer' = FALSE /\ stopped' = TRUE
         /\ shown' = "closed" /\ attempt' = attempt
<1>1. PICK n \in 0 .. MaxSockets : made \in [1 .. n -> SocketRecords]
  BY DEF SdkInv, SocketsNumbered
<1>2. /\ socket' = 0 /\ timer' = FALSE /\ stopped' = TRUE /\ shown' = "closed" /\ attempt' = attempt
      /\ made' = IF socket = 0 THEN made ELSE Shut(socket)
  BY DEF CloseAll
<1>3. made' \in [1 .. n -> SocketRecords] /\ \A k \in 1 .. n : made'[k].state = "closed"
  <2>1. CASE socket = 0
    BY <1>1, <1>2, <2>1, NoneIsOpen
  <2>2. CASE socket # 0
    BY <1>1, <1>2, <2>2, ShutClosesAll
  <2> QED BY <2>1, <2>2
<1>4. SocketsNumbered'
  BY <1>3 DEF SocketsNumbered, SocketRecords, Filters
<1>5. Live' = {}
  BY <1>3 DEF Live
<1> QED BY <1>2, <1>4, <1>5

LEMMA SdkInitInv == SdkInit => SdkInv
<1> SUFFICES ASSUME SdkInit PROVE SdkInv
  OBVIOUS
<1> USE SdkAssumption
<1>1. /\ wanted = [s \in Subs |-> "no"] /\ unused = Subs /\ socket = 0 /\ timer = FALSE /\ attempt = 0
      /\ stopped = TRUE /\ shown = "closed" /\ byCaller = "none" /\ made = [n \in {} |-> 0]
  BY DEF SdkInit
<1>2. SdkTyped
  <2>1. 0 \in 0 .. MaxSockets /\ 0 \in 0 .. MaxAttempts
    OBVIOUS
  <2>2. wanted \in [Subs -> Filters \cup {"no"}]
    BY <1>1
  <2> QED BY <1>1, <2>1, <2>2, Zenon DEF SdkTyped
<1>3. SocketsNumbered
  <2>1. 1 .. 0 = {} /\ 0 \in 0 .. MaxSockets
    OBVIOUS
  <2>2. made \in [1 .. 0 -> SocketRecords]
    BY <1>1, <2>1
  <2> QED BY <2>1, <2>2 DEF SocketsNumbered
<1>4. Live = {}
  BY <1>1 DEF Live
<1> QED BY <1>1, <1>2, <1>3, <1>4 DEF SdkInv, StreamServesSubscriptions

\* Every change of the subscriptions.
LEMMA ChangeKeepsInv ==
  ASSUME SdkInv, NEW w \in [Subs -> Filters \cup {"no"}], ApplySubscriptionChange(w),
         unused' \subseteq Subs, byCaller' \in {"none", "subscribe", "unsubscribe", "close"}
  PROVE  SdkInv'
<1> USE SdkAssumption
<1>a. SdkTyped /\ StreamServesSubscriptions /\ (attempt # 0 => shown # "open")
  BY DEF SdkInv
<1>b. PICK n \in 0 .. MaxSockets : made \in [1 .. n -> SocketRecords]
  BY DEF SdkInv, SocketsNumbered
<1>c. wanted' = w
  BY DEF ApplySubscriptionChange
<1>1. CASE CloseAll
  <2>1. /\ SocketsNumbered' /\ Live' = {} /\ socket' = 0 /\ timer' = FALSE /\ stopped' = TRUE
        /\ shown' = "closed" /\ attempt' = attempt
    BY <1>1, CloseAllCloses
  <2>2. SdkTyped'
    <3>1. socket' \in 0 .. MaxSockets /\ attempt' \in 0 .. MaxAttempts
      BY <1>a, <2>1 DEF SdkTyped
    <3> QED BY <1>c, <2>1, <3>1, Zenon DEF SdkTyped, Filters
  <2> QED BY <2>1, <2>2 DEF SdkInv, StreamServesSubscriptions
<1>2. CASE stopped /\ stopped' = FALSE /\ attempt' = 0 /\ SdkConnect(w, made, 0)
  <2>1. socket = 0
    BY <1>a, <1>2 DEF StreamServesSubscriptions
  <2>2. \A k \in 1 .. n : made[k].state = "closed"
    BY <1>b, <2>1, NoneIsOpen
  <2>3. /\ SocketsNumbered' /\ socket' \in 1 .. MaxSockets /\ Live' = {socket'}
        /\ timer' = FALSE /\ shown' = "connecting"
        /\ made'[socket'].state = "connecting" /\ made'[socket'].filter = ServerFilter(w)
    BY <1>b, <1>2, <2>2, ConnectMakesOne
  <2>4. SdkTyped' /\ socket' # 0
    <3>1. socket' \in 0 .. MaxSockets /\ socket' # 0 /\ attempt' \in 0 .. MaxAttempts
      BY <1>2, <2>3
    <3> QED BY <1>c, <1>2, <2>3, <3>1, Zenon DEF SdkTyped, Filters
  <2>5. ServerFilter(wanted)' = ServerFilter(w)
    BY <1>c DEF ServerFilter
  <2> QED BY <1>2, <2>3, <2>4, <2>5 DEF SdkInv, StreamServesSubscriptions
<1>3. CASE /\ ~stopped /\ socket # 0 /\ SdkConnect(w, Shut(socket), attempt)
           /\ UNCHANGED <<attempt, stopped>>
  <2>1. /\ Shut(socket) \in [1 .. n -> SocketRecords]
        /\ \A k \in 1 .. n : Shut(socket)[k].state = "closed"
    BY <1>b, <1>3, ShutClosesAll
  <2>2. /\ SocketsNumbered' /\ socket' \in 1 .. MaxSockets /\ Live' = {socket'}
        /\ timer' = FALSE /\ shown' = IF attempt = 0 THEN "connecting" ELSE shown
        /\ made'[socket'].state = "connecting" /\ made'[socket'].filter = ServerFilter(w)
    BY <1>b, <1>3, <2>1, ConnectMakesOne
  <2>3. shown' # "open"
    BY <1>a, <2>2
  <2>4. SdkTyped' /\ socket' # 0
    <3>1. socket' \in 0 .. MaxSockets /\ socket' # 0
      BY <2>2
    <3>2. /\ attempt' \in 0 .. MaxAttempts /\ stopped' \in BOOLEAN
          /\ shown' \in {"closed", "connecting", "open", "reconnecting"}
      BY <1>a, <1>3, <2>2 DEF SdkTyped
    <3> QED BY <1>c, <2>2, <3>1, <3>2, Zenon DEF SdkTyped, Filters
  <2>5. ServerFilter(wanted)' = ServerFilter(w)
    BY <1>c DEF ServerFilter
  <2> QED BY <1>3, <2>2, <2>3, <2>4, <2>5 DEF SdkInv, StreamServesSubscriptions
<1>4. CASE /\ ServerFilter(w) = ServerFilter(wanted) \/ socket = 0
           /\ UNCHANGED <<socket, made, timer, attempt, stopped, shown>>
  <2>1. SdkTyped' /\ SocketsNumbered'
    BY <1>a, <1>b, <1>c, <1>4 DEF SdkTyped, SocketsNumbered, SocketRecords, Filters
  <2>2. ServerFilter(wanted)' = ServerFilter(w) /\ Live' = Live
    BY <1>c, <1>4 DEF ServerFilter, Live
  <2> QED BY <1>a, <1>4, <2>1, <2>2 DEF SdkInv, StreamServesSubscriptions
<1> QED BY <1>1, <1>2, <1>3, <1>4 DEF ApplySubscriptionChange, Refilter

LEMMA SdkNextInv == SdkInv /\ [SdkNext]_sdkVars => SdkInv'
<1> SUFFICES ASSUME SdkInv, [SdkNext]_sdkVars PROVE SdkInv'
  OBVIOUS
<1> USE SdkAssumption
<1>a. SdkTyped /\ StreamServesSubscriptions /\ (attempt # 0 => shown # "open")
  BY DEF SdkInv
<1>b. PICK n \in 0 .. MaxSockets : made \in [1 .. n -> SocketRecords]
  BY DEF SdkInv, SocketsNumbered
<1>1. ASSUME NEW s \in Subs, Unsubscribe(s) PROVE SdkInv'
  <2>1. [wanted EXCEPT ![s] = "no"] \in [Subs -> Filters \cup {"no"}]
    BY <1>a DEF SdkTyped
  <2> QED BY <1>a, <1>1, <2>1, ChangeKeepsInv DEF Unsubscribe, SdkTyped
<1>2. ASSUME NEW s \in Subs, NEW f \in Filters, SdkSubscribe(s, f) PROVE SdkInv'
  <2>1. [wanted EXCEPT ![s] = f] \in [Subs -> Filters \cup {"no"}]
    BY <1>a DEF SdkTyped
  <2> QED BY <1>a, <1>2, <2>1, ChangeKeepsInv DEF SdkSubscribe, SdkTyped
<1>3. CASE SdkClose
  <2>1. /\ SocketsNumbered' /\ Live' = {} /\ socket' = 0 /\ timer' = FALSE /\ stopped' = TRUE
        /\ shown' = "closed" /\ attempt' = attempt
    BY <1>3, CloseAllCloses DEF SdkClose
  <2>2. SdkTyped'
    <3>1. /\ socket' \in 0 .. MaxSockets /\ attempt' \in 0 .. MaxAttempts
          /\ unused' \subseteq Subs /\ wanted' \in [Subs -> Filters \cup {"no"}]
      BY <1>a, <1>3, <2>1 DEF SdkTyped, SdkClose
    <3>2. byCaller' = "close"
      BY <1>3 DEF SdkClose
    <3> QED BY <2>1, <3>1, <3>2, Zenon DEF SdkTyped, Filters
  <2> QED BY <2>1, <2>2 DEF SdkInv, StreamServesSubscriptions
<1>4. CASE TimerFires
  <2>1. /\ timer /\ SdkConnect(wanted, made, attempt)
        /\ UNCHANGED <<wanted, unused, attempt, stopped, byCaller>>
    BY <1>4 DEF TimerFires
  <2>2. socket = 0 /\ ~stopped /\ wanted \in [Subs -> Filters \cup {"no"}]
    BY <1>a, <2>1 DEF StreamServesSubscriptions, SdkTyped
  <2>3. \A k \in 1 .. n : made[k].state = "closed"
    BY <1>b, <2>2, NoneIsOpen
  <2>4. /\ SocketsNumbered' /\ socket' \in 1 .. MaxSockets /\ Live' = {socket'}
        /\ timer' = FALSE /\ shown' = IF attempt = 0 THEN "connecting" ELSE shown
        /\ made'[socket'].state = "connecting" /\ made'[socket'].filter = ServerFilter(wanted)
    BY <1>b, <2>1, <2>2, <2>3, ConnectMakesOne
  <2>5. shown' # "open"
    BY <1>a, <2>4
  <2>6. SdkTyped' /\ socket' # 0
    <3>1. socket' \in 0 .. MaxSockets /\ socket' # 0
      BY <2>4
    <3>2. /\ attempt' \in 0 .. MaxAttempts /\ stopped' \in BOOLEAN
          /\ shown' \in {"closed", "connecting", "open", "reconnecting"}
          /\ unused' \subseteq Subs /\ wanted' \in [Subs -> Filters \cup {"no"}]
          /\ byCaller' \in {"none", "subscribe", "unsubscribe", "close"}
      BY <1>a, <2>1, <2>4 DEF SdkTyped
    <3> QED BY <2>4, <3>1, <3>2, Zenon DEF SdkTyped, Filters
  <2>7. ServerFilter(wanted)' = ServerFilter(wanted)
    BY <2>1 DEF ServerFilter
  <2> QED BY <2>1, <2>2, <2>4, <2>5, <2>6, <2>7 DEF SdkInv, StreamServesSubscriptions
<1>5. ASSUME NEW k \in DOMAIN made, OnOpen(k) PROVE SdkInv'
  <2>1. /\ k \in Live /\ made' = [made EXCEPT ![k] = [@ EXCEPT !.state = "open"]]
        /\ attempt' = 0 /\ shown' = "open"
        /\ UNCHANGED <<wanted, unused, socket, timer, stopped, byCaller>>
    BY <1>5 DEF OnOpen
  <2>2. k = socket /\ socket # 0 /\ k \in 1 .. n
    BY <1>a, <1>b, <2>1 DEF StreamServesSubscriptions, Live
  <2>3. made[k] \in SocketRecords /\ made'[k] = [made[k] EXCEPT !.state = "open"]
    BY <1>b, <2>1, <2>2
  <2>4. made'[k] \in SocketRecords /\ made'[k].state = "open" /\ made'[k].filter = made[k].filter
    BY <2>3 DEF SocketRecords
  <2>5. made' \in [1 .. n -> SocketRecords] /\ \A j \in 1 .. n : j # k => made'[j] = made[j]
    BY <1>b, <2>1, <2>3, <2>4
  <2>6. SocketsNumbered'
    BY <2>5 DEF SocketsNumbered, SocketRecords, Filters
  <2>7. Live' = Live
    <3>1. DOMAIN made' = 1 .. n /\ DOMAIN made = 1 .. n
      BY <1>b, <2>5
    <3>2. \A j \in 1 .. n : made'[j].state # "closed" <=> made[j].state # "closed"
      BY <2>1, <2>4, <2>5 DEF Live
    <3> QED BY <3>1, <3>2 DEF Live
  <2>8. SdkTyped'
    BY <1>a, <2>1 DEF SdkTyped, Filters
  <2>9. ServerFilter(wanted)' = ServerFilter(wanted)
    BY <2>1 DEF ServerFilter
  <2> QED BY <1>a, <2>1, <2>2, <2>4, <2>6, <2>7, <2>8, <2>9 DEF SdkInv, StreamServesSubscriptions
<1>6. ASSUME NEW k \in DOMAIN made, OnClose(k) PROVE SdkInv'
  <2>1. k = socket /\ socket # 0 /\ ~stopped
    BY <1>a, <1>6 DEF StreamServesSubscriptions, OnClose
  <2>2. /\ made' = Shut(socket) /\ socket' = 0 /\ timer' = TRUE /\ attempt < MaxAttempts
        /\ attempt' = attempt + 1 /\ shown' = "reconnecting"
        /\ UNCHANGED <<wanted, unused, stopped, byCaller>>
    BY <1>6, <2>1 DEF OnClose
  <2>3. made' \in [1 .. n -> SocketRecords] /\ \A j \in 1 .. n : made'[j].state = "closed"
    BY <1>b, <2>1, <2>2, ShutClosesAll
  <2>4. SocketsNumbered'
    BY <2>3 DEF SocketsNumbered, SocketRecords, Filters
  <2>5. Live' = {}
    BY <2>3 DEF Live
  <2>6. attempt' \in 0 .. MaxAttempts
    BY <1>a, <2>2 DEF SdkTyped
  <2>7. SdkTyped'
    BY <1>a, <2>2, <2>6 DEF SdkTyped, Filters
  <2> QED BY <2>1, <2>2, <2>4, <2>5, <2>7 DEF SdkInv, StreamServesSubscriptions
<1>7. CASE UNCHANGED sdkVars
  <2>1. SdkTyped' /\ SocketsNumbered' /\ Live' = Live
    BY <1>a, <1>b, <1>7 DEF sdkVars, SdkTyped, SocketsNumbered, SocketRecords, Filters, Live
  <2>2. ServerFilter(wanted)' = ServerFilter(wanted)
    BY <1>7 DEF sdkVars, ServerFilter
  <2> QED BY <1>a, <1>7, <2>1, <2>2 DEF sdkVars, SdkInv, StreamServesSubscriptions
<1> QED BY <1>1, <1>2, <1>3, <1>4, <1>5, <1>6, <1>7 DEF SdkNext

(* sdk/src/stream.ts: for any subscriptions, wallets and number of sockets   *)
(* the one live socket is the current one and has the filter that today's    *)
(* subscriptions need; a running stream has it or the timer.                 *)
THEOREM SocketAlwaysServes == SdkSpec => [](SdkTypeOK /\ StreamServesSubscriptions)
<1>1. SdkInv => SdkTypeOK /\ StreamServesSubscriptions
  <2> SUFFICES ASSUME SdkInv PROVE SdkTypeOK /\ StreamServesSubscriptions
    OBVIOUS
  <2>1. PICK n \in 0 .. MaxSockets : made \in [1 .. n -> SocketRecords]
    BY DEF SdkInv, SocketsNumbered
  <2>2. DOMAIN made = 1 .. n /\ 1 .. n \subseteq 1 .. MaxSockets
    BY <2>1, SdkAssumption
  <2>3. \A k \in DOMAIN made : /\ made[k].state \in {"connecting", "open", "closed"}
                               /\ made[k].filter \in Filters
    BY <2>1 DEF SocketRecords
  <2> QED BY <2>2, <2>3 DEF SdkInv, SdkTyped, SdkTypeOK
<1> QED BY <1>1, SdkInitInv, SdkNextInv, PTL DEF SdkSpec

(* The property of the long-lived connections as a whole.                    *)
THEOREM StreamsAlwaysServed ==
  ServerSpec /\ SseSpec /\ GrpcSpec /\ SdkSpec => []StreamsAreServed
<1>1. /\ ServerTypeOK /\ DrainedBeforeClose /\ SseTypeOK /\ CounterIsExact /\ GrpcTypeOK
      /\ StreamIsComplete /\ SdkTypeOK /\ StreamServesSubscriptions
      => StreamsAreServed
  BY DEF StreamsAreServed
<1> QED BY <1>1, AlwaysDrainedBeforeClose, CounterAlwaysExact, StreamsAlwaysComplete,
           SocketAlwaysServes, PTL
=============================================================================
