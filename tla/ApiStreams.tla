----------------------------- MODULE ApiStreams -----------------------------
(*****************************************************************************)
(* Long-lived connections of the API: WebSocket sessions and shutdown,       *)
(* server-sent events, gRPC streams, and the stream client of the SDK.       *)
(*****************************************************************************)
EXTENDS Integers, Sequences, FiniteSets

-----------------------------------------------------------------------------
(***************************************************************************)
(* The lifespan of the API process (api/main.py) with the WebSocket alert  *)
(* stream (api/ws_router.py).  One event loop: a coroutine runs from one   *)
(* await to the next, so the steps below are what lies between two awaits. *)
(* HTTP requests are counted and drained at shutdown; WebSocket sessions   *)
(* are not, each has a heartbeat and a task that checks its key again.     *)
(***************************************************************************)

CONSTANTS Sockets, Requests,    \* WebSocket sessions, HTTP requests
          ServerMaxConnections,       \* ws_max_connections
          MaxKeys               \* bound: admin keys that follow one another

ASSUME ServerAssumption == IsFiniteSet(Requests) /\ MaxKeys \in Nat \ {0}

VARIABLES
    http,       \* http[r]: "new", "running", "health" or "done"
    inflight,   \* _inflight_requests
    life,       \* the lifespan: "up", "draining", "closing" or "closed"
    serverExpired,    \* the drain gave up at its deadline
    adminKey,   \* the key the settings hold now
    sock,       \* sock[s]: [at, key]; at "none", "accepting", "open", "dropping" or "gone"
    conns,      \* ConnectionManager._connections
    toClose,    \* close_all's list, not yet gone through
    cast        \* a broadcast: connections still to be sent to, and those that failed

serverVars == <<http, inflight, life, serverExpired, adminKey, sock, conns, toClose, cast>>

NoCast == [left |-> {}, dead |-> {}, on |-> FALSE]

ServerTypeOK ==
    /\ http \in [Requests -> {"new", "running", "health", "done"}]
    /\ inflight \in 0 .. Cardinality(Requests)
    /\ life \in {"up", "draining", "closing", "closed"} /\ serverExpired \in BOOLEAN
    /\ adminKey \in 1 .. MaxKeys /\ conns \subseteq Sockets /\ toClose \subseteq Sockets
    /\ sock \in [Sockets -> [at : {"none", "accepting", "open", "dropping", "gone"},
                             key : 0 .. MaxKeys]]
    /\ cast \in [left : SUBSET Sockets, dead : SUBSET Sockets, on : BOOLEAN]

ServerInit ==
          /\ http = [r \in Requests |-> "new"] /\ inflight = 0 /\ life = "up"
          /\ serverExpired = FALSE /\ adminKey = 1 /\ conns = {} /\ toClose = {} /\ cast = NoCast
          /\ sock = [s \in Sockets |-> [at |-> "none", key |-> 0]]
-----------------------------------------------------------------------------
ShuttingDown == life # "up"

\* _shutdown_guard_middleware: the flag and the counter, with no await between.
BeginRequest(r, kind) ==
    /\ http[r] = "new" /\ life # "closed"
    /\ IF ShuttingDown /\ kind # "health"
         THEN http' = [http EXCEPT ![r] = "done"] /\ UNCHANGED inflight
         ELSE http' = [http EXCEPT ![r] = kind] /\ inflight' = inflight + 1
    /\ UNCHANGED <<life, serverExpired, adminKey, sock, conns, toClose, cast>>

EndRequest(r) ==
    /\ http[r] \in {"running", "health"} /\ http' = [http EXCEPT ![r] = "done"]
    /\ inflight' = inflight - 1
    /\ UNCHANGED <<life, serverExpired, adminKey, sock, conns, toClose, cast>>

Shutdown ==
    /\ life = "up" /\ life' = "draining"
    /\ UNCHANGED <<http, inflight, serverExpired, adminKey, sock, conns, toClose, cast>>

ServerDrained == life = "draining" /\ inflight = 0

\* The drain loop ends, at zero or at the deadline; close_all takes its list.
DrainEnds ==
    /\ \/ ServerDrained /\ UNCHANGED serverExpired
       \/ life = "draining" /\ inflight > 0 /\ serverExpired' = TRUE
    /\ life' = "closing" /\ toClose' = conns
    /\ UNCHANGED <<http, inflight, adminKey, sock, conns, cast>>

CloseNext(s) ==
    /\ life = "closing" /\ s \in toClose /\ toClose' = toClose \ {s}
    /\ sock' = [sock EXCEPT ![s].at = "gone"]
    /\ UNCHANGED <<http, inflight, life, serverExpired, adminKey, conns, cast>>

\* _connections.clear() forgets those that connected meanwhile, unclosed;
\* then the database is checkpointed and Redis closed.
CloseResources ==
    /\ life = "closing" /\ toClose = {} /\ life' = "closed" /\ conns' = {}
    /\ UNCHANGED <<http, inflight, serverExpired, adminKey, sock, toClose, cast>>
-----------------------------------------------------------------------------
RotateAdminKey ==
    /\ adminKey < MaxKeys /\ adminKey' = adminKey + 1
    /\ UNCHANGED <<http, inflight, life, serverExpired, sock, conns, toClose, cast>>

\* ws_alerts: the key, the limit, and then the await of accept.
ServerConnect(s, key) ==
    /\ sock[s].at = "none" /\ life # "closed"
    /\ sock' = [sock EXCEPT ![s] =
                  [at |-> IF key = adminKey /\ Cardinality(conns) < ServerMaxConnections
                            THEN "accepting" ELSE "gone", key |-> key]]
    /\ UNCHANGED <<http, inflight, life, serverExpired, adminKey, conns, toClose, cast>>

Accepted(s) ==
    /\ sock[s].at = "accepting" /\ sock' = [sock EXCEPT ![s].at = "open"]
    /\ conns' = conns \cup {s}
    /\ UNCHANGED <<http, inflight, life, serverExpired, adminKey, toClose, cast>>

\* disconnect, called by the receive loop and by the heartbeat.
Disconnect(s) ==
    /\ s \in conns /\ conns' = conns \ {s} /\ sock' = [sock EXCEPT ![s].at = "gone"]
    /\ UNCHANGED <<http, inflight, life, serverExpired, adminKey, toClose, cast>>

\* Mutant: the task looks at the key the session came with and not at the
\* settings.
Revoked_Never(s) == sock[s].key = 0

Revoked(s) == sock[s].key # adminKey

\* _auth_recheck: close, an await, and disconnect.
AuthRecheck(s) ==
    /\ s \in conns /\ sock[s].at = "open" /\ Revoked(s)
    /\ sock' = [sock EXCEPT ![s].at = "dropping"]
    /\ UNCHANGED <<http, inflight, life, serverExpired, adminKey, conns, toClose, cast>>

AuthDrop(s) ==
    /\ sock[s].at = "dropping" /\ sock' = [sock EXCEPT ![s].at = "gone"]
    /\ conns' = conns \ {s}
    /\ UNCHANGED <<http, inflight, life, serverExpired, adminKey, toClose, cast>>
-----------------------------------------------------------------------------
Broadcast ==
    /\ ~cast.on /\ conns # {} /\ cast' = [left |-> conns, dead |-> {}, on |-> TRUE]
    /\ UNCHANGED <<http, inflight, life, serverExpired, adminKey, sock, conns, toClose>>

\* A session that does not want the wallet is skipped; a send to one that
\* has gone fails, to another may fail.
SendAlert(s) ==
    /\ cast.on /\ s \in cast.left
    /\ \/ sock[s].at = "open" /\ cast' = [cast EXCEPT !.left = @ \ {s}]
       \/ cast' = [cast EXCEPT !.left = @ \ {s}, !.dead = @ \cup {s}]
    /\ UNCHANGED <<http, inflight, life, serverExpired, adminKey, sock, conns, toClose>>

EndBroadcast ==
    /\ cast.on /\ cast.left = {} /\ cast' = NoCast /\ conns' = conns \ cast.dead
    /\ sock' = [s \in Sockets |-> IF s \in cast.dead \cap conns
                                    THEN [sock[s] EXCEPT !.at = "gone"] ELSE sock[s]]
    /\ UNCHANGED <<http, inflight, life, serverExpired, adminKey, toClose>>

ServerNext ==
          \/ Shutdown \/ DrainEnds \/ CloseResources \/ RotateAdminKey \/ Broadcast \/ EndBroadcast
          \/ \E r \in Requests : EndRequest(r) \/ \E k \in {"running", "health"} : BeginRequest(r, k)
          \/ \E s \in Sockets :
               \/ CloseNext(s) \/ Accepted(s) \/ Disconnect(s) \/ AuthRecheck(s) \/ AuthDrop(s)
               \/ SendAlert(s) \/ \E k \in 1 .. MaxKeys : ServerConnect(s, k)

ServerSpec == ServerInit /\ [][ServerNext]_serverVars

\* The event loop wakes the tasks of every open session: its accept returns,
\* its timer fires and its close ends; a shutdown that closes goes on.
ServerFairness ==
    /\ \A s \in Sockets : /\ WF_serverVars(Accepted(s)) /\ WF_serverVars(AuthRecheck(s))
                          /\ WF_serverVars(AuthDrop(s)) /\ WF_serverVars(CloseNext(s))
    /\ WF_serverVars(CloseResources)

ServerFairSpec == ServerSpec /\ ServerFairness
-----------------------------------------------------------------------------
(* The database is closed under no request: when the resources are closed  *)
(* no counted request other than a health check is running, unless the     *)
(* drain gave up at its deadline.                                          *)
DrainedBeforeClose ==
    life \in {"closing", "closed"} /\ ~serverExpired => \A r \in Requests : http[r] # "running"

(* A key that was replaced loses its sessions: every session that joined   *)
(* with an older key is eventually out of the broadcasts.                  *)
RevokedIsDropped ==
    \A s \in Sockets : (s \in conns /\ sock[s].key # adminKey) ~> s \notin conns

-----------------------------------------------------------------------------
(***************************************************************************)
(* Server-sent score updates: api/streaming.py and api/streaming_router.py *)
(* over Redis.  The events of one wallet are published on a channel and    *)
(* the newest is kept in a hash; the connections of one API key are        *)
(* counted in a Redis key that expires an hour after the last increment.   *)
(* A client that comes back names the last event it received.              *)
(***************************************************************************)

CONSTANTS Clients,          \* connections of one API key, in succession
          SseMaxConnections,   \* _MAX_CONNECTIONS_PER_KEY
          MaxEvents,        \* bound: events published
          MaxUnstarted      \* bound: responses dropped before their generator ran

ASSUME SseAssumption == IsFiniteSet(Clients) /\ {MaxEvents, MaxUnstarted} \subseteq Nat

VARIABLES
    count,      \* the Redis counter
    sseExpired,    \* history: the counter expired while connections were open
    events,     \* events published so far, numbered from 1
    conn,       \* conn[c]: "out", "counted", "refused", "started", "replayed" or "live"
    lastId,     \* lastId[c]: the Last-Event-ID of c, 0 for none
    got,        \* got[c]: events c has received
    queue,      \* queue[c]: events in c's pub/sub buffer
    since,      \* since[c]: events published before c subscribed
    unstarted   \* history: responses dropped before their generator ran

sseVars == <<count, sseExpired, events, conn, lastId, got, queue, since, unstarted>>

SseTypeOK ==
    /\ count \in 0 .. Cardinality(Clients) + MaxUnstarted /\ sseExpired \in BOOLEAN
    /\ events \in 0 .. MaxEvents /\ unstarted \in 0 .. MaxUnstarted
    /\ conn \in [Clients -> {"out", "counted", "refused", "started", "replayed", "live"}]
    /\ lastId \in [Clients -> 0 .. MaxEvents] /\ since \in [Clients -> 0 .. MaxEvents]
    /\ got \in [Clients -> SUBSET (1 .. MaxEvents)]
    /\ queue \in [Clients -> SUBSET (1 .. MaxEvents)]

SseInit ==
       /\ count = 0 /\ sseExpired = FALSE /\ events = 0 /\ unstarted = 0
       /\ conn = [c \in Clients |-> "out"] /\ lastId = [c \in Clients |-> 0]
       /\ got = [c \in Clients |-> {}] /\ queue = [c \in Clients |-> {}]
       /\ since = [c \in Clients |-> 0]

Counted(c) == conn[c] \in {"counted", "refused", "started", "replayed", "live"}
-----------------------------------------------------------------------------
\* publish: to the channel of the wallet and to the channel that everybody
\* subscribes to; both reach the same connections.
Publish ==
    /\ events < MaxEvents /\ events' = events + 1
    /\ queue' = [c \in Clients |-> IF conn[c] = "live" THEN queue[c] \cup {events + 1}
                                                       ELSE queue[c]]
    /\ UNCHANGED <<count, sseExpired, conn, lastId, got, since, unstarted>>

\* stream_scores: increment first, refuse on the answer.
Increment(c) ==
    /\ conn[c] = "out" /\ count' = count + 1
    /\ conn' = [conn EXCEPT ![c] = IF count + 1 > SseMaxConnections THEN "refused" ELSE "counted"]
    /\ UNCHANGED <<sseExpired, events, lastId, got, queue, since, unstarted>>

\* decr, and back to 0 when the key had expired in between.
Decremented(c) == IF count > 0 THEN count - 1 ELSE 0

Refuse(c) ==
    /\ conn[c] = "refused" /\ conn' = [conn EXCEPT ![c] = "out"] /\ count' = Decremented(c)
    /\ UNCHANGED <<sseExpired, events, lastId, got, queue, since, unstarted>>

\* The client is gone before the response starts: the generator's finally
\* never runs.
NeverStarted(c) ==
    /\ conn[c] = "counted" /\ conn' = [conn EXCEPT ![c] = "out"] /\ unstarted' = unstarted + 1
    /\ unstarted < MaxUnstarted
    /\ UNCHANGED <<count, sseExpired, events, lastId, got, queue, since>>

Start(c) ==
    /\ conn[c] = "counted" /\ conn' = [conn EXCEPT ![c] = "started"]
    /\ UNCHANGED <<count, sseExpired, events, lastId, got, queue, since, unstarted>>

\* subscribe: with a Last-Event-ID the newest event, if it is another one.
Replay(c) ==
    /\ conn[c] = "started" /\ conn' = [conn EXCEPT ![c] = "replayed"]
    /\ got' = [got EXCEPT ![c] = IF lastId[c] > 0 /\ events > 0 THEN @ \cup {events} ELSE @]
    /\ UNCHANGED <<count, sseExpired, events, lastId, queue, since, unstarted>>

SseSubscribe(c) ==
    /\ conn[c] = "replayed" /\ conn' = [conn EXCEPT ![c] = "live"]
    /\ since' = [since EXCEPT ![c] = events]
    /\ UNCHANGED <<count, sseExpired, events, lastId, got, queue, unstarted>>

Receive(c) ==
    /\ conn[c] = "live" /\ queue[c] # {}
    /\ LET e == CHOOSE x \in queue[c] : \A y \in queue[c] : x <= y IN
         /\ queue' = [queue EXCEPT ![c] = @ \ {e}] /\ got' = [got EXCEPT ![c] = @ \cup {e}]
    /\ UNCHANGED <<count, sseExpired, events, conn, lastId, since, unstarted>>

\* The client leaves, its key is revoked, or the server fails: the finally
\* blocks run.
Leave(c) ==
    /\ conn[c] \in {"started", "replayed", "live"} /\ conn' = [conn EXCEPT ![c] = "out"]
    /\ count' = Decremented(c) /\ queue' = [queue EXCEPT ![c] = {}]
    /\ lastId' = [lastId EXCEPT ![c] = IF got[c] = {} THEN 0
                                       ELSE CHOOSE x \in got[c] : \A y \in got[c] : x >= y]
    /\ UNCHANGED <<sseExpired, events, got, since, unstarted>>

Expire ==
    /\ count > 0 /\ ~sseExpired /\ sseExpired' = TRUE /\ count' = 0
    /\ UNCHANGED <<events, conn, lastId, got, queue, since, unstarted>>

SseNext ==
       \/ Publish \/ Expire
       \/ \E c \in Clients :
            \/ Increment(c) \/ Refuse(c) \/ NeverStarted(c) \/ Start(c) \/ Replay(c)
            \/ SseSubscribe(c) \/ Receive(c) \/ Leave(c)

SseSpec == SseInit /\ [][SseNext]_sseVars
-----------------------------------------------------------------------------
(* The limit counts what it limits: until the key expires under an open    *)
(* connection the counter is the number of connections of the API key, and *)
(* of responses that were never begun, in every order of coming and going. *)
CounterIsExact ==
    ~sseExpired => count = Cardinality({c \in Clients : Counted(c)}) + unstarted

-----------------------------------------------------------------------------
(***************************************************************************)
(* api/grpc_scoring_service.py: BatchScoreWallets answers a stream of      *)
(* requests through _stream_with_backpressure: a producer thread fills a   *)
(* bounded queue, the RPC thread empties it towards the client, and either *)
(* side may end first: the requests run out or are too many, a read fails, *)
(* the client stalls until the producer gives up, or goes away.            *)
(***************************************************************************)

CONSTANTS MaxBatch,     \* settings.grpc_max_batch_wallets
          BufferSize,   \* settings.grpc_stream_buffer_size
          MaxRequests   \* bound: requests the client sends

\* A queue.Queue of size 0 would have no bound.
ASSUME GrpcAssumption == {MaxBatch, MaxRequests} \subseteq Nat /\ BufferSize \in Nat \ {0}

VARIABLES
    scored,     \* request -> whether the wallet has a score
    next,       \* the request produce() handles next
    item,       \* the score the producer holds, 0 when it has none
    producer,   \* "run" | "put" | "end" (leaving) | "done" (finished is set)
    buf,        \* queue.Queue
    stop, slow, error,   \* the event and the state dictionary
    rpc,        \* "loop" | "ok" | "slow" | "limit" | "failed" | "gone"
    received    \* history: what the client got, in order

grpcVars == <<scored, next, item, producer, buf, stop, slow, error, rpc, received>>

GrpcTypeOK ==
    /\ producer \in {"run", "put", "end", "done"} /\ Len(buf) <= BufferSize
    /\ rpc \in {"loop", "ok", "slow", "limit", "failed", "gone"}
    /\ error \in {"", "limit", "failed"} /\ stop \in BOOLEAN /\ slow \in BOOLEAN

GrpcInit ==
        /\ \E n \in 0 .. MaxRequests : scored \in [1 .. n -> BOOLEAN]
        /\ next = 1 /\ item = 0 /\ producer = "run" /\ buf = <<>>
        /\ stop = FALSE /\ slow = FALSE /\ error = "" /\ rpc = "loop" /\ received = <<>>

\* produce(): one request, counted before it is looked up.
Produce ==
    /\ producer = "run"
    /\ \/ /\ next > Len(scored) /\ producer' = "end" /\ UNCHANGED <<next, item, error>>
       \/ /\ next <= Len(scored) /\ next > MaxBatch
          /\ error' = "limit" /\ producer' = "end" /\ UNCHANGED <<next, item>>
       \/ /\ next <= Len(scored) /\ next <= MaxBatch /\ next' = next + 1 /\ UNCHANGED error
          /\ item' = IF scored[next] THEN next ELSE 0
          /\ producer' = IF scored[next] THEN "put" ELSE "run"
    /\ UNCHANGED <<scored, buf, stop, slow, rpc, received>>

\* get_latest_scores raises.
ReadFails == /\ producer = "run" /\ next <= Len(scored) /\ next <= MaxBatch
             /\ error' = "failed" /\ producer' = "end"
             /\ UNCHANGED <<scored, next, item, buf, stop, slow, rpc, received>>

\* _put: room, a consumer that stopped, or no room until the deadline.
Put ==
    /\ producer = "put" /\ item' = 0
    /\ \/ /\ ~stop /\ Len(buf) < BufferSize /\ buf' = Append(buf, item)
          /\ producer' = "run" /\ UNCHANGED slow
       \/ /\ stop /\ producer' = "end" /\ UNCHANGED <<buf, slow>>
       \/ /\ ~stop /\ Len(buf) = BufferSize /\ slow' = TRUE
          /\ producer' = "end" /\ UNCHANGED buf
    /\ UNCHANGED <<scored, next, stop, error, rpc, received>>

\* The finally of _run; a slow client's call is cancelled, which the RPC
\* thread may see as its generator being closed.
Finish == /\ producer = "end" /\ producer' = "done"
          /\ UNCHANGED <<scored, next, item, buf, stop, slow, error, rpc, received>>

\* The RPC thread yields an item, which the client may take its time to read.
Yield == /\ rpc = "loop" /\ buf # <<>>
         /\ received' = Append(received, Head(buf)) /\ buf' = Tail(buf)
         /\ UNCHANGED <<scored, next, item, producer, stop, slow, error, rpc>>

\* The queue was empty, and still is after finished was seen set.
GrpcDrained == producer = "done" /\ buf = <<>>

GrpcClose ==
    /\ rpc = "loop" /\ GrpcDrained /\ stop' = TRUE
    /\ rpc' = IF slow THEN "slow" ELSE IF error # "" THEN error ELSE "ok"
    /\ UNCHANGED <<scored, next, item, producer, buf, slow, error, received>>

\* The client goes away, or the cancelled call is closed under the generator.
ClientGone == /\ rpc = "loop" /\ stop' = TRUE /\ rpc' = "gone"
              /\ UNCHANGED <<scored, next, item, producer, buf, slow, error, received>>

GrpcNext == Produce \/ ReadFails \/ Put \/ Finish \/ Yield \/ GrpcClose \/ ClientGone

GrpcSpec == GrpcInit /\ [][GrpcNext]_grpcVars
-----------------------------------------------------------------------------
\* The first n requests that have a score, and those the client got one for.
Scored(n) == {i \in 1 .. n : scored[i]}
Delivered == {received[i] : i \in 1 .. Len(received)}

(* The client gets the scores of its requests in order without a gap; a    *)
(* stream that ends without an error has delivered every one, and a stream *)
(* that is refused for its length every one up to the limit; only a client *)
(* that left a full queue behind is called slow.                           *)
StreamIsComplete ==
    /\ \A i, j \in 1 .. Len(received) : i < j => received[i] < received[j]
    /\ \A r \in Delivered : r <= Len(scored) /\ Delivered \cap 1 .. r = Scored(r)
    /\ rpc = "ok" => Delivered = Scored(Len(scored)) /\ Len(scored) <= MaxBatch
    /\ rpc = "limit" => Delivered = Scored(MaxBatch) /\ Len(scored) > MaxBatch
    /\ rpc = "slow" => Len(received) >= BufferSize

-----------------------------------------------------------------------------
(***************************************************************************)
(* LedgerLensAlertStream (sdk/src/stream.ts): one WebSocket behind any     *)
(* number of subscriptions, re-opened with another server-side filter when *)
(* the subscriptions change, and re-opened after a delay when the server   *)
(* or the network closes it.  Calls of the application, events of the      *)
(* socket and the timer interleave on one JavaScript thread.               *)
(***************************************************************************)

CONSTANTS Subs,         \* subscriptions the application may make, each once
          Wallets,      \* wallet filters; "all" is null
          MaxSockets, MaxAttempts  \* bounds: sockets created, failures in a row

ASSUME SdkAssumption == {MaxSockets, MaxAttempts} \subseteq Nat

Filters == Wallets \cup {"all"}

VARIABLES
    wanted,     \* per subscription: its walletFilter, "no" before and after
    unused,     \* subscriptions not yet made
    socket,     \* this.socket: its number, 0 for null
    made,       \* sockets created: [number -> [state, filter]]
    timer,      \* a reconnect is scheduled
    attempt, stopped,
    shown,      \* _state
    byCaller    \* history: the last thing that opened or closed the stream

sdkVars == <<wanted, unused, socket, made, timer, attempt, stopped, shown, byCaller>>

Live == {n \in DOMAIN made : made[n].state # "closed"}

SdkTypeOK ==
    /\ wanted \in [Subs -> Filters \cup {"no"}] /\ unused \subseteq Subs
    /\ socket \in 0 .. MaxSockets /\ DOMAIN made \subseteq 1 .. MaxSockets
    /\ \A n \in DOMAIN made : /\ made[n].state \in {"connecting", "open", "closed"}
                              /\ made[n].filter \in Filters
    /\ timer \in BOOLEAN /\ attempt \in 0 .. MaxAttempts /\ stopped \in BOOLEAN
    /\ shown \in {"closed", "connecting", "open", "reconnecting"}
    /\ byCaller \in {"none", "subscribe", "unsubscribe", "close"}

SdkInit ==
       /\ wanted = [s \in Subs |-> "no"] /\ unused = Subs
       /\ socket = 0 /\ made = [n \in {} |-> 0] /\ timer = FALSE
       /\ attempt = 0 /\ stopped = TRUE /\ shown = "closed" /\ byCaller = "none"
-----------------------------------------------------------------------------
\* serverFilter(): the one filter all subscriptions share, otherwise null.
ServerFilter(w) ==
    LET used == {w[s] : s \in Subs} \ {"no"}
    IN IF Cardinality(used) = 1 THEN CHOOSE f \in used : TRUE ELSE "all"

Extend(f, n, v) == [k \in DOMAIN f \cup {n} |-> IF k = n THEN v ELSE f[k]]
Shut(n) == [made EXCEPT ![n].state = "closed"]

\* connect(): a new socket for the filter the subscriptions `w' call for.
SdkConnect(w, old, tries) ==
    LET n == Cardinality(DOMAIN made) + 1
    IN /\ n <= MaxSockets
       /\ made' = Extend(old, n, [state |-> "connecting", filter |-> ServerFilter(w)])
       /\ socket' = n /\ timer' = FALSE
       /\ shown' = IF tries = 0 THEN "connecting" ELSE shown

\* close()
CloseAll ==
    /\ stopped' = TRUE /\ timer' = FALSE /\ socket' = 0 /\ shown' = "closed"
    /\ made' = (IF socket = 0 THEN made ELSE Shut(socket))
    /\ UNCHANGED attempt

\* Mutant: an open socket keeps the filter it was opened with.
Refilter_Never(w) == UNCHANGED <<socket, made, timer, attempt, stopped, shown>>

\* The socket is replaced, without a reconnect being surfaced.
Refilter(w) ==
    IF ServerFilter(w) # ServerFilter(wanted) /\ socket # 0
    THEN SdkConnect(w, Shut(socket), attempt) /\ UNCHANGED <<attempt, stopped>>
    ELSE UNCHANGED <<socket, made, timer, attempt, stopped, shown>>

\* applySubscriptionChange(), after which the subscriptions are `w'.
ApplySubscriptionChange(w) ==
    /\ wanted' = w
    /\ IF \A s \in Subs : w[s] = "no" THEN CloseAll
       ELSE IF stopped
            THEN stopped' = FALSE /\ attempt' = 0 /\ SdkConnect(w, made, 0)
            ELSE Refilter(w)

SdkSubscribe(s, f) ==
    /\ s \in unused /\ unused' = unused \ {s}
    /\ ApplySubscriptionChange([wanted EXCEPT ![s] = f]) /\ byCaller' = "subscribe"

\* The function subscribe() returned; a second call finds nothing to delete.
Unsubscribe(s) ==
    /\ wanted[s] # "no" /\ UNCHANGED unused
    /\ ApplySubscriptionChange([wanted EXCEPT ![s] = "no"]) /\ byCaller' = "unsubscribe"

SdkClose ==
    /\ CloseAll /\ byCaller' = "close" /\ UNCHANGED <<wanted, unused>>

\* onopen. A socket that was closed by the client has no more events.
OnOpen(n) ==
    /\ n \in Live /\ made[n].state = "connecting"
    /\ made' = [made EXCEPT ![n].state = "open"]
    /\ attempt' = 0 /\ shown' = "open"
    /\ UNCHANGED <<wanted, unused, socket, timer, stopped, byCaller>>

\* onclose of the current socket: scheduleReconnect unless stopped.
OnClose(n) ==
    /\ n \in Live /\ attempt < MaxAttempts /\ made' = Shut(n)
    /\ IF socket # n THEN UNCHANGED <<socket, timer, attempt, shown>>
       ELSE /\ socket' = 0
            /\ IF stopped THEN UNCHANGED <<timer, attempt, shown>>
               ELSE timer' = TRUE /\ attempt' = attempt + 1 /\ shown' = "reconnecting"
    /\ UNCHANGED <<wanted, unused, stopped, byCaller>>

TimerFires ==
    /\ timer /\ SdkConnect(wanted, made, attempt)
    /\ UNCHANGED <<wanted, unused, attempt, stopped, byCaller>>

SdkNext ==
       \/ \E s \in Subs : Unsubscribe(s) \/ \E f \in Filters : SdkSubscribe(s, f)
       \/ \E n \in DOMAIN made : OnOpen(n) \/ OnClose(n)
       \/ SdkClose \/ TimerFires

SdkSpec == SdkInit /\ [][SdkNext]_sdkVars
-----------------------------------------------------------------------------
(* There is never more than one live socket, and it is the current one; a  *)
(* running stream has either it or the timer, a stopped one neither; the   *)
(* state shown is the socket's; and the filter the socket was opened with  *)
(* is the one today's subscriptions call for, so that no subscription can  *)
(* miss alerts to a filter that an earlier set of subscriptions chose.     *)
StreamServesSubscriptions ==
    /\ Live = {socket} \ {0}
    /\ stopped <=> (socket = 0 /\ ~timer)
    /\ timer => socket = 0
    /\ (shown = "open") <=> (socket # 0 /\ made[socket].state = "open")
    /\ socket # 0 => made[socket].filter = ServerFilter(wanted)

-----------------------------------------------------------------------------
(* Connections are served to their end: the database outlives counted      *)
(* requests, the counter of event streams is their number, a gRPC stream   *)
(* has no gap, and the SDK's socket has the filter its subscriptions need  *)
(* (api/main.py, streaming_router.py, grpc_scoring_service.py, stream.ts). *)
StreamsAreServed ==
    /\ ServerTypeOK /\ DrainedBeforeClose
    /\ SseTypeOK /\ CounterIsExact
    /\ GrpcTypeOK /\ StreamIsComplete
    /\ SdkTypeOK /\ StreamServesSubscriptions
=============================================================================
