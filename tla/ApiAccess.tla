------------------------------ MODULE ApiAccess -----------------------------
(*****************************************************************************)
(* Who may call the API and how often: quotas of the gateway, token          *)
(* families, and keys of namespaces.                                         *)
(*****************************************************************************)
EXTENDS Integers, FiniteSets

-----------------------------------------------------------------------------
(***************************************************************************)
(* api/gateway.py, api/policy.py and detection/api_key_store.py: the       *)
(* middleware that authenticates a request by its API key, counts the rows *)
(* of gateway_request_log against the key's and the namespace's quotas,    *)
(* runs the handler, and only then writes the row the next request counts. *)
(* Keys are created, rotated with a grace window, swept and revoked        *)
(* meanwhile.                                                              *)
(*                                                                         *)
(* All keys are of one namespace, not the unnamed one of public routes; a  *)
(* time unit is a day, a month two days.  The per-minute limit is          *)
(* RateLimiter's; here it may refuse at any time.  Requests with the       *)
(* admin or the compliance key have no quota and their rows count for no   *)
(* key: they are left out.                                                 *)
(***************************************************************************)

CONSTANTS GatewayWorkers,          \* requests that may be in the gateway at once
          GatewayMaxKeys,          \* bound: keys ever created
          DailyQuota, NamespaceQuota,       \* of every key; 0: no limit
          MonthlyQuota, NamespaceMonthlyQuota,
          GatewayGrace,            \* grace_period_seconds, in days
          LastDay,          \* bound: the days 0 .. LastDay
          MaxRequests       \* bound: requests admitted

\* The requests in the gateway at once are finitely many.
ASSUME GatewayAssumption ==
    /\ IsFiniteSet(GatewayWorkers) /\ {GatewayMaxKeys, GatewayGrace, LastDay, MaxRequests} \subseteq Nat
    /\ {DailyQuota, NamespaceQuota, MonthlyQuota, NamespaceMonthlyQuota} \subseteq Nat

Keys == 1 .. GatewayMaxKeys
Days == 0 .. LastDay
GatewayNever == LastDay + GatewayGrace + 1

VARIABLES
    status,     \* api_keys.status, with "revoked" for revoked = 1, "none" for no row
    gatewayExpires,    \* expires_at
    deadline,   \* rotation_deadline
    rotation,   \* the key whose row rotate_api_key has read, or 0
    gatewayDay,
    req,        \* the request a worker has: idle, checked ("quota") or being served
    gatewayRows,    \* gateway_request_log: whose request, and the day the row was written
    admitted,   \* history: the requests admitted, by the day their quota was checked
    unlogged    \* history: those of them that will never have a row

keyVars == <<status, gatewayExpires, deadline, rotation>>
gatewayVars == <<keyVars, gatewayDay, req, gatewayRows, admitted, unlogged>>

\* The nth request of a key that was admitted on a day; nth 0 before it is.
Request == [key : Keys, on : Days, nth : Nat \ {0}]
Unadmitted(k) == [key |-> k, on |-> 0, nth |-> 0]
GatewayIdle == [of |-> Unadmitted(0), at |-> "idle"]

GatewayTypeOK ==
    /\ status \in [Keys -> {"none", "active", "rotating", "revoked"}]
    /\ gatewayExpires \in [Keys -> Days \cup {GatewayNever}] /\ deadline \in [Keys -> 0 .. GatewayNever]
    /\ gatewayDay \in Days /\ rotation \in 0 .. GatewayMaxKeys
    /\ req \in [GatewayWorkers -> [of : [key : 0 .. GatewayMaxKeys, on : Days, nth : Nat],
                                   at : {"idle", "quota", "handler"}]]
    /\ \A w \in GatewayWorkers :
        /\ req[w].at = "quota" => req[w].of.key \in Keys
        /\ req[w].at = "handler" => req[w].of \in admitted
    /\ admitted \subseteq Request /\ unlogged \subseteq admitted
    /\ \A r \in gatewayRows : r.of \in admitted /\ r.day \in Days
    /\ Cardinality(admitted) <= MaxRequests

GatewayInit ==
           /\ status = [k \in Keys |-> "none"]
           /\ gatewayExpires = [k \in Keys |-> GatewayNever] /\ deadline = [k \in Keys |-> GatewayNever]
           /\ rotation = 0 /\ gatewayDay = 0 /\ req = [w \in GatewayWorkers |-> GatewayIdle]
           /\ gatewayRows = {} /\ admitted = {} /\ unlogged = {}

Midnight == /\ gatewayDay < LastDay /\ gatewayDay' = gatewayDay + 1
            /\ UNCHANGED <<keyVars, req, gatewayRows, admitted, unlogged>>

-----------------------------------------------------------------------------
\* A fresh row takes the next id.
IsNew(k) == status[k] = "none" /\ \A j \in 1 .. k - 1 : status[j] # "none"

\* create_api_key: the scopes were valid; with or without an expiry.
CreateApiKey(k, e) ==
    /\ IsNew(k)
    /\ status' = [status EXCEPT ![k] = "active"] /\ gatewayExpires' = [gatewayExpires EXCEPT ![k] = e]
    /\ UNCHANGED <<deadline, rotation, gatewayDay, req, gatewayRows, admitted, unlogged>>

\* revoke_api_key: WHERE revoked = 0.
RevokeApiKey(k) ==
    /\ status[k] \in {"active", "rotating"} /\ status' = [status EXCEPT ![k] = "revoked"]
    /\ UNCHANGED <<gatewayExpires, deadline, rotation, gatewayDay, req, gatewayRows, admitted, unlogged>>

\* rotate_api_key reads the row: it refuses a missing, a revoked and an
\* expired key, and not one whose grace window is over but that was not swept.
ReadForRotation(k) ==
    /\ rotation = 0 /\ status[k] \in {"active", "rotating"} /\ ~(gatewayExpires[k] < gatewayDay)
    /\ rotation' = k
    /\ UNCHANGED <<status, gatewayExpires, deadline, gatewayDay, req, gatewayRows, admitted, unlogged>>

\* It marks the key and inserts its replacement, whatever became of the key
\* meanwhile; one that was revoked stays revoked (revoked = 1), its
\* replacement is active.
RotateApiKey(new) ==
    LET k == rotation IN
    /\ k # 0 /\ IsNew(new) /\ rotation' = 0
    /\ status' = [status EXCEPT ![k] = IF @ = "revoked" THEN @ ELSE "rotating", ![new] = "active"]
    /\ deadline' = [deadline EXCEPT ![k] = gatewayDay + GatewayGrace]
    /\ gatewayExpires' = [gatewayExpires EXCEPT ![new] = gatewayExpires[k]]
    /\ UNCHANGED <<gatewayDay, req, gatewayRows, admitted, unlogged>>

\* sweep_expired_api_keys, run by the CLI.
Overdue(k) == status[k] = "rotating" /\ deadline[k] < gatewayDay
SweepExpiredApiKeys ==
    /\ \E k \in Keys : Overdue(k)
    /\ status' = [k \in Keys |-> IF Overdue(k) THEN "revoked" ELSE status[k]]
    /\ UNCHANGED <<gatewayExpires, deadline, rotation, gatewayDay, req, gatewayRows, admitted, unlogged>>

-----------------------------------------------------------------------------
\* get_api_key_by_hash and lookup_key.
GatewayValid(k) == /\ status[k] \in {"active", "rotating"} /\ ~(gatewayExpires[k] < gatewayDay)
                   /\ status[k] = "rotating" => ~(deadline[k] < gatewayDay)

\* enforce: resolve_credentials and check_scope let the key through; else 401
\* or 403, and no row.
Authenticate(w, k) ==
    /\ req[w] = GatewayIdle /\ GatewayValid(k)
    /\ req' = [req EXCEPT ![w] = [of |-> Unadmitted(k), at |-> "quota"]]
    /\ UNCHANGED <<keyVars, gatewayDay, gatewayRows, admitted, unlogged>>

Month(d) == d \div 2
RowsOf(K, D) == Cardinality({r \in gatewayRows : r.of.key \in K /\ r.day \in D})
MonthOf(d) == {e \in Days : Month(e) = Month(d)}
Within(count, limit) == limit = 0 \/ count < limit

\* check_quota: check_daily_quota, check_namespace_quota, check_monthly_quota,
\* check_namespace_monthly_quota, with no await between them.
CheckQuota(k) ==
    /\ Within(RowsOf({k}, {gatewayDay}), DailyQuota)
    /\ Within(RowsOf(Keys, {gatewayDay}), NamespaceQuota)
    /\ Within(RowsOf({k}, MonthOf(gatewayDay)), MonthlyQuota)
    /\ Within(RowsOf(Keys, MonthOf(gatewayDay)), NamespaceMonthlyQuota)

AdmittedOn(K, D) == {r \in admitted : r.key \in K /\ r.on \in D}

\* The quota holds and the handler starts.
Admit(w) ==
    LET k == req[w].of.key
        r == [key |-> k, on |-> gatewayDay, nth |-> Cardinality(AdmittedOn({k}, {gatewayDay})) + 1]
    IN  /\ req[w].at = "quota" /\ CheckQuota(k) /\ Cardinality(admitted) < MaxRequests
        /\ req' = [req EXCEPT ![w] = [of |-> r, at |-> "handler"]]
        /\ admitted' = admitted \cup {r}
        /\ UNCHANGED <<keyVars, gatewayDay, gatewayRows, unlogged>>

\* 429: by a quota, or by the rate limit per minute.  No row.
Refuse(w) ==
    /\ req[w].at = "quota"
    /\ req' = [req EXCEPT ![w] = GatewayIdle]
    /\ UNCHANGED <<keyVars, gatewayDay, gatewayRows, admitted, unlogged>>

\* _log_access in the finally clause, whatever the handler did; the row bears
\* the time it is written.
LogAccess(w) ==
    /\ req[w].at = "handler"
    /\ gatewayRows' = gatewayRows \cup {[of |-> req[w].of, day |-> gatewayDay]}
    /\ req' = [req EXCEPT ![w] = GatewayIdle]
    /\ UNCHANGED <<keyVars, gatewayDay, admitted, unlogged>>

\* log_gateway_request swallows its failure; a cancelled request and a killed
\* process write nothing either.
LogLost(w) ==
    /\ req[w].at = "handler"
    /\ unlogged' = unlogged \cup {req[w].of}
    /\ req' = [req EXCEPT ![w] = GatewayIdle]
    /\ UNCHANGED <<keyVars, gatewayDay, gatewayRows, admitted>>

GatewayNext ==
           \/ Midnight \/ SweepExpiredApiKeys
           \/ \E k \in Keys : \/ (\E e \in {0, GatewayNever} : CreateApiKey(k, e)) \/ RevokeApiKey(k)
                              \/ ReadForRotation(k) \/ RotateApiKey(k)
           \/ \E w \in GatewayWorkers : \/ (\E k \in Keys : Authenticate(w, k))
                                        \/ Admit(w) \/ Refuse(w) \/ LogAccess(w) \/ LogLost(w)

GatewaySpec == GatewayInit /\ [][GatewayNext]_gatewayVars
-----------------------------------------------------------------------------
\* Requests admitted in a period, and how many may be more than the quota.
Slack(D) == Cardinality(GatewayWorkers) - 1 + Cardinality({r \in unlogged : r.on \in D})
Bounded(K, D, limit) == limit = 0 \/ Cardinality(AdmittedOn(K, D)) <= limit + Slack(D)

(* What the quotas really bound.  The row is written after the response,   *)
(* so concurrent requests pass on the same count; still no key, and no     *)
(* namespace with its rotated keys, has more requests served in a day, or  *)
(* in a month, than its quota, the other requests then in flight, and      *)
(* those whose row was lost; midnight between check and row included.      *)
QuotaOvershootBounded ==
    \A d \in Days :
        /\ \A k \in Keys : /\ Bounded({k}, {d}, DailyQuota)
                           /\ Bounded({k}, MonthOf(d), MonthlyQuota)
        /\ Bounded(Keys, {d}, NamespaceQuota)
        /\ Bounded(Keys, MonthOf(d), NamespaceMonthlyQuota)

-----------------------------------------------------------------------------
(***************************************************************************)
(* api/auth.py, TokenService: a family of refresh tokens with rotation and *)
(* reuse detection.  Families live in the memory of one process and are    *)
(* guarded by a lock; a refresh changes the family under the lock and      *)
(* builds its answer from the family after releasing it.                   *)
(*                                                                         *)
(* The n-th jti of a family is n.  A signature is checked by what it is    *)
(* for: only tokens the service issued get past _decode.                   *)
(***************************************************************************)

CONSTANTS Families,     \* family ids
          Clients,      \* who may hold and present tokens, a thief among them
          MaxJti,       \* bound: rotations of a family
          RefreshTTL, AccessTTL, TokenMaxTime     \* TokenMaxTime bounds the clock

ASSUME TokenAssumption ==
    /\ {MaxJti, RefreshTTL, AccessTTL, TokenMaxTime} \subseteq Nat /\ MaxJti > 0
    /\ "none" \notin Families

Jtis == 1 .. MaxJti
TokenNever == TokenMaxTime + RefreshTTL + 1

VARIABLES
    tokenNow,
    tokenExpires,    \* family.expires_at; Never for a family that is not in _families
    current,    \* current_jti
    used,       \* used_jtis
    revoked,
    held,       \* held[f]: refresh tokens that left the service
    access,     \* access[f]: the latest expiry of an access token of f; 0: none
    answer,     \* client c waits for its answer: a family, or "none"
    tokenAccepted,   \* history: how often a refresh with this jti succeeded
    alerts      \* emit_security_alert("refresh_token_reuse")

family == <<tokenExpires, current, used, revoked>>
tokenVars == <<tokenNow, family, held, access, answer, tokenAccepted, alerts>>

Known(f) == tokenExpires[f] # TokenNever

TokenTypeOK ==
    /\ tokenNow \in 0 .. TokenMaxTime /\ tokenExpires \in [Families -> 0 .. TokenNever]
    /\ current \in [Families -> 0 .. MaxJti] /\ used \in [Families -> SUBSET Jtis]
    /\ revoked \in [Families -> BOOLEAN] /\ held \in [Families -> SUBSET Jtis]
    /\ access \in [Families -> 0 .. TokenMaxTime + AccessTTL]
    /\ answer \in [Clients -> Families \cup {"none"}]
    /\ tokenAccepted \in [Families -> [Jtis -> 0 .. MaxJti]] /\ alerts \subseteq Families

TokenInit ==
         /\ tokenNow = 0 /\ tokenExpires = [f \in Families |-> TokenNever] /\ current = [f \in Families |-> 0]
         /\ used = [f \in Families |-> {}] /\ revoked = [f \in Families |-> FALSE]
         /\ held = [f \in Families |-> {}] /\ access = [f \in Families |-> 0]
         /\ answer = [c \in Clients |-> "none"] /\ alerts = {}
         /\ tokenAccepted = [f \in Families |-> [j \in Jtis |-> 0]]

TokenTick == tokenNow < TokenMaxTime /\ tokenNow' = tokenNow + 1
             /\ UNCHANGED <<family, held, access, answer, tokenAccepted, alerts>>

\* issue: a new family, its first refresh token and an access token.
Issue(f) ==
    /\ ~Known(f) /\ held[f] = {}
    /\ tokenExpires' = [tokenExpires EXCEPT ![f] = tokenNow + RefreshTTL]
    /\ current' = [current EXCEPT ![f] = 1] /\ held' = [held EXCEPT ![f] = {1}]
    /\ access' = [access EXCEPT ![f] = tokenNow + AccessTTL]
    /\ UNCHANGED <<tokenNow, used, revoked, answer, tokenAccepted, alerts>>

\* _decode, then the family is looked up: the token expired with its family.
Presentable(f, j) == /\ j \in held[f] /\ Known(f) /\ tokenExpires[f] > tokenNow /\ ~revoked[f]

\* Mutant: a token that was already exchanged only gets refused.
Reuse_RefuseOnly(c, f, j) ==
    /\ answer[c] = "none" /\ Presentable(f, j) /\ j # current[f]
    /\ alerts' = alerts \cup {f}
    /\ UNCHANGED <<tokenNow, tokenExpires, current, used, revoked, held, access, answer, tokenAccepted>>

\* refresh with another jti than the current one: the family is gone.
Reuse(c, f, j) ==
    /\ answer[c] = "none" /\ Presentable(f, j) /\ j # current[f]
    /\ revoked' = [revoked EXCEPT ![f] = TRUE] /\ alerts' = alerts \cup {f}
    /\ UNCHANGED <<tokenNow, tokenExpires, current, used, held, access, answer, tokenAccepted>>

\* refresh under the lock; an audience the client may not use changes nothing.
Refresh(c, f, j) ==
    /\ answer[c] = "none" /\ Presentable(f, j) /\ j = current[f] /\ current[f] < MaxJti
    /\ used' = [used EXCEPT ![f] = @ \cup {j}] /\ current' = [current EXCEPT ![f] = @ + 1]
    /\ answer' = [answer EXCEPT ![c] = f]
    /\ tokenAccepted' = [tokenAccepted EXCEPT ![f][j] = @ + 1]
    /\ UNCHANGED <<tokenNow, tokenExpires, revoked, held, access, alerts>>

\* The answer is built after the lock: whatever current_jti is by then.
Answer(c) ==
    LET f == answer[c] IN
    /\ f # "none" /\ answer' = [answer EXCEPT ![c] = "none"]
    /\ held' = [held EXCEPT ![f] = @ \cup {current[f]}]
    /\ access' = [access EXCEPT ![f] = tokenNow + AccessTTL]
    /\ UNCHANGED <<tokenNow, family, tokenAccepted, alerts>>

\* The answer is lost on its way: the client can only present the old token.
AnswerLost(c) ==
    /\ answer[c] # "none" /\ answer' = [answer EXCEPT ![c] = "none"]
    /\ UNCHANGED <<tokenNow, family, held, access, tokenAccepted, alerts>>

RevokeFamily(f) ==
    /\ Known(f) /\ revoked' = [revoked EXCEPT ![f] = TRUE]
    /\ UNCHANGED <<tokenNow, tokenExpires, current, used, held, access, answer, tokenAccepted, alerts>>

\* A new process knows no family; tokens that are out stay out.
TokenRestart ==
    /\ tokenExpires' = [f \in Families |-> TokenNever] /\ current' = [f \in Families |-> 0]
    /\ used' = [f \in Families |-> {}] /\ revoked' = [f \in Families |-> FALSE]
    /\ answer' = [c \in Clients |-> "none"]
    /\ UNCHANGED <<tokenNow, held, access, tokenAccepted, alerts>>

TokenNext ==
         \/ TokenTick \/ TokenRestart \/ (\E c \in Clients : Answer(c) \/ AnswerLost(c))
         \/ \E f \in Families :
              \/ Issue(f) \/ RevokeFamily(f)
              \/ \E c \in Clients, j \in Jtis : Refresh(c, f, j) \/ Reuse(c, f, j)

TokenSpec == TokenInit /\ [][TokenNext]_tokenVars
-----------------------------------------------------------------------------
\* verify_access accepts the newest access token of f.
AccessWorks(f) == Known(f) /\ ~revoked[f] /\ access[f] > tokenNow

(* Rotation is what it promises, whoever copied a token and whatever the   *)
(* answers' fate: no refresh token works twice, and a family that ever saw *)
(* a stale token again gives no access any more, not even with tokens that *)
(* were issued before.                                                     *)
StaleTokenEndsFamily ==
    \A f \in Families :
      /\ \A j \in Jtis : tokenAccepted[f][j] <= 1
      /\ f \in alerts => ~AccessWorks(f) /\ \A j \in held[f] : ~Presentable(f, j)

-----------------------------------------------------------------------------
(***************************************************************************)
(* api/namespace.py: the API keys of the tenants.  A rotation leaves the   *)
(* old key valid for a grace period and inserts its successor; its read    *)
(* and its writes are separate, and so are the read and the write of a     *)
(* lookup.  The columns of a rotation exist only after the first one, or   *)
(* once the gateway's key store was used, whose sweep ends grace periods   *)
(* in this table too.                                                      *)
(***************************************************************************)

CONSTANTS Namespaces, NamespaceWorkers, NamespaceMaxKeys, NamespaceGrace, NamespaceMaxTime

ASSUME NamespaceAssumption == {NamespaceMaxKeys, NamespaceGrace, NamespaceMaxTime} \subseteq Nat

VARIABLES
    keys,      \* api_keys: id -> [ns, active, status, deadline,
               \* from, to, created], and marked, when a rotation was written
    columns,   \* the status columns exist
    namespaceW,         \* per worker [pc, key, ns, at]
    namespaceAccepted,  \* the last lookup that was answered: {[key, ns, at]}
    off,       \* keys that were deactivated -> when
    namespaceNow

namespaceVars == <<keys, columns, namespaceW, namespaceAccepted, off, namespaceNow>>

None == 0
Ids == DOMAIN keys
NewId == Cardinality(Ids) + 1
With(k, r) == [i \in Ids \cup {k} |-> IF i = k THEN r ELSE keys[i]]
NamespaceIdle == [pc |-> "idle", key |-> None, ns |-> "none", at |-> 0]

NamespaceTypeOK ==
    /\ Ids \subseteq 1 .. NamespaceMaxKeys /\ columns \in BOOLEAN /\ namespaceNow \in 0 .. NamespaceMaxTime
    /\ \A k \in Ids : keys[k].ns \in Namespaces /\ keys[k].status \in {"active", "rotating", "revoked"}

NamespaceInit ==
             /\ keys = << >> /\ columns = FALSE /\ namespaceW = [x \in NamespaceWorkers |-> NamespaceIdle]
             /\ namespaceAccepted = {} /\ off = << >> /\ namespaceNow = 0

-----------------------------------------------------------------------------
\* register_api_key; a key that is registered already is refused.
RegisterApiKey(ns) ==
    /\ NewId <= NamespaceMaxKeys
    /\ keys' = With(NewId, [ns |-> ns, active |-> TRUE, status |-> "active", deadline |-> -1,
                            from |-> None, to |-> None, created |-> namespaceNow, marked |-> -1])
    /\ UNCHANGED <<columns, namespaceW, namespaceAccepted, off, namespaceNow>>

\* deactivate_api_key
DeactivateApiKey(k) ==
    /\ k \in Ids /\ keys[k].active
    /\ keys' = [keys EXCEPT ![k].active = FALSE]
    /\ off' = [i \in DOMAIN off \cup {k} |-> IF i = k THEN namespaceNow ELSE off[i]]
    /\ UNCHANGED <<columns, namespaceW, namespaceAccepted, namespaceNow>>

\* lookup_namespace looks for the columns, and then reads the row.
LookupStart(x, k) ==
    /\ namespaceW[x].pc = "idle" /\ k \in Ids
    /\ namespaceW' = [namespaceW EXCEPT ![x] = [pc |-> IF columns THEN "read" ELSE "legacy", key |-> k,
                                                ns |-> keys[k].ns, at |-> namespaceNow]]
    /\ UNCHANGED <<keys, columns, namespaceAccepted, off, namespaceNow>>

\* Its tests of the row; without the columns there is no deadline.
NamespaceValid(k, now) ==
    /\ keys[k].active /\ keys[k].status # "revoked"
    /\ keys[k].status = "rotating" => keys[k].deadline >= now

LookupRead(x) ==
    LET c == namespaceW[x]
        ok == IF c.pc = "read" THEN NamespaceValid(c.key, c.at) ELSE keys[c.key].active
    IN  /\ c.pc \in {"read", "legacy"}
        /\ namespaceW' = [namespaceW EXCEPT ![x] = IF ok THEN [c EXCEPT !.pc = "looked"] ELSE NamespaceIdle]
        /\ UNCHANGED <<keys, columns, namespaceAccepted, off, namespaceNow>>

\* last_used_at is written, in another connection, and the namespace returned.
LookupAnswer(x) ==
    /\ namespaceW[x].pc = "looked"
    /\ namespaceAccepted' = {[key |-> namespaceW[x].key, ns |-> namespaceW[x].ns, at |-> namespaceW[x].at]}
    /\ namespaceW' = [namespaceW EXCEPT ![x] = NamespaceIdle]
    /\ UNCHANGED <<keys, columns, off, namespaceNow>>

\* rotate_namespace_key: the columns are added and the newest active key is
\* read (404 without one); of two created at once either may be it.
RotateRead(x, ns) ==
    LET cand == {k \in Ids : keys[k].ns = ns /\ keys[k].active /\ keys[k].status = "active"}
        newest == {k \in cand : \A j \in cand : keys[j].created <= keys[k].created}
    IN  /\ namespaceW[x].pc = "idle" /\ columns' = TRUE
        /\ \/ cand = {} /\ namespaceW' = namespaceW
           \/ \E k \in newest : namespaceW' = [namespaceW EXCEPT ![x] = [pc |-> "rotating", key |-> k, ns |-> ns, at |-> namespaceNow]]
        /\ UNCHANGED <<keys, namespaceAccepted, off, namespaceNow>>

\* The old key is marked and its successor inserted, in one transaction.
RotateWrite(x) ==
    LET c == namespaceW[x]
        old == [keys[c.key] EXCEPT !.status = "rotating", !.deadline = c.at + NamespaceGrace,
                                      !.to = NewId, !.marked = namespaceNow]
        new == [ns |-> c.ns, active |-> TRUE, status |-> "active", deadline |-> -1,
                from |-> c.key, to |-> None, created |-> c.at, marked |-> -1]
    IN  /\ c.pc = "rotating" /\ NewId <= NamespaceMaxKeys
        /\ keys' = [i \in Ids \cup {NewId} |-> IF i = c.key THEN old ELSE IF i = NewId THEN new ELSE keys[i]]
        /\ namespaceW' = [namespaceW EXCEPT ![x] = NamespaceIdle]
        /\ UNCHANGED <<columns, namespaceAccepted, off, namespaceNow>>

\* sweep_expired_api_keys of detection/api_key_store.py.
SweepNamespaceKeys ==
    /\ columns' = TRUE
    /\ keys' = [k \in Ids |-> IF keys[k].status = "rotating" /\ keys[k].deadline < namespaceNow
                              THEN [keys[k] EXCEPT !.status = "revoked"] ELSE keys[k]]
    /\ UNCHANGED <<namespaceW, namespaceAccepted, off, namespaceNow>>

NamespaceTick == namespaceNow < NamespaceMaxTime /\ namespaceNow' = namespaceNow + 1 /\ UNCHANGED <<keys, columns, namespaceW, namespaceAccepted, off>>

NamespaceNext ==
             \/ \E ns \in Namespaces : RegisterApiKey(ns) \/ \E x \in NamespaceWorkers : RotateRead(x, ns)
             \/ \E k \in 1 .. NamespaceMaxKeys : DeactivateApiKey(k) \/ \E x \in NamespaceWorkers : LookupStart(x, k)
             \/ \E x \in NamespaceWorkers : LookupRead(x) \/ LookupAnswer(x) \/ RotateWrite(x)
             \/ SweepNamespaceKeys \/ NamespaceTick
NamespaceSpec == NamespaceInit /\ [][NamespaceNext]_namespaceVars

-----------------------------------------------------------------------------
(***************************************************************************)
(* No rotation, not even two of them at once, leaves a tenant without a    *)
(* key: a key that was rotated has a successor of the same namespace, and  *)
(* unless a key was deactivated a namespace that ever had one has an       *)
(* active one.  A key answers only for its own namespace, and once a       *)
(* rotation of it is written, or it is deactivated, only up to the         *)
(* deadline of that rotation, or not at all.                               *)
(***************************************************************************)
RotationKeepsAccess ==
    /\ \A k \in Ids : keys[k].status # "active" =>
        /\ keys[k].to \in Ids /\ keys[keys[k].to].ns = keys[k].ns /\ keys[keys[k].to].from = k
    /\ \A ns \in Namespaces :
        LET mine == {k \in Ids : keys[k].ns = ns}
        IN  (mine # {} /\ mine \cap DOMAIN off = {}) => \E k \in mine : keys[k].status = "active"
    /\ \A a \in namespaceAccepted :
        /\ keys[a.key].ns = a.ns
        /\ (keys[a.key].status # "active" /\ a.at > keys[a.key].marked) => a.at <= keys[a.key].deadline
        /\ a.key \in DOMAIN off => a.at <= off[a.key]

-----------------------------------------------------------------------------
(* Access ends when it should: a quota is overshot by the requests under    *)
(* way at most, a stolen refresh token ends its family, and a rotated key   *)
(* of a namespace works until its grace is over (gateway.py, auth.py,       *)
(* namespace.py).                                                           *)
AccessIsBounded ==
    /\ GatewayTypeOK /\ QuotaOvershootBounded
    /\ TokenTypeOK /\ StaleTokenEndsFamily
    /\ NamespaceTypeOK /\ RotationKeepsAccess
=============================================================================
