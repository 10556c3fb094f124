----------------------------- MODULE Compliance -----------------------------
(*****************************************************************************)
(* From a score to a decision: alerts, webhook retries, analysts' cases,     *)
(* reports of suspicious activity, the labels that come back, and the lists  *)
(* and overrides of wallets.                                                 *)
(*****************************************************************************)
EXTENDS Integers, Sequences, FiniteSets, FiniteSetsExt, SequencesExt

-----------------------------------------------------------------------------
(***************************************************************************)
(* detection/alert_engine.py with detection/suppressions.py: the alert     *)
(* state of one wallet, driven by one score per cycle, while operators add *)
(* and delete suppression rules and rules expire.  Wallets share nothing.  *)
(***************************************************************************)

CONSTANTS AlertScores,       \* the scores a cycle may bring
          Threshold,    \* risk_score_threshold
          AlertMaxScores     \* bound: cycles

EscalationDelta == 10
ResolutionConsecutive == 3

VARIABLES
    active,     \* alert_active
    lastScore,  \* last_score
    streak,     \* below_threshold_streak
    rules,      \* rules in force: "until" expires, "forever" does not
    log,        \* alert_events: [type, at], `at' the cycle among the unsuppressed
    seen        \* history: the scores that were not suppressed

alertVars == <<active, lastScore, streak, rules, log, seen>>

AlertTypeOK ==
    /\ active \in BOOLEAN /\ lastScore \in AlertScores \cup {0}
    /\ streak \in 0 .. ResolutionConsecutive - 1 /\ rules \subseteq {"until", "forever"}
    /\ log \in Seq([type : {"opened", "escalated", "resolved"}, at : 1 .. AlertMaxScores])
    /\ seen \in Seq(AlertScores)

AlertInit == /\ active = FALSE /\ lastScore = 0 /\ streak = 0 /\ rules = {}
             /\ log = <<>> /\ seen = <<>>

\* SuppressionsStore.add and delete; time expires the other kind.
AddRule(k) == rules' = rules \cup {k} /\ UNCHANGED <<active, lastScore, streak, log, seen>>
DeleteRule(k) ==
    k \in rules /\ rules' = rules \ {k} /\ UNCHANGED <<active, lastScore, streak, log, seen>>

Emit(type) == log' = Append(log, [type |-> type, at |-> Len(seen) + 1])

\* Mutant: a score above the threshold does not break the streak.
Above_KeepStreak(s) ==
    /\ active' = TRUE /\ UNCHANGED streak
    /\ CASE ~active -> Emit("opened")
         [] active /\ s > lastScore + EscalationDelta -> Emit("escalated")
         [] OTHER -> UNCHANGED log

\* process, the score at or above the threshold.
Above(s) ==
    /\ active' = TRUE /\ streak' = 0
    /\ CASE ~active -> Emit("opened")
         [] active /\ s > lastScore + EscalationDelta -> Emit("escalated")
         [] OTHER -> UNCHANGED log

\* process, the score below it.
Below ==
    CASE ~active -> active' = FALSE /\ streak' = 0 /\ UNCHANGED log
      [] active /\ streak + 1 >= ResolutionConsecutive ->
           active' = FALSE /\ streak' = 0 /\ Emit("resolved")
      [] OTHER -> active' = TRUE /\ streak' = streak + 1 /\ UNCHANGED log

\* process(wallet, score): a suppressed wallet's score leaves no trace.
Process(s) ==
    /\ Len(seen) < AlertMaxScores /\ rules = {}
    /\ IF s >= Threshold THEN Above(s) ELSE Below
    /\ lastScore' = s /\ seen' = Append(seen, s) /\ UNCHANGED rules

AlertNext == \/ \E s \in AlertScores : Process(s)
             \/ \E k \in {"until", "forever"} : AddRule(k) \/ DeleteRule(k)

AlertSpec == AlertInit /\ [][AlertNext]_alertVars
-----------------------------------------------------------------------------
\* The alert after n scores, by what the module's header says and no state:
\* some score was above and no three in a row since were below.
AlertAfter(n) ==
    \E i \in 1 .. n : /\ seen[i] >= Threshold
                      /\ ~\E j \in i + 1 .. n - 2 : \A k \in j .. j + 2 : seen[k] < Threshold

EventsAt(n) == {log[i].type : i \in {j \in DOMAIN log : log[j].at = n}}

(* The row-by-row state machine tells the whole story: the alert is open   *)
(* exactly when the history of unsuppressed scores says so, and each cycle *)
(* logged just the transition that history calls for.                      *)
AlertFollowsScores ==
    /\ active = AlertAfter(Len(seen))
    /\ \A n \in DOMAIN seen :
         EventsAt(n) = IF ~AlertAfter(n - 1) /\ AlertAfter(n) THEN {"opened"}
                       ELSE IF AlertAfter(n - 1) /\ ~AlertAfter(n) THEN {"resolved"}
                       ELSE IF /\ AlertAfter(n - 1) /\ seen[n] >= Threshold
                               /\ seen[n] > seen[n - 1] + EscalationDelta
                            THEN {"escalated"} ELSE {}

-----------------------------------------------------------------------------
(***************************************************************************)
(* api/webhook_sender.py: the retries of a webhook are asyncio tasks that  *)
(* live in memory until the payload is delivered or, after the last delay, *)
(* dead-lettered in SQLite.  An operator's retry reads an entry, posts and *)
(* deletes; two of them may hold the same entry.  A post may reach the     *)
(* subscriber and still fail for the sender.                               *)
(***************************************************************************)

CONSTANTS
    Payloads, Operators,
    MaxAttempts,    \* Len(RETRY_DELAYS)
    MaxRetries,     \* operators' retries
    MaxCrashes

VARIABLES
    task,       \* per payload [pc, attempt]: "none", "sleeping", "exhausted", "sent" or "lost"
    dlq,        \* webhook_dlq: set of [payload, attempts]
    op,         \* per operator the entry it retries, or {}
    sentFor,    \* operators whose post succeeded and who have not deleted yet
    posts,      \* per payload how often the subscriber got it
    acked,      \* payloads of which the sender has seen a success
    retries, crashes

retryVars == <<task, dlq, op, sentFor, posts, acked, retries, crashes>>

RetryTypeOK ==
    /\ \A p \in Payloads : task[p].attempt \in 0 .. MaxAttempts
    /\ dlq \subseteq [payload : Payloads, attempts : 0 .. MaxAttempts] /\ sentFor \subseteq Operators

RetryInit ==
         /\ task = [p \in Payloads |-> [pc |-> "none", attempt |-> 0]]
         /\ dlq = {} /\ op = [o \in Operators |-> {}] /\ sentFor = {}
         /\ posts = [p \in Payloads |-> 0] /\ acked = {} /\ retries = 0 /\ crashes = 0

-----------------------------------------------------------------------------
Schedule(p) ==
    /\ task[p].pc = "none" /\ task' = [task EXCEPT ![p].pc = "sleeping"]
    /\ UNCHANGED <<dlq, op, sentFor, posts, acked, retries, crashes>>

\* _attempt_delivery: received and answered 2xx, received and not, or neither.
Post(p, ok) ==
    /\ posts' = [posts EXCEPT ![p] = @ + 1] \/ (~ok /\ posts' = posts)
    /\ acked' = IF ok THEN acked \cup {p} ELSE acked

AfterAttempt(p, n, ok) == IF ok THEN "sent" ELSE IF n >= MaxAttempts THEN "exhausted" ELSE "sleeping"

\* One turn of the loop of _run_with_retries.
Attempt(p, ok) ==
    LET n == task[p].attempt + 1
    IN  /\ task[p].pc = "sleeping" /\ Post(p, ok)
        /\ task' = [task EXCEPT ![p] = [pc |-> AfterAttempt(p, n, ok), attempt |-> n]]
        /\ UNCHANGED <<dlq, op, sentFor, retries, crashes>>

\* _write_dlq
WriteDlq(p) ==
    /\ task[p].pc = "exhausted"
    /\ dlq' = dlq \cup {[payload |-> p, attempts |-> task[p].attempt]}
    /\ task' = [task EXCEPT ![p].pc = "dead"]
    /\ UNCHANGED <<op, sentFor, posts, acked, retries, crashes>>

\* retry_dlq_entry: the read, the post, the delete.
RetryRead(o, e) ==
    /\ op[o] = {} /\ e \in dlq /\ retries < MaxRetries /\ retries' = retries + 1
    /\ op' = [op EXCEPT ![o] = {e}]
    /\ UNCHANGED <<task, dlq, sentFor, posts, acked, crashes>>

RetryPost(o, ok) ==
    \E e \in op[o] :
        /\ o \notin sentFor /\ Post(e.payload, ok)
        /\ sentFor' = IF ok THEN sentFor \cup {o} ELSE sentFor
        /\ op' = IF ok THEN op ELSE [op EXCEPT ![o] = {}]
        /\ UNCHANGED <<task, dlq, retries, crashes>>

RetryDelete(o) ==
    /\ o \in sentFor
    /\ dlq' = dlq \ op[o]
    /\ op' = [op EXCEPT ![o] = {}] /\ sentFor' = sentFor \ {o}
    /\ UNCHANGED <<task, posts, acked, retries, crashes>>

\* The process ends: tasks and operators' requests with it.
RetryCrash ==
    /\ crashes < MaxCrashes /\ crashes' = crashes + 1
    /\ task' = [p \in Payloads |-> IF task[p].pc \in {"sleeping", "exhausted"}
                                   THEN [task[p] EXCEPT !.pc = "lost"] ELSE task[p]]
    /\ op' = [o \in Operators |-> {}] /\ sentFor' = {}
    /\ UNCHANGED <<dlq, posts, acked, retries>>

RetryNext ==
         \/ \E p \in Payloads : Schedule(p) \/ WriteDlq(p) \/ \E ok \in BOOLEAN : Attempt(p, ok)
         \/ \E o \in Operators : \/ \E e \in dlq : RetryRead(o, e)
                                 \/ \E ok \in BOOLEAN : RetryPost(o, ok)
                                 \/ RetryDelete(o)
         \/ RetryCrash
RetrySpec == RetryInit /\ [][RetryNext]_retryVars

-----------------------------------------------------------------------------
(***************************************************************************)
(* A payload that was scheduled is on its way, in the dead letters, seen   *)
(* delivered by the sender, or was in memory when the process ended: no    *)
(* interleaving of two retries of one entry, and no crash between its post *)
(* and its delete, loses it.  It is dead-lettered only after every attempt *)
(* of the schedule, and the subscriber gets it at most once per attempt    *)
(* and per retry.                                                          *)
(***************************************************************************)
PayloadsAreAccounted ==
    \A p \in Payloads :
        /\ task[p].pc \in {"dead", "sent"} => (p \in acked \/ \E e \in dlq : e.payload = p)
        /\ task[p].pc \in {"sleeping", "exhausted"} => p \notin acked
        /\ \A e \in dlq : e.payload = p => e.attempts = MaxAttempts
        /\ posts[p] <= task[p].attempt + retries

-----------------------------------------------------------------------------
(* The analysts' case queue (detection/analyst_store.py, api/analyst.py): a  *)
(* case is one asset pair of a wallet; analysts claim cases under a lock     *)
(* that expires, give verdicts on the cases they hold, and see a queue that  *)
(* joins the scores with the open claims.                                    *)

CONSTANTS
    Cases, Analysts,
    Requests,       \* requests in progress at the same time
    CaseScores,         \* risk scores, 0 for a pair not scored yet
    LockTimeout,    \* analyst_lock_timeout_seconds
    Cap,            \* analyst_claim_max_active_per_analyst
    Day,
    MaxClaims, MaxVerdicts, CaseMaxTime

VARIABLES
    score,      \* newest risk_scores row per case
    claims,     \* case_assignments, in the order of their ids
    verdicts,   \* analyst_feedback, in the order of their ids
    caseRequest,    \* per request: [pc, analyst, case, at, claim]
    caseNow

caseVars == <<score, claims, verdicts, caseRequest, caseNow>>

CaseIdle == [pc |-> "idle"]
Open(k) == claims[k].status = "assigned"
Unexpired(k, at) == Open(k) /\ claims[k].expires > at
On(c) == {k \in DOMAIN claims : claims[k].case = c}
Held(a, c, at) == {k \in On(c) : claims[k].analyst = a /\ Unexpired(k, at)}
Today == caseNow - (caseNow % Day)

CaseTypeOK ==
    /\ score \in [Cases -> CaseScores] /\ caseNow \in 0 .. CaseMaxTime
    /\ \A k \in DOMAIN claims :
        claims[k] \in [case : Cases, analyst : Analysts, expires : 0 .. CaseMaxTime + LockTimeout,
                       status : {"assigned", "released", "resolved"}]
    /\ \A q \in Requests : caseRequest[q].pc \in {"idle", "claim", "verdict", "resolve"}

CaseInit ==
        /\ score = [c \in Cases |-> 0] /\ claims = <<>> /\ verdicts = <<>>
        /\ caseRequest = [q \in Requests |-> CaseIdle] /\ caseNow = 0

----------------------------------------------------------------------------
\* claim_analyst_wallet: the case is given, or the wallet's highest-scored one;
\* claim_wallet takes the time before it waits for the write lock.
BeginClaim(q, a, c) ==
    /\ caseRequest[q].pc = "idle" /\ score[c] > 0 /\ Len(claims) < MaxClaims
    /\ caseRequest' = [caseRequest EXCEPT ![q] = [pc |-> "claim", analyst |-> a, case |-> c, at |-> caseNow]]
    /\ UNCHANGED <<score, claims, verdicts, caseNow>>

Active(a, at) == {k \in DOMAIN claims : claims[k].analyst = a /\ Unexpired(k, at)}

\* The expired rows of the case are released before a new one is added.
Reclaimed(c, at) ==
    [k \in DOMAIN claims |->
        IF k \in On(c) /\ Open(k) /\ claims[k].expires <= at
        THEN [claims[k] EXCEPT !.status = "released"] ELSE claims[k]]

\* claim_wallet, one BEGIN IMMEDIATE transaction: the cap (429) comes before
\* the look at the case (409, or a renewal).
Claim(q) ==
    LET r == caseRequest[q]
        holders == {k \in On(r.case) : Unexpired(k, r.at)}
    IN  /\ r.pc = "claim" /\ caseRequest' = [caseRequest EXCEPT ![q] = CaseIdle]
        /\ CASE Cardinality(Active(r.analyst, r.at)) >= Cap -> UNCHANGED claims
             [] Cardinality(Active(r.analyst, r.at)) < Cap /\ holders # {} ->
                    claims' = [k \in DOMAIN claims |->
                                IF k \in Held(r.analyst, r.case, r.at)
                                THEN [claims[k] EXCEPT !.expires = r.at + LockTimeout] ELSE claims[k]]
             [] OTHER ->
                    /\ Len(claims) < MaxClaims
                    /\ claims' = Append(Reclaimed(r.case, r.at),
                                        [case |-> r.case, analyst |-> r.analyst,
                                         expires |-> r.at + LockTimeout, status |-> "assigned"])
        /\ UNCHANGED <<score, verdicts, caseNow>>

Marked(ks, status) ==
    [k \in DOMAIN claims |-> IF k \in ks THEN [claims[k] EXCEPT !.status = status] ELSE claims[k]]

\* release_wallet
Release(a, c) ==
    /\ Held(a, c, caseNow) # {} /\ claims' = Marked(Held(a, c, caseNow), "released")
    /\ UNCHANGED <<score, verdicts, caseRequest, caseNow>>

\* expire_stale_locks, run periodically by the CLI.
ExpireStaleLocks ==
    LET stale == {k \in DOMAIN claims : Open(k) /\ claims[k].expires <= caseNow}
    IN  /\ stale # {} /\ claims' = Marked(stale, "released")
        /\ UNCHANGED <<score, verdicts, caseRequest, caseNow>>

----------------------------------------------------------------------------
\* submit_feedback takes the pair with the highest score of the moment;
\* submit_analyst_feedback looks at its claim, in a transaction of its own.
BeginVerdict(q, a, c) ==
    /\ caseRequest[q].pc = "idle" /\ Len(verdicts) < MaxVerdicts
    /\ score[c] > 0 /\ \A d \in Cases : score[d] <= score[c]
    /\ \E k \in Held(a, c, caseNow) :
        caseRequest' = [caseRequest EXCEPT ![q] = [pc |-> "verdict", analyst |-> a, case |-> c, claim |-> k]]
    /\ UNCHANGED <<score, claims, verdicts, caseNow>>

SaveVerdict(q) ==
    LET r == caseRequest[q]
    IN  /\ r.pc = "verdict" /\ Len(verdicts) < MaxVerdicts
        /\ verdicts' = Append(verdicts, [case |-> r.case, analyst |-> r.analyst, claim |-> r.claim, at |-> caseNow])
        /\ caseRequest' = [caseRequest EXCEPT ![q].pc = "resolve"]
        /\ UNCHANGED <<score, claims, caseNow>>

\* resolve_claim, a third transaction with a clock of its own.
Resolve(q) ==
    LET r == caseRequest[q]
    IN  /\ r.pc = "resolve" /\ caseRequest' = [caseRequest EXCEPT ![q] = CaseIdle]
        /\ claims' = Marked(Held(r.analyst, r.case, caseNow), "resolved")
        /\ UNCHANGED <<score, verdicts, caseNow>>

Rescore(c, s) ==
    /\ score[c] # s /\ s > 0 /\ score' = [score EXCEPT ![c] = s]
    /\ UNCHANGED <<claims, verdicts, caseRequest, caseNow>>

CaseTick == caseNow < CaseMaxTime /\ caseNow' = caseNow + 1 /\ UNCHANGED <<score, claims, verdicts, caseRequest>>

CaseNext ==
        \/ \E q \in Requests :
            \/ \E a \in Analysts, c \in Cases : BeginClaim(q, a, c) \/ BeginVerdict(q, a, c)
            \/ Claim(q) \/ SaveVerdict(q) \/ Resolve(q)
        \/ \E a \in Analysts, c \in Cases : Release(a, c)
        \/ \E c \in Cases, s \in CaseScores : Rescore(c, s)
        \/ ExpireStaleLocks \/ CaseTick

CaseSpec == CaseInit /\ [][CaseNext]_caseVars

----------------------------------------------------------------------------
\* get_analyst_queue: scored cases without a verdict of today, joined with
\* their open claims; 0 stands for no claim.
Queued == {c \in Cases : score[c] > 0 /\ \A v \in DOMAIN verdicts :
                            verdicts[v].case = c => verdicts[v].at < Today}
Queue ==
    UNION {LET open == {k \in On(c) : Unexpired(k, caseNow)}
           IN  {<<c, k>> : k \in IF open = {} THEN {0} ELSE open} : c \in Queued}
\* get_case_stats
UnassignedCount == Cardinality({c \in Queued : \A k \in On(c) : ~Unexpired(k, caseNow)})
AssignedCount == Cardinality({k \in DOMAIN claims : Unexpired(k, caseNow)})

OneHolder == \A c \in Cases : Cardinality({k \in On(c) : Open(k)}) <= 1
CapHolds == \A a \in Analysts : Cardinality(Active(a, caseNow)) <= Cap
QueueListsOnce == Cardinality(Queue) = Cardinality(Queued)
StatsPartition == UnassignedCount + Cardinality({c \in Queued : <<c, 0>> \notin Queue}) = Cardinality(Queued)
                  /\ AssignedCount <= Cardinality(Cases)
VerdictsCloseClaims ==
    \A v \in DOMAIN verdicts :
        LET f == verdicts[v]
        IN  /\ claims[f.claim].analyst = f.analyst /\ claims[f.claim].case = f.case
            /\ Unexpired(f.claim, caseNow) =>
                    \E q \in Requests : caseRequest[q].pc = "resolve" /\ caseRequest[q].claim = f.claim

\* With two analysts claiming, renewing, releasing and judging at once, and a
\* clock read before the write lock is taken, a case has one open row at most,
\* no analyst holds more than the cap, the queue and its statistics count each
\* case once, and no claim stays active behind a verdict whose request ended
\* (claim_wallet, resolve_claim, get_analyst_queue, get_case_stats).
CasesAreHeldOnce ==
    OneHolder /\ CapHolds /\ QueueListsOnce /\ StatsPartition /\ VerdictsCloseClaims

-----------------------------------------------------------------------------
(* The compliance endpoints of api/main.py, compliance_exporter.py and       *)
(* sar_narrative.py: an analyst reviews a draft, the package is built only   *)
(* when the draft of the data it packs is still the reviewed one, exports    *)
(* are logged and limited per hour. A draft stands for the text generated    *)
(* from the peak score and the alerts of the reported period.                *)

CONSTANTS SarWorkers,
          SarScores,      \* scores the pipeline may store
          MinScore,    \* compliance_sar_min_score
          RateLimit,   \* compliance_export_rate_limit_per_hour
          SarHour,
          EndDate,     \* the end of the reported period
          SarMaxTime, SarMaxScores, MaxAlerts, MaxExports

VARIABLES
    sarNow,
    scores,     \* risk_scores of the wallet: [t, s]
    alerts,     \* timestamps' count of alerts: [t, k]
    reviewed,   \* drafts a compliance analyst has read
    sarRequest,    \* per worker: [pc, asked, peak, risk, dry]
    exports,    \* compliance_exports: [t, kind, nr]
    packages    \* the zip files handed out: [reviewed, evidence, risk]

sarVars == <<sarNow, scores, alerts, reviewed, sarRequest, exports, packages>>

None == [peak |-> -1, alerts |-> -1]
SarIdle == [pc |-> "idle", asked |-> None, peak |-> 0, risk |-> 0, dry |-> FALSE]

SarTypeOK ==
    /\ sarNow \in 0 .. SarMaxTime
    /\ \A w \in SarWorkers : sarRequest[w].pc \in {"idle", "draft", "match", "limit", "score",
                                                   "context", "package", "log"}
    /\ \A e \in exports : e.kind \in {"sar", "travel_rule"} /\ e.t \in 0 .. SarMaxTime

SarInit ==
       /\ sarNow = 0 /\ scores = {} /\ alerts = {} /\ reviewed = {}
       /\ sarRequest = [w \in SarWorkers |-> SarIdle] /\ exports = {} /\ packages = {}

----------------------------------------------------------------------------
\* _sar_context: the scores and the alerts of the period, in two queries.
PeakInPeriod == Max({0} \cup {r.s : r \in {x \in scores : x.t <= EndDate}})
AlertsInPeriod == Cardinality({a \in alerts : a.t <= EndDate})

\* build_ivms_risk_field: the highest of the latest scores, of any date.
RiskField ==
    LET latest == {r \in scores : \A x \in scores : x.t <= r.t}
    IN  Max({0} \cup {r.s : r \in latest})

SaveScore(s) ==
    /\ Cardinality(scores) < SarMaxScores
    /\ \A r \in scores : r.t < sarNow
    /\ scores' = scores \cup {[t |-> sarNow, s |-> s]}
    /\ UNCHANGED <<sarNow, alerts, reviewed, sarRequest, exports, packages>>

RaiseAlert ==
    /\ Cardinality(alerts) < MaxAlerts
    /\ alerts' = alerts \cup {[t |-> sarNow, k |-> Cardinality(alerts)]}
    /\ UNCHANGED <<sarNow, scores, reviewed, sarRequest, exports, packages>>

SarTick ==
       /\ sarNow < SarMaxTime /\ sarNow' = sarNow + 1
       /\ UNCHANGED <<scores, alerts, reviewed, sarRequest, exports, packages>>

\* compliance_sar_narrative_draft, and the analyst who reads its answer.
ReviewDraft ==
    /\ reviewed' = reviewed \cup {[peak |-> PeakInPeriod, alerts |-> AlertsInPeriod]}
    /\ UNCHANGED <<sarNow, scores, alerts, sarRequest, exports, packages>>

----------------------------------------------------------------------------
To(w, pc) == sarRequest' = [sarRequest EXCEPT ![w].pc = pc]
Refuse(w) == sarRequest' = [sarRequest EXCEPT ![w] = SarIdle]

\* compliance_sar_package: a request names the hash of a reviewed draft.
SarPackage(w, d, dry) ==
    /\ sarRequest[w].pc = "idle"
    /\ sarRequest' = [sarRequest EXCEPT ![w] = [SarIdle EXCEPT !.pc = "draft", !.asked = d, !.dry = dry]]
    /\ UNCHANGED <<sarNow, scores, alerts, reviewed, exports, packages>>

\* The draft of _sar_review_from_request and the context of the package are
\* read alike.
ReadScores(w) ==
    /\ sarRequest[w].pc \in {"draft", "context"}
    /\ sarRequest' = [sarRequest EXCEPT ![w].peak = PeakInPeriod,
                          ![w].pc = IF sarRequest[w].pc = "draft" THEN "match" ELSE "package"]
    /\ UNCHANGED <<sarNow, scores, alerts, reviewed, exports, packages>>

DraftRead(w) == [peak |-> sarRequest[w].peak, alerts |-> AlertsInPeriod]

\* 409 when the draft changed since the review.
MatchDraft(w) ==
    /\ sarRequest[w].pc = "match"
    /\ IF DraftRead(w) = sarRequest[w].asked THEN To(w, "limit") ELSE Refuse(w)
    /\ UNCHANGED <<sarNow, scores, alerts, reviewed, exports, packages>>

Recent == {e \in exports : e.t >= sarNow - SarHour}

CheckLimit(w) ==
    /\ sarRequest[w].pc = "limit"
    /\ IF Cardinality(Recent) >= RateLimit THEN Refuse(w) ELSE To(w, "score")
    /\ UNCHANGED <<sarNow, scores, alerts, reviewed, exports, packages>>

CheckScore(w) ==
    /\ sarRequest[w].pc = "score"
    /\ IF RiskField < MinScore THEN Refuse(w)
       ELSE sarRequest' = [sarRequest EXCEPT ![w].pc = "context", ![w].risk = RiskField]
    /\ UNCHANGED <<sarNow, scores, alerts, reviewed, exports, packages>>

\* require_approved_narrative: the review is of the draft just generated.
Approved(w) == DraftRead(w) = sarRequest[w].asked

GeneratePackage(w) ==
    /\ sarRequest[w].pc = "package"
    /\ IF Approved(w)
       THEN /\ packages' = packages \cup
                   {[reviewed |-> sarRequest[w].asked, evidence |-> DraftRead(w),
                     risk |-> sarRequest[w].risk]}
            /\ IF sarRequest[w].dry THEN Refuse(w) ELSE To(w, "log")
       ELSE Refuse(w) /\ UNCHANGED packages
    /\ UNCHANGED <<sarNow, scores, alerts, reviewed, exports>>

LogExport(w) ==
    /\ sarRequest[w].pc = "log"
    /\ exports' = exports \cup {[t |-> sarNow, kind |-> "sar", nr |-> Cardinality(exports)]}
    /\ Refuse(w)
    /\ UNCHANGED <<sarNow, scores, alerts, reviewed, packages>>

\* export_travel_rule is logged and not limited.
TravelRule ==
    /\ Cardinality(exports) < MaxExports
    /\ exports' = exports \cup {[t |-> sarNow, kind |-> "travel_rule", nr |-> Cardinality(exports)]}
    /\ UNCHANGED <<sarNow, scores, alerts, reviewed, sarRequest, packages>>

SarNext ==
       \/ \E s \in SarScores : SaveScore(s)
       \/ RaiseAlert \/ SarTick \/ ReviewDraft \/ TravelRule
       \/ \E w \in SarWorkers :
           \/ \E d \in reviewed, dry \in BOOLEAN : Cardinality(exports) < MaxExports /\ SarPackage(w, d, dry)
           \/ ReadScores(w) \/ MatchDraft(w) \/ CheckLimit(w) \/ CheckScore(w)
           \/ GeneratePackage(w) \/ LogExport(w)

SarSpec == SarInit /\ [][SarNext]_sarVars

----------------------------------------------------------------------------
NarrativeFitsEvidence ==
    \A p \in packages :
        p.reviewed \in reviewed /\ p.evidence = p.reviewed /\ p.risk >= MinScore

OvershootIsBounded ==
    \A t \in 0 .. sarNow :
        Cardinality({e \in exports : e.kind = "sar" /\ e.t <= t /\ e.t >= t - SarHour})
            < RateLimit + Cardinality(SarWorkers)

\* A SAR package holds the evidence its reviewed narrative was written from,
\* whatever the pipeline stores between the review, the request's check and
\* the packing (generate_sar_package, compliance_exporter.py), and the
\* exports of an hour exceed the limit only by the requests that checked it
\* together (export_sar_package counts before it packs and logs after).
PackagesAreReviewed == NarrativeFitsEvidence /\ OvershootIsBounded

-----------------------------------------------------------------------------
(* POST /feedback/ground-truth (api/main.py), scoring_feedback               *)
(* (feedback_store.py) and the bandit's background loop                      *)
(* (adaptive_reweighter.py): a handler stamps a label once and inserts one   *)
(* row per model; the loop reads the rows stamped since its watermark,       *)
(* rewards the models, moves the watermark to its own clock and saves.       *)
(* Every reading of the clock is distinct: time stamps have microseconds.    *)

CONSTANTS NumModels,   \* the classifiers of _CLASSIFIER_NAMES, in order
          LabelWorkers,     \* the API's handler threads
          LabelHour,        \* the look-back of a process that starts
          MinSeries,   \* cusum_detect wants this many errors
          MaxLabels, MaxRestarts, MaxFaults, MaxClock

VARIABLES
    clock,      \* the last instant somebody read
    rows,       \* scoring_feedback: [label, model, stamp]
    handler,    \* per worker: [label, stamp, at], at the next model's index
    labels,     \* labels submitted so far
    loop,       \* "down", "sleep", "apply", "save"
    since,      \* the loop's watermark
    batch,      \* the rows of the cycle under way
    mem, saved, \* alpha + beta - 2 per model, in memory and in bandit_state
    floor,      \* the watermark this process started with
    applied,    \* the rows this process has rewarded
    times,      \* how often a row was rewarded by any process
    late,       \* rows inserted behind the read of a cycle that passed them
    restarts, faults

labelVars == <<clock, rows, handler, labels, loop, since, batch, mem, saved, floor,
               applied, times, late, restarts, faults>>

LabelIdle == [label |-> 0, stamp |-> 0, at |-> 0]
Priors == [m \in 1 .. NumModels |-> 0]
Times(r) == IF r \in DOMAIN times THEN times[r] ELSE 0

LabelTypeOK ==
    /\ clock \in 0 .. MaxClock /\ labels \in 0 .. MaxLabels
    /\ loop \in {"down", "sleep", "apply", "save"} /\ since \in Int
    /\ \A w \in LabelWorkers : handler[w].at \in 0 .. NumModels
    /\ \A r \in rows : r.model \in 1 .. NumModels
    /\ batch \subseteq rows /\ applied \subseteq rows /\ late \subseteq rows

LabelInit ==
         /\ clock = 0 /\ rows = {} /\ handler = [w \in LabelWorkers |-> LabelIdle] /\ labels = 0
         /\ loop = "down" /\ since = 0 /\ batch = {} /\ mem = Priors /\ saved = Priors
         /\ floor = 0 /\ applied = {} /\ times = [r \in {} |-> 0] /\ late = {}
         /\ restarts = 0 /\ faults = 0

----------------------------------------------------------------------------
\* submit_feedback: the score is found, confirmed_at is read once.
SubmitFeedback(w) ==
    /\ handler[w] = LabelIdle /\ labels < MaxLabels /\ clock < MaxClock
    /\ labels' = labels + 1 /\ clock' = clock + 1
    /\ handler' = [handler EXCEPT ![w] = [label |-> labels + 1, stamp |-> clock + 1, at |-> 1]]
    /\ UNCHANGED <<rows, loop, since, batch, mem, saved, floor, applied, times, late,
                   restarts, faults>>

\* record_feedback: one connection and one commit per model.
RecordFeedback(w) ==
    LET h == handler[w]
        r == [label |-> h.label, model |-> h.at, stamp |-> h.stamp]
    IN  /\ h.at > 0
        /\ rows' = rows \cup {r}
        /\ late' = IF h.stamp < since \/ loop = "apply" THEN late \cup {r} ELSE late
        /\ handler' = [handler EXCEPT ![w] = IF h.at = NumModels THEN LabelIdle
                                             ELSE [h EXCEPT !.at = h.at + 1]]
        /\ UNCHANGED <<clock, labels, loop, since, batch, mem, saved, floor, applied,
                       times, restarts, faults>>

\* The database refuses an insert: the request ends, its first rows stay.
RecordFails(w) ==
    /\ handler[w].at > 0 /\ faults < MaxFaults /\ faults' = faults + 1
    /\ handler' = [handler EXCEPT ![w] = LabelIdle]
    /\ UNCHANGED <<clock, rows, labels, loop, since, batch, mem, saved, floor, applied,
                   times, late, restarts>>

----------------------------------------------------------------------------
\* start_background_loop: the saved state, and the last hour once more.
StartBackgroundLoop ==
    /\ loop = "down" /\ clock < MaxClock
    /\ loop' = "sleep" /\ clock' = clock + 1
    /\ since' = clock + 1 - LabelHour /\ floor' = clock + 1 - LabelHour
    /\ mem' = saved /\ applied' = {} /\ late' = {} /\ batch' = {}
    /\ UNCHANGED <<rows, handler, labels, saved, times, restarts, faults>>

Confirmed(from) == {r \in rows : r.stamp >= from}

\* _run_update_cycle reads; with no rows the watermark stays, and the state
\* is saved all the same.
ReadCycle ==
    /\ loop = "sleep"
    /\ batch' = Confirmed(since)
    /\ loop' = IF batch' = {} THEN "save" ELSE "apply"
    /\ UNCHANGED <<clock, rows, handler, labels, since, mem, saved, floor, applied,
                   times, late, restarts, faults>>

\* The query fails: the exception is swallowed until the next interval.
ReadFails ==
    /\ loop = "sleep" /\ faults < MaxFaults /\ faults' = faults + 1
    /\ UNCHANGED <<clock, rows, handler, labels, loop, since, batch, mem, saved, floor,
                   applied, times, late, restarts>>

Rewarded(m, B) == Cardinality({r \in B : r.model = m})

\* _run_update_cycle returns the time at its end.
NextSince(now) == now

\* The rewards, a reset when CUSUM finds a drift, and the new watermark.
ApplyCycle ==
    /\ loop = "apply" /\ clock < MaxClock
    /\ \E drift \in BOOLEAN :
        /\ drift => Cardinality(batch) >= MinSeries
        /\ mem' = IF drift THEN Priors
                  ELSE [m \in 1 .. NumModels |-> mem[m] + Rewarded(m, batch)]
    /\ clock' = clock + 1 /\ since' = NextSince(clock + 1) /\ loop' = "save"
    /\ applied' = applied \cup batch
    /\ times' = [r \in DOMAIN times \cup batch |-> Times(r) + (IF r \in batch THEN 1 ELSE 0)]
    /\ UNCHANGED <<rows, handler, labels, batch, saved, floor, late, restarts, faults>>

SaveState ==
    /\ loop = "save" /\ loop' = "sleep" /\ batch' = {}
    /\ \/ saved' = mem /\ UNCHANGED faults
       \/ faults < MaxFaults /\ faults' = faults + 1 /\ UNCHANGED saved
    /\ UNCHANGED <<clock, rows, handler, labels, since, mem, floor, applied, times, late,
                   restarts>>

LabelRestart ==
    /\ loop # "down" /\ restarts < MaxRestarts /\ restarts' = restarts + 1
    /\ loop' = "down" /\ batch' = {} /\ handler' = [w \in LabelWorkers |-> LabelIdle]
    /\ UNCHANGED <<clock, rows, labels, since, mem, saved, floor, applied, times, late,
                   faults>>

LabelNext ==
         \/ \E w \in LabelWorkers : SubmitFeedback(w) \/ RecordFeedback(w) \/ RecordFails(w)
         \/ StartBackgroundLoop \/ ReadCycle \/ ReadFails \/ ApplyCycle \/ SaveState \/ LabelRestart

LabelSpec == LabelInit /\ [][LabelNext]_labelVars

----------------------------------------------------------------------------
RewardedOncePerProcess == \A r \in rows : Times(r) <= 1 + restarts

\* A row behind the watermark that this process did not reward came late, or
\* is older than the hour it looked back.
LossHasItsRace ==
    loop # "down" =>
        \A r \in rows : r.stamp >= floor /\ r.stamp < since => r \in applied \cup late

\* A row is no longer read once it was rewarded.
NoRewardIsRepeated == loop = "sleep" => applied \cap Confirmed(since) = {}

\* Within one process a confirmed label is rewarded once, although the
\* watermark is a clock and the rows carry the time of their handler
\* (_run_update_cycle, adaptive_reweighter.py), and it is passed over only
\* when its insert came after the read of a cycle that moved the watermark
\* beyond it.
RewardsAreAccounted == RewardedOncePerProcess /\ LossHasItsRace /\ NoRewardIsRepeated

-----------------------------------------------------------------------------
(***************************************************************************)
(* detection/wallet_override_store.py, the manual lists, and the feature   *)
(* vectors of detection/storage.py with their SHAP values.  An entry is    *)
(* added by a query and an insert of their own; SHAP values are computed   *)
(* from one vector and written to the newest.                              *)
(***************************************************************************)

CONSTANTS Wallets, Admins, MaxEntries, MaxVectors

VARIABLES
    lists,      \* wallet_overrides that were not removed: sequence of [wallet, list]
    adm,        \* per admin the [wallet, list] add_override found free, or {}
    told,       \* per <<wallet, list>> what the admins were last told: TRUE for added
    vectors     \* feature_vectors: sequence of [wallet, shap]; shap is 0 or the vector it explains

listedVars == <<lists, adm, told, vectors>>

Lists == {"allow", "deny"}

ListedTypeOK ==
    /\ lists \in Seq([wallet : Wallets, list : Lists]) /\ Len(lists) <= MaxEntries
    /\ told \in [Wallets \X Lists -> BOOLEAN] /\ Len(vectors) <= MaxVectors

ListedInit ==
          /\ lists = <<>> /\ adm = [a \in Admins |-> {}] /\ told = [e \in Wallets \X Lists |-> FALSE]
          /\ vectors = <<>>

-----------------------------------------------------------------------------
\* save_feature_vectors, save_shap_values and get_shap_values: the newest row.
SaveVector(w) ==
    /\ Len(vectors) < MaxVectors /\ vectors' = Append(vectors, [wallet |-> w, shap |-> 0])
    /\ UNCHANGED <<lists, adm, told>>

Newest(w) == Max({0} \cup {i \in DOMAIN vectors : vectors[i].wallet = w})

\* The values explain the vector v, which need not be the newest any more.
SaveShap(w, v) ==
    /\ v \in DOMAIN vectors /\ vectors[v].wallet = w
    /\ vectors' = [vectors EXCEPT ![Newest(w)].shap = v]
    /\ UNCHANGED <<lists, adm, told>>

\* add_override: the test and, without a lock, the insert.
AddCheck(a, w, l) ==
    /\ adm[a] = {} /\ ~\E i \in DOMAIN lists : lists[i].wallet = w /\ lists[i].list = l
    /\ adm' = [adm EXCEPT ![a] = {[wallet |-> w, list |-> l]}]
    /\ UNCHANGED <<lists, told, vectors>>

AddInsert(a) ==
    /\ adm[a] # {} /\ Len(lists) < MaxEntries
    /\ \E e \in adm[a] : lists' = Append(lists, e) /\ told' = [told EXCEPT ![<<e.wallet, e.list>>] = TRUE]
    /\ adm' = [adm EXCEPT ![a] = {}]
    /\ UNCHANGED vectors

Found(w, l) == {i \in DOMAIN lists : lists[i] = [wallet |-> w, list |-> l]}

\* remove_override marks the first entry it finds.
RemoveOverride(w, l) ==
    /\ Found(w, l) # {} /\ lists' = RemoveAt(lists, Min(Found(w, l)))
    /\ told' = [told EXCEPT ![<<w, l>>] = FALSE]
    /\ UNCHANGED <<adm, vectors>>

\* get_active_override and what wallet_scores answers for it.
Override(w) ==
    LET mine == {i \in DOMAIN lists : lists[i].wallet = w}
    IN  IF mine = {} THEN -1 ELSE IF lists[Min(mine)].list = "allow" THEN 0 ELSE 100

ListedNext ==
          \/ \E w \in Wallets : \/ SaveVector(w) \/ \E v \in DOMAIN vectors : SaveShap(w, v)
                                \/ \E l \in Lists : RemoveOverride(w, l) \/ \E a \in Admins : AddCheck(a, w, l)
          \/ \E a \in Admins : AddInsert(a)
ListedSpec == ListedInit /\ [][ListedNext]_listedVars

-----------------------------------------------------------------------------
(***************************************************************************)
(* An entry an admin was told is added overrides the wallet until that     *)
(* list's entry is removed, whatever is done to the other list: the score  *)
(* answered is 0 or 100 as the list says, of both lists the one that was   *)
(* added first.  Two adds that overlap may leave an entry twice, never     *)
(* more often than there are admins.  Shapley values are never those of a  *)
(* newer or of another wallet's vector.                                    *)
(***************************************************************************)
ListsFollowAdmins ==
    /\ \A w \in Wallets, l \in Lists :
        LET n == Cardinality({i \in DOMAIN lists : lists[i] = [wallet |-> w, list |-> l]})
        IN  (told[<<w, l>>] => n > 0) /\ n <= Cardinality(Admins)
    /\ \A w \in Wallets : LET on == {l \in Lists : told[<<w, l>>]} IN
        /\ on = {"allow"} => Override(w) # -1
        /\ Override(w) = 100 => \E i \in DOMAIN lists : lists[i] = [wallet |-> w, list |-> "deny"]
    /\ \A i \in DOMAIN vectors : vectors[i].shap # 0 =>
        vectors[i].shap <= i /\ vectors[vectors[i].shap].wallet = vectors[i].wallet

=============================================================================
