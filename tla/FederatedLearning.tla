-------------------------- MODULE FederatedLearning -------------------------
(*****************************************************************************)
(* Federated learning: rounds with a privacy budget, the sessions of the     *)
(* standalone server, robust aggregation and aggregation of secret shares.   *)
(*****************************************************************************)
EXTENDS Integers, Sequences, FiniteSets, FiniteSetsExt, SequencesExt

-----------------------------------------------------------------------------
(***************************************************************************)
(* detection/federated: clients train, sign and submit updates; the server *)
(* admits, registers, weighs and excludes them, aggregates when enough are *)
(* valid, and keeps the privacy budget and a signed audit row per round.   *)
(* All of submit_update runs under one lock, the aggregation included; the *)
(* getters take none, so new labels are out before the round is recorded.  *)
(*                                                                         *)
(* Labels and deltas are data: whether an update is an outlier, and whom   *)
(* Krum drops, is open.  Epsilon is counted in rounds, the accountant      *)
(* being a function of their number.                                       *)
(***************************************************************************)

CONSTANTS RoundParticipants,
          MinParticipants,  \* federated_min_participants
          Samples,          \* the n_samples a client may claim
          MaxSamples,       \* max_n_samples of an admission
          GrowthFactor,     \* federated_max_n_samples_growth_factor
          Budget,           \* rounds the maximal epsilon allows
          UseKrum,          \* federated_use_krum
          MaxFailures,      \* bound: aggregations that raise or die
          MaxRoundId        \* bound: round ids handed out

None == [round |-> 0, n |-> 0, ok |-> FALSE]

VARIABLES
    admission,  \* rows of federated_admitted_participants: "none", "admitted", "revoked"
    registered, \* _participants
    history,    \* n_samples_history_max
    update,     \* update[p]: the update p signed last; it may arrive again
    pending,    \* _pending_updates
    roundId,    \* _current_round_id
    rounds,     \* _round_number, and with it _cumulative_epsilon
    wedged,     \* _aggregation_in_progress, after the call that set it is gone
    roundStage,      \* of the thread that holds the lock: "free", "aggregate" or "save"
    auto,       \* that thread came from submit_update
    audit,      \* round ids of federated_audit_log
    released,   \* history: how often new global labels were set
    failures    \* history: aggregations that did not get to their record

clients == <<admission, registered, history, update>>
roundVars == <<clients, pending, roundId, rounds, wedged, roundStage, auto, audit, released, failures>>

RoundTypeOK ==
    /\ admission \in [RoundParticipants -> {"none", "admitted", "revoked"}]
    /\ registered \subseteq RoundParticipants /\ history \in [RoundParticipants -> {0} \cup Samples]
    /\ update \in [RoundParticipants -> [round : 0 .. MaxRoundId, n : {0} \cup Samples, ok : BOOLEAN]]
    /\ pending \in [RoundParticipants -> [round : 0 .. MaxRoundId, n : {0} \cup Samples, ok : BOOLEAN]]
    /\ roundId \in 1 .. MaxRoundId /\ rounds \in 0 .. Budget + MaxFailures
    /\ wedged \in BOOLEAN /\ auto \in BOOLEAN /\ roundStage \in {"free", "aggregate", "save"}
    /\ audit \subseteq 1 .. MaxRoundId /\ released \in Nat /\ failures \in 0 .. MaxFailures

RoundInit ==
         /\ admission = [p \in RoundParticipants |-> "none"] /\ registered = {}
         /\ history = [p \in RoundParticipants |-> 0] /\ update = [p \in RoundParticipants |-> None]
         /\ pending = update /\ roundId = 1 /\ rounds = 0 /\ wedged = FALSE /\ auto = FALSE
         /\ roundStage = "free" /\ audit = {} /\ released = 0 /\ failures = 0

-----------------------------------------------------------------------------
server == <<pending, roundId, rounds, wedged, roundStage, auto, audit, released, failures>>

\* admit_participant and revoke_admission; the latter leaves _participants alone.
Admit(p) ==
    /\ admission[p] # "admitted" /\ admission' = [admission EXCEPT ![p] = "admitted"]
    /\ UNCHANGED <<registered, history, update, server>>
RevokeAdmission(p) ==
    /\ admission[p] = "admitted" /\ admission' = [admission EXCEPT ![p] = "revoked"]
    /\ UNCHANGED <<registered, history, update, server>>

\* register_participant: a new record, whatever the old one remembered.
Register(p) ==
    /\ roundStage = "free" /\ admission[p] = "admitted"
    /\ registered' = registered \cup {p} /\ history' = [history EXCEPT ![p] = 0]
    /\ UNCHANGED <<admission, update, server>>

\* participate_in_round, the client's half: trained, noised and signed for
\* the round that is current by then.
SignUpdate(p, n) ==
    /\ update[p].round < roundId
    /\ update' = [update EXCEPT ![p] = [round |-> roundId, n |-> n, ok |-> TRUE]]
    /\ UNCHANGED <<admission, registered, history, server>>

\* The check of both accounting modes, epsilon counted in rounds.
BudgetLeft == rounds + 1 <= Budget

ValidUpdates(pnd) == {p \in RoundParticipants : pnd[p].ok}

\* Mutant: the signed payload leaves the round out.
Signed_AnyRound(p) == update[p].ok

\* _build_update_payload and the check of the signature over it.
Signed(p) == update[p].ok /\ update[p].round = roundId

\* submit_update: known, within budget, and signed for this round; an outlier
\* and a sudden growth of n_samples are kept but excluded.
SubmitUpdate(p, outlier) ==
    LET n == IF update[p].n <= MaxSamples THEN update[p].n ELSE MaxSamples
        ok == ~outlier /\ (history[p] > 0 => n <= GrowthFactor * history[p])
        pnd == [pending EXCEPT ![p] = [round |-> roundId, n |-> n, ok |-> ok]]
        quorum == Cardinality(ValidUpdates(pnd)) >= MinParticipants /\ ~wedged
    IN /\ roundStage = "free" /\ p \in registered /\ BudgetLeft
       /\ Signed(p)
       /\ pending' = pnd
       /\ history' = [history EXCEPT ![p] = IF ok /\ n > @ THEN n ELSE @]
       /\ IF quorum THEN roundStage' = "aggregate" /\ auto' = TRUE /\ wedged' = TRUE
                    ELSE UNCHANGED <<roundStage, auto, wedged>>
       /\ UNCHANGED <<admission, registered, update, roundId, rounds, audit, released, failures>>

\* force_aggregate: no quorum, no budget, no look at _aggregation_in_progress.
ForceAggregate ==
    /\ roundStage = "free" /\ roundStage' = "aggregate" /\ auto' = FALSE
    /\ UNCHANGED <<clients, pending, roundId, rounds, wedged, audit, released, failures>>

RoundDone == roundStage' = "free" /\ auto' = FALSE /\ wedged' = IF auto THEN FALSE ELSE wedged

\* _select_krum_survivors: how many may be faulty, and so how many stay.
KrumTolerance(n) == Max({0} \cup {f \in 0 .. n \div 3 : 2 * f + 2 < n})
Survivors(S) ==
    LET n == Cardinality(S) IN
    IF ~UseKrum \/ n < 3 THEN {S}
    ELSE kSubset(n - KrumTolerance(n), S)

Weight(S) == MapThenSumSet(LAMBDA p : pending[p].n, S)

\* _aggregate_locked returns None: nobody valid, or no samples.
NothingToAggregate ==
    /\ roundStage = "aggregate"
    /\ \/ ValidUpdates(pending) = {}
       \/ \E S \in Survivors(ValidUpdates(pending)) : Weight(S) = 0
    /\ RoundDone /\ UNCHANGED <<clients, pending, roundId, rounds, audit, released, failures>>

\* _aggregate_locked up to build_record: labels, round number and epsilon.
Release ==
    /\ roundStage = "aggregate" /\ ValidUpdates(pending) # {}
    /\ \E S \in Survivors(ValidUpdates(pending)) : Weight(S) > 0
    /\ roundStage' = "save" /\ released' = released + 1 /\ rounds' = rounds + 1
    /\ UNCHANGED <<clients, pending, roundId, wedged, auto, audit, failures>>

\* save_audit_record (INSERT OR REPLACE), then a new round.
SaveAuditRecord ==
    /\ roundStage = "save" /\ roundId < MaxRoundId /\ RoundDone
    /\ audit' = audit \cup {roundId} /\ roundId' = roundId + 1
    /\ pending' = [p \in RoundParticipants |-> None]
    /\ UNCHANGED <<clients, rounds, released, failures>>

\* The aggregation raises: the lock is released and nothing else is undone.
AggregationRaises ==
    /\ roundStage # "free" /\ failures < MaxFailures /\ failures' = failures + 1
    /\ roundStage' = "free" /\ auto' = FALSE
    /\ UNCHANGED <<clients, pending, roundId, rounds, wedged, audit, released>>

\* A new process reads the audit log; clients register again.
RoundRestart ==
    /\ failures < MaxFailures /\ failures' = failures + 1 /\ roundId < MaxRoundId
    /\ registered' = {} /\ history' = [p \in RoundParticipants |-> 0]
    /\ pending' = [p \in RoundParticipants |-> None] /\ roundId' = roundId + 1
    /\ rounds' = Cardinality(audit) /\ wedged' = FALSE /\ auto' = FALSE /\ roundStage' = "free"
    /\ UNCHANGED <<admission, update, audit, released>>

RoundNext ==
         \/ \E p \in RoundParticipants :
              \/ Admit(p) \/ RevokeAdmission(p) \/ Register(p) \/ (\E n \in Samples : SignUpdate(p, n))
              \/ \E outlier \in BOOLEAN : SubmitUpdate(p, outlier)
         \/ ForceAggregate \/ NothingToAggregate \/ Release \/ SaveAuditRecord \/ AggregationRaises
         \/ RoundRestart

RoundSpec == RoundInit /\ [][RoundNext]_roundVars
-----------------------------------------------------------------------------
(* The privacy ledger is honest.  Every set of labels that went out is a   *)
(* recorded round or belongs to an aggregation that failed before its      *)
(* record; the recorded rounds never exceed the budget, forced rounds,     *)
(* repeated aggregations and restarts included; and a quorum waits only    *)
(* behind an earlier failure or without a single sample.                   *)
RoundsAreAccounted ==
    /\ released <= Cardinality(audit) + failures + IF roundStage = "save" THEN 1 ELSE 0
    /\ Cardinality(audit) <= Budget
    /\ roundStage = "free" /\ Cardinality(ValidUpdates(pending)) >= MinParticipants =>
         (wedged /\ failures > 0) \/ \E S \in Survivors(ValidUpdates(pending)) : Weight(S) = 0

(***************************************************************************)
(* packages/ledgerlens-fl-client talking to packages/ledgerlens-fl-server  *)
(* over HTTP.  The packaged server is the code FederatedRounds models, so  *)
(* its actions are taken from there; this module adds the client process,  *)
(* one request at a time, and what the requests carry: the labels an       *)
(* update was trained on.  A request can fail after it took effect, the    *)
(* server can restart, and the client ends at the first error and is       *)
(* started again by its operator under the same operator id.               *)
(***************************************************************************)

CONSTANT FlClients  \* bound: the participants whose client process is followed

VARIABLES
    labels,  \* which _global_soft_labels: 0 none, else how many were released before
    fl,      \* each client process: [pc, known, base, round, torn]
    based,   \* the labels the pending update of p was trained on
    torn     \* participants whose pending update mixes two moments

flVars == <<roundVars, labels, fl, based, torn>>

Fresh == [pc |-> "start", known |-> FALSE, base |-> 0, round |-> 0, torn |-> FALSE]

FlTypeOK ==
    /\ RoundTypeOK /\ labels \in 0 .. released /\ torn \subseteq RoundParticipants
    /\ fl \in [RoundParticipants -> [pc : {"start", "labels", "round", "train", "submit", "again", "stopped"},
                                     known : BOOLEAN, base : 0 .. released, round : 0 .. MaxRoundId, torn : BOOLEAN]]

FlInit ==
    /\ RoundInit /\ labels = 0 /\ fl = [p \in RoundParticipants |-> Fresh]
    /\ based = [p \in RoundParticipants |-> 0] /\ torn = {}

client == <<labels, fl, based, torn>>
-----------------------------------------------------------------------------
\* register_participant and submit_update of the packaged server, the code
\* FederatedRounds models.
PackagedRegister(p) == Register(p)
PackagedSubmit(p, outlier) == SubmitUpdate(p, outlier)

\* train_round: registers once in the life of the process; a refusal (403)
\* ends it.
HttpRegister(p) ==
    /\ fl[p].pc = "start"
    /\ \/ fl[p].known /\ fl' = [fl EXCEPT ![p].pc = "labels"] /\ UNCHANGED roundVars
       \/ ~fl[p].known /\ PackagedRegister(p) /\ fl' = [fl EXCEPT ![p].pc = "labels", ![p].known = TRUE]
       \/ /\ ~fl[p].known /\ admission[p] # "admitted"
          /\ fl' = [fl EXCEPT ![p].pc = "stopped"] /\ UNCHANGED roundVars
    /\ UNCHANGED <<labels, based, torn>>

\* http_global_model reads the labels and then the round id, without the lock.
HttpLabels(p) ==
    /\ fl[p].pc = "labels" /\ fl' = [fl EXCEPT ![p].pc = "round", ![p].base = labels]
    /\ UNCHANGED <<roundVars, labels, based, torn>>
HttpRoundId(p) ==
    /\ fl[p].pc = "round"
    /\ fl' = [fl EXCEPT ![p].pc = "train", ![p].round = roundId,
                        ![p].torn = fl[p].base # labels \/ roundStage = "save"]
    /\ UNCHANGED <<roundVars, labels, based, torn>>

\* Local training against those labels, clipping, noise and the signature.
Train(p, n) ==
    /\ fl[p].pc = "train" /\ fl' = [fl EXCEPT ![p].pc = "submit"]
    /\ update' = [update EXCEPT ![p] = [round |-> fl[p].round, n |-> n, ok |-> TRUE]]
    /\ UNCHANGED <<admission, registered, history, server, labels, based, torn>>

\* http_submit_update takes the update ...
Accepted(p, outlier) ==
    /\ fl[p].pc = "submit" /\ PackagedSubmit(p, outlier)
    /\ based' = [based EXCEPT ![p] = fl[p].base]
    /\ \E pc \in {"again", "stopped"} : fl' = [fl EXCEPT ![p].pc = pc]    \* stopped: no answer came back
    /\ torn' = IF fl[p].torn THEN torn \cup {p} ELSE torn \ {p}
    /\ UNCHANGED labels

\* ... or answers 400, which ends the client.
Refused(p) ==
    /\ fl[p].pc = "submit" /\ roundStage = "free"
    /\ ~(p \in registered /\ BudgetLeft /\ Signed(p))
    /\ fl' = [fl EXCEPT ![p].pc = "stopped"]
    /\ UNCHANGED <<roundVars, labels, based, torn>>

\* The rest of train_round: the global labels are fetched again and distilled.
FinishRound(p) ==
    /\ fl[p].pc = "again" /\ fl' = [fl EXCEPT ![p].pc = "start"]
    /\ UNCHANGED <<roundVars, labels, based, torn>>

\* __main__ returns 1 at any exception; the operator starts it again.
Relaunch(p) ==
    /\ fl[p].pc = "stopped" /\ fl' = [fl EXCEPT ![p] = Fresh]
    /\ UNCHANGED <<roundVars, labels, based, torn>>

-----------------------------------------------------------------------------
\* The packaged server's own steps.
Operator(p) == (Admit(p) \/ RevokeAdmission(p)) /\ UNCHANGED client
Force == ForceAggregate /\ UNCHANGED client
Empty == NothingToAggregate /\ UNCHANGED client
NewLabels ==
    /\ Release /\ labels' = released' /\ UNCHANGED <<fl, based, torn>>
NewRound == SaveAuditRecord /\ UNCHANGED client

\* The round did not end: what waits in it, or is on its way, was trained on
\* older labels.
Raises ==
    /\ AggregationRaises /\ torn' = torn \cup {p \in RoundParticipants : pending[p] # None}
    /\ fl' = [p \in RoundParticipants |-> [fl[p] EXCEPT !.torn = TRUE]]
    /\ UNCHANGED <<labels, based>>

\* No labels after a restart: a client then starts from 0.5.
ServerRestart == RoundRestart /\ labels' = 0 /\ UNCHANGED <<fl, based, torn>>

FlNext ==
    \/ \E p \in FlClients :
        \/ HttpRegister(p) \/ HttpLabels(p) \/ HttpRoundId(p) \/ (\E n \in Samples : Train(p, n))
        \/ (\E outlier \in BOOLEAN : Accepted(p, outlier)) \/ Refused(p) \/ FinishRound(p)
        \/ Relaunch(p) \/ Operator(p)
    \/ Force \/ Empty \/ NewLabels \/ NewRound \/ Raises \/ ServerRestart

FlSpec == FlInit /\ [][FlNext]_flVars
-----------------------------------------------------------------------------
(* An update that waits to be aggregated was trained on the labels it will *)
(* be compared with, unless its client read labels and round id around the *)
(* end of a round or the aggregation failed half-way; and a client told    *)
(* that its update was accepted finds it pending or in a recorded round,   *)
(* unless the server failed meanwhile.                                     *)
UpdatesFitTheirRound ==
    \A p \in RoundParticipants :
        /\ pending[p] # None /\ roundStage = "free" /\ p \notin torn => based[p] = labels
        /\ fl[p].pc = "again" /\ failures = 0 =>
             pending[p].round = fl[p].round \/ fl[p].round \in audit

-----------------------------------------------------------------------------
(***************************************************************************)
(* The federated server's defences against a few bad updates, as           *)
(* algorithms: Krum selection (federated/krum.py), the trimmed mean        *)
(* (federated/robust_aggregation.py), the cap on a participant's share of  *)
(* the weight (federated/weighting.py).  Updates have one coordinate;      *)
(* weights are exact fractions; each input is examined by itself.          *)
(***************************************************************************)

CONSTANTS
    N,        \* updates in a round
    Values,   \* values of an update
    Weights,  \* n_samples
    Caps,     \* max_participant_weight_fraction, in hundredths
    TrimPct   \* trim_fraction, in hundredths

Clients == 1 .. N

VARIABLES
    robustStage,     \* of the current round: "start", "selected", "cap" or "done"
    robustG,         \* the updates
    bad,       \* the client whose update is arbitrary
    order,     \* clients by Krum score, least first
    trimmed,   \* the values trimmed_mean averages
    w,         \* n_samples of each client
    cap,       \* effective cap: <<numerator, denominator>>
    capped     \* capped_mask

robustVars == <<robustStage, robustG, bad, order, trimmed, w, cap, capped>>

SumOf(f, S) == MapThenSumSet(LAMBDA i : f[i], S)

-----------------------------------------------------------------------------
\* _select_krum_survivors: how many bad updates n of them can stand.
Tolerance(n) == Max({0} \cup {f \in 0 .. n \div 3 : 2 * f + 2 < n})

\* How many of the nearest others count (the distance 0 to itself does not).
Neighbours(n, f) == n - f - 2

\* krum_scores, for one coordinate.
KrumScores(x, f) ==
    [i \in Clients |->
        LET dists == SortSeq([j \in Clients |-> (x[i] - x[j]) * (x[i] - x[j])], <)
        IN  SumOf(dists, 2 .. Neighbours(N, f) + 1)]

\* select: np.argsort is stable for so few.
Select(x, f) ==
    LET s == KrumScores(x, f)
    IN  SortSeq([i \in Clients |-> i], LAMBDA i, j : s[i] < s[j] \/ (s[i] = s[j] /\ i < j))

\* trimmed_mean: the values that are left to be averaged.
TrimmedMean(x) ==
    LET k == (TrimPct * N) \div 100
    IN  SubSeq(SortSeq(x, <), k + 1, N - k)

-----------------------------------------------------------------------------
\* apply_weight_share_cap.  A free client has weight w[i] / free of what the
\* capped ones leave, as the fraction Share(i) of cap[2] * FreeSum.
EffectiveCap(c) == IF c * N >= 100 THEN <<c, 100>> ELSE <<1, N>>
FreeSum(C) == SumOf(w, Clients \ C)
Left(C) == cap[2] - Cardinality(C) * cap[1]      \* of cap[2]
Result(i, C) ==                                   \* <<numerator, denominator>>
    IF i \in C THEN cap
    ELSE IF FreeSum(C) = 0 THEN <<Left(C), cap[2] * (N - Cardinality(C))>>
    ELSE <<w[i] * Left(C), cap[2] * FreeSum(C)>>
Over(C) == {i \in Clients \ C : Result(i, C)[1] * cap[2] > cap[1] * Result(i, C)[2]}

RobustInit ==
          /\ robustStage = "start" /\ robustG = [i \in Clients |-> 0] /\ bad = 1 /\ order = <<>> /\ trimmed = <<>>
          /\ w = [i \in Clients |-> 0] /\ cap = <<1, 1>> /\ capped = {}

\* The server's aggregation: Krum's selection, or the trimmed mean.
RobustAggregate(x, b) ==
    /\ robustStage = "start" /\ robustStage' = "selected"
    /\ robustG' = x /\ bad' = b /\ trimmed' = TrimmedMean(x) /\ order' = Select(x, Tolerance(N))
    /\ UNCHANGED <<w, cap, capped>>

\* The weights of a round: nothing to cap without samples or with a cap of 1.
Weigh(v, c) ==
    /\ robustStage = "start" /\ SumOf(v, Clients) > 0 /\ c < 100
    /\ w' = v /\ cap' = EffectiveCap(c) /\ capped' = {} /\ robustStage' = "cap"
    /\ UNCHANGED <<robustG, bad, order, trimmed>>

\* An iteration of the loop: whoever is over the cap gets the cap, the rest
\* share what is left.
Iterate ==
    /\ robustStage = "cap"
    /\ IF Over(capped) = {} THEN robustStage' = "done" /\ UNCHANGED capped
       ELSE capped' = capped \cup Over(capped) /\ UNCHANGED robustStage
    /\ UNCHANGED <<robustG, bad, order, trimmed, w, cap>>

RobustDone == robustStage \in {"selected", "done"} /\ UNCHANGED robustVars

RobustNext ==
          \/ \E x \in [Clients -> Values], b \in Clients : RobustAggregate(x, b)
          \/ \E v \in [Clients -> Weights], c \in Caps : Weigh(v, c)
          \/ Iterate
          \/ RobustDone

RobustSpec == RobustInit /\ [][RobustNext]_robustVars
-----------------------------------------------------------------------------
Honest == {robustG[i] : i \in Clients \ {bad}}
InHull(v) == Min(Honest) <= v /\ v <= Max(Honest)

\* One bad update cannot pull Krum's choice, or a value the trimmed mean
\* still averages, outside what the other clients sent.
OutliersHaveNoSay ==
    robustStage = "selected" =>
        /\ Tolerance(N) >= 1 => InHull(robustG[order[1]])
        /\ (TrimPct * N) \div 100 >= 1 => \A i \in DOMAIN trimmed : InHull(trimmed[i])

\* The capped weights: nobody above the cap, everything given out, and more
\* samples never mean less weight.  Every iteration but the last caps one more.
WeightsAreCapped ==
    robustStage = "done" =>
        LET r(i) == Result(i, capped)
            whole == cap[2] * (IF FreeSum(capped) = 0 THEN N - Cardinality(capped) ELSE FreeSum(capped))
            part(i) == IF i \in capped THEN cap[1] * (whole \div cap[2]) ELSE r(i)[1]
        IN  /\ \A i \in Clients : r(i)[1] * cap[2] <= cap[1] * r(i)[2]
            /\ capped # Clients => MapThenSumSet(part, Clients) = whole
            /\ \A i, j \in Clients : w[i] <= w[j] => r(i)[1] * r(j)[2] <= r(j)[1] * r(i)[2]

AggregationIsRobust == OutliersHaveNoSay /\ WeightsAreCapped

-----------------------------------------------------------------------------
(***************************************************************************)
(* detection/federated/secure_agg.py and smpc.py: two ways to add up the   *)
(* participants' updates without showing one of them.  Pairwise masks over *)
(* the ring of uint64 that cancel in the sum; and additive shares sent to  *)
(* three aggregators (POST /federated/smpc/share), whose partial sums are  *)
(* added.  Numbers are in units of the fixed point, the ring is small.     *)
(***************************************************************************)

CONSTANTS
    SecureParticipants,  \* numbers, so that "participant_id < peer_id" means something
    Updates,       \* values of a participant's update
    Ring,          \* 2^64 in the code
    Masks,         \* values of a pair's mask
    Shares,        \* values of a random share
    MaxRepeats     \* bound: share requests sent again

Aggregators == 1 .. 3

VARIABLES
    protocol,   \* "none", "masks" or "shares"
    secret,     \* update of each participant
    mask,       \* mask of each pair {p, q}, from their keys and the round id
    reported,   \* SecureAggregator._reported
    sum,        \* SecureAggregator._running_sum
    total,      \* aggregate's answers
    share,      \* split_gradient: share[p][a]
    received,   \* SMPCAggregator._shares: how often each participant's share was taken
    repeats

secureVars == <<protocol, secret, mask, reported, sum, total, share, received, repeats>>

Pairs == {S \in SUBSET SecureParticipants : Cardinality(S) = 2}

SecureTypeOK ==
    /\ secret \in [SecureParticipants -> Updates \cup {0}] /\ reported \subseteq SecureParticipants /\ sum \in 0 .. Ring - 1
    /\ received \in [Aggregators -> [SecureParticipants -> 0 .. MaxRepeats + 1]]

\* The keys, and with them the masks, and the random shares are arbitrary.
SecureInit ==
          /\ protocol = "none" /\ secret = [p \in SecureParticipants |-> 0] /\ mask = [m \in Pairs |-> 0]
          /\ share = [p \in SecureParticipants |-> <<>>]
          /\ reported = {} /\ sum = 0 /\ total = <<>>
          /\ received = [a \in Aggregators |-> [p \in SecureParticipants |-> 0]] /\ repeats = 0

\* split_gradient: all shares but the last are random.
Split(g, r1, r2) == <<r1, r2, g - (r1 + r2)>>

SetupMasks(s, m) ==
    /\ protocol = "none" /\ protocol' = "masks" /\ secret' = s /\ mask' = m
    /\ UNCHANGED <<reported, sum, total, share, received, repeats>>
SetupShares(s, r) ==
    /\ protocol = "none" /\ protocol' = "shares" /\ secret' = s
    /\ share' = [p \in SecureParticipants |-> Split(s[p], r[p], r[p] + 1)]
    /\ UNCHANGED <<mask, reported, sum, total, received, repeats>>

-----------------------------------------------------------------------------
\* encode and decode: two's complement.
Encode(x) == x % Ring
Decode(u) == IF u < Ring \div 2 THEN u ELSE u - Ring

\* The one with the smaller id adds the mask, the other one subtracts it.
Sign(p, q) == IF p < q THEN 1 ELSE -1

\* mask_update
MaskUpdate(p) ==
    (Encode(secret[p])
        + MapThenSumSet(LAMBDA q : Sign(p, q) * mask[{p, q}], SecureParticipants \ {p})) % Ring

\* SecureAggregator.submit: the expected participants, each once.
Submit(p) ==
    /\ protocol = "masks" /\ p \notin reported /\ reported' = reported \cup {p}
    /\ sum' = (sum + MaskUpdate(p)) % Ring
    /\ UNCHANGED <<protocol, secret, mask, total, share, received, repeats>>

\* SecureAggregator.aggregate: refused while somebody is missing.
SecureAggregate ==
    /\ reported = SecureParticipants /\ total = <<>> /\ total' = <<Decode(sum)>>
    /\ UNCHANGED <<protocol, secret, mask, reported, sum, share, received, repeats>>

-----------------------------------------------------------------------------
\* POST /federated/smpc/share, receive_share: the commitment fits the share;
\* a repeated request is taken again.
ReceiveShare(p, a) ==
    /\ protocol = "shares" 
    /\ \/ received[a][p] = 0 /\ UNCHANGED repeats
       \/ received[a][p] > 0 /\ repeats < MaxRepeats /\ repeats' = repeats + 1
    /\ received' = [received EXCEPT ![a][p] = @ + 1]
    /\ UNCHANGED <<protocol, secret, mask, reported, sum, total, share>>

\* finalize and aggregate_shares
PartialSum(a) ==
    MapThenSumSet(LAMBDA p : received[a][p] * share[p][a], SecureParticipants)

\* POST /federated/smpc/reconstruct with the sums of two or three aggregators:
\* changes nothing, and is answered at any moment.
ReconstructGradient(S) == MapThenSumSet(PartialSum, S)

SecureNext ==
          \/ \E s \in [SecureParticipants -> Updates] :
              \/ \E m \in [Pairs -> Masks] : SetupMasks(s, m)
              \/ \E r \in [SecureParticipants -> Shares] : SetupShares(s, r)
          \/ \E p \in SecureParticipants : Submit(p)
          \/ SecureAggregate
          \/ \E p \in SecureParticipants, a \in Aggregators : ReceiveShare(p, a)

SecureSpec == SecureInit /\ [][SecureNext]_secureVars
-----------------------------------------------------------------------------
Sum == MapThenSumSet(LAMBDA p : secret[p], SecureParticipants)
AllOnce == protocol = "shares" /\ \A a \in Aggregators, p \in SecureParticipants : received[a][p] = 1

(* What is added up is the sum of the updates: the masks of all pairs      *)
(* cancel in the ring whatever the order of submission, negative updates   *)
(* included; and the sums of all three aggregators give the sum of the     *)
(* gradients when each took each participant's share exactly once.         *)
SumsAreTrue ==
    /\ \A i \in DOMAIN total : total[i] = Sum
    /\ AllOnce => ReconstructGradient(Aggregators) = Sum

=============================================================================
