-------------------------- MODULE ScorePublication --------------------------
(*****************************************************************************)
(* Scores on the chain: the publisher with its dead letters, and disputes of *)
(* published scores.                                                         *)
(*****************************************************************************)
EXTENDS Integers, Sequences, FiniteSets, SequencesExt

-----------------------------------------------------------------------------
(***************************************************************************)
(* detection/soroban_publisher.py and the dlq-replay command of cli.py:    *)
(* publication of risk scores on chain, with the publisher's own circuit   *)
(* breaker, the one-retry submission loop and the dead-letter table.       *)
(*                                                                         *)
(* A publisher object has its own breaker and may be used by several       *)
(* threads; the database (submission log, dead letters) and the chain are  *)
(* shared.  A transaction whose polling timed out is in limbo: it may      *)
(* still be applied later.  Scores are opaque; age and failures stop at    *)
(* the value they are compared with, as in CircuitBreaker.  Of the         *)
(* submission log only the "submitted" rows are kept: "failed" and         *)
(* "skipped" rows promise nothing.                                         *)
(***************************************************************************)

CONSTANTS Scores,       \* (wallet, pair, score) triples to publish
          Pipes,        \* threads of the pipeline's publisher
          Clis,         \* dlq-replay processes, each with a publisher
          Threshold,    \* circuit_breaker_threshold
          ResetSeconds, \* circuit_reset_seconds, in time units
          MaxRows,      \* soroban_dlq_max_rows
          MaxCalls      \* bound: submissions begun

Threads == Pipes \cup Clis
Publishers == {"pipe"} \cup Clis
Home(w) == IF w \in Pipes THEN "pipe" ELSE w

VARIABLES circuit,    \* _circuit_state, _consecutive_failures, _circuit_opened_at
          publishPc,         \* where a thread is in submit_score / submit_with_quorum
          todo,       \* items a thread still has to submit, head first
          limbo,      \* limbo[s]: sent transactions whose fate is unknown
          chain,      \* chain[s]: applied transactions
          submitted,  \* scores with a "submitted" row in the submission log
          dlq,        \* soroban_dead_letters: id -> [score, status]
          lastId,     \* AUTOINCREMENT
          calls,      \* calls[s]: submissions of s begun
          blocked     \* history: scores submit_score met an open circuit with

publishVars == <<circuit, publishPc, todo, limbo, chain, submitted, dlq, lastId, calls, blocked>>

NotOpened == -1
NoId == 0
Item == [score : Scores, row : Nat]
Closed == [state |-> "closed", failures |-> 0, age |-> NotOpened]

Row == [score : Scores, status : {"pending", "replayed", "failed"}]
Circuits == [state : {"closed", "open", "half-open"},
             failures : 0..Threshold,
             age : {NotOpened} \cup 0..ResetSeconds]

PublishTypeOK ==
    /\ circuit \in [Publishers -> Circuits]
    /\ publishPc \in [Threads -> {"idle", "try1", "try2", "fee", "quorum"}]
    /\ todo \in [Threads -> Seq(Item)]
    /\ \A w \in Threads : publishPc[w] # "idle" => todo[w] # <<>>
    /\ limbo \in [Scores -> Nat] /\ chain \in [Scores -> Nat]
    /\ submitted \subseteq Scores
    /\ lastId \in Nat /\ DOMAIN dlq \subseteq 1..lastId
    /\ dlq \in [DOMAIN dlq -> Row]
    /\ calls \in [Scores -> Nat]
    /\ blocked \subseteq Scores

\* Processes start on a database that may hold dead letters of earlier ones.
PublishInit ==
           /\ circuit = [p \in Publishers |-> Closed]
           /\ publishPc = [w \in Threads |-> "idle"]
           /\ todo = [w \in Threads |-> <<>>]
           /\ limbo = [s \in Scores |-> 0]
           /\ chain = [s \in Scores |-> 0]
           /\ submitted = {}
           /\ \E S \in {{}, Scores} : \E q \in SetToSeqs(S) :
                /\ Len(q) <= MaxRows
                /\ dlq = [k \in 1..Len(q) |-> [score |-> q[k], status |-> "pending"]]
                /\ lastId = Len(q)
           /\ calls = [s \in Scores |-> 0]
           /\ blocked = {}

-----------------------------------------------------------------------------
(* The breaker, as functions from one circuit record to the next.          *)

HalfOpens(c) == c.state = "open" /\ c.age # NotOpened /\ c.age >= ResetSeconds
Passes(c) == c.state # "open" \/ HalfOpens(c)
Checked(c) == IF HalfOpens(c) THEN [c EXCEPT !.state = "half-open"] ELSE c

AfterFailure(c) ==
    LET n == IF c.failures < Threshold THEN c.failures + 1 ELSE c.failures
    IN  IF c.state = "half-open" \/ n >= Threshold
          THEN [state |-> "open", failures |-> n, age |-> 0]
          ELSE [c EXCEPT !.failures = n]

\* An open circuit is not closed here, but loses its timer.
AfterSuccess(c) ==
    [state    |-> IF c.state = "half-open" THEN "closed" ELSE c.state,
     failures |-> 0,
     age      |-> NotOpened]

-----------------------------------------------------------------------------
(* _write_dead_letter: insert, then prune the oldest rows above the cap.   *)

Pruned(rows) ==
    LET ids == DOMAIN rows
        kept == {i \in ids : Cardinality({j \in ids : j > i}) < MaxRows}
    IN  [i \in kept |-> rows[i]]

WriteDeadLetter(s, rows) ==
    Pruned([i \in DOMAIN rows \cup {lastId + 1} |->
              IF i = lastId + 1 THEN [score |-> s, status |-> "pending"]
                                ELSE rows[i]])

\* dlq-replay's UPDATE ... WHERE id = ?, a no-op for batch items and for rows
\* pruned meanwhile.
MarkRow(id, status, rows) ==
    IF id \in DOMAIN rows THEN [rows EXCEPT ![id].status = status] ELSE rows

-----------------------------------------------------------------------------
Cur(w) == Head(todo[w])
Log(s) == submitted' = submitted \cup {s}
Begin(s) ==
    /\ FoldFunction(+, 0, calls) < MaxCalls
    /\ calls' = [calls EXCEPT ![s] = @ + 1]

\* submit_batch over a list of distinct scores (submit_score is a batch of one).
StartBatch(w) ==
    /\ w \in Pipes /\ publishPc[w] = "idle" /\ todo[w] = <<>>
    /\ \E S \in SUBSET Scores \ {{}} : \E q \in SetToSeqs(S) :
         todo' = [todo EXCEPT ![w] = [k \in 1..Len(q) |->
                                        [score |-> q[k], row |-> NoId]]]
    /\ UNCHANGED <<circuit, publishPc, limbo, chain, submitted, dlq, lastId, calls, blocked>>

\* dlq-replay reads the pending rows, oldest first.
StartReplay(w) ==
    /\ w \in Clis /\ publishPc[w] = "idle" /\ todo[w] = <<>>
    /\ \E ids \in SetToSeqs({i \in DOMAIN dlq : dlq[i].status = "pending"}) :
         /\ ids # <<>>
         /\ \A j, k \in 1..Len(ids) : j < k => ids[j] < ids[k]
         /\ todo' = [todo EXCEPT ![w] = [k \in 1..Len(ids) |->
                        [score |-> dlq[ids[k]].score, row |-> ids[k]]]]
    /\ UNCHANGED <<circuit, publishPc, limbo, chain, submitted, dlq, lastId, calls, blocked>>

\* acquire_submission_lease refuses: the item raises and is not retried.
LeaseRefused(w) ==
    /\ publishPc[w] = "idle" /\ todo[w] # <<>>
    /\ todo' = [todo EXCEPT ![w] = Tail(@)]
    /\ dlq' = MarkRow(Cur(w).row, "failed", dlq)
    /\ UNCHANGED <<circuit, publishPc, limbo, chain, submitted, lastId, calls, blocked>>

\* submit_score meets an open circuit: skip, dead-letter and raise.  A batch
\* stops there and the rest of it is forgotten; a replay marks its row and goes on.
Blocked(w) ==
    LET s == Cur(w).score IN
    /\ publishPc[w] = "idle" /\ todo[w] # <<>>
    /\ ~Passes(circuit[Home(w)])
    /\ Begin(s)
    /\ dlq' = MarkRow(Cur(w).row, "failed", WriteDeadLetter(s, dlq))
    /\ lastId' = lastId + 1
    /\ todo' = [todo EXCEPT ![w] = IF w \in Pipes THEN <<>> ELSE Tail(@)]
    /\ blocked' = blocked \cup {s}
    /\ UNCHANGED <<circuit, publishPc, limbo, chain, submitted>>

\* submit_score passes the breaker.
Admitted(w) ==
    /\ publishPc[w] = "idle" /\ todo[w] # <<>>
    /\ Passes(circuit[Home(w)])
    /\ Begin(Cur(w).score)
    /\ circuit' = [circuit EXCEPT ![Home(w)] = Checked(@)]
    /\ publishPc' = [publishPc EXCEPT ![w] = "try1"]
    /\ UNCHANGED <<todo, limbo, chain, submitted, dlq, lastId, blocked>>

\* dry_run=True: the breaker is checked, nothing is sent.
DryRun(w) ==
    /\ w \in Pipes /\ publishPc[w] = "idle" /\ todo[w] # <<>>
    /\ Passes(circuit["pipe"])
    /\ circuit' = [circuit EXCEPT !["pipe"] = Checked(@)]
    /\ todo' = [todo EXCEPT ![w] = Tail(@)]
    /\ UNCHANGED <<publishPc, limbo, chain, submitted, dlq, lastId, calls, blocked>>

-----------------------------------------------------------------------------
(* _submit_once and _execute_with_retries.                                 *)

Trying(w) == publishPc[w] \in {"try1", "try2", "fee"}

\* The thread leaves submit_score; the replay command marks its row.
Finish(w, rowStatus) ==
    /\ publishPc' = [publishPc EXCEPT ![w] = "idle"]
    /\ todo' = [todo EXCEPT ![w] = Tail(@)]
    /\ dlq' = MarkRow(Cur(w).row, rowStatus, dlq)

\* Mutant: an accepted send counts as published, without polling for it.
Succeeds_OnSend(w) ==
    LET s == Cur(w).score IN
    /\ Trying(w)
    /\ limbo' = [limbo EXCEPT ![s] = @ + 1]
    /\ circuit' = [circuit EXCEPT ![Home(w)] = AfterSuccess(@)]
    /\ Log(s)
    /\ Finish(w, "replayed")
    /\ UNCHANGED <<chain, lastId, calls, blocked>>

Succeeds(w) ==
    LET s == Cur(w).score IN
    /\ Trying(w)
    /\ chain' = [chain EXCEPT ![s] = @ + 1]
    /\ circuit' = [circuit EXCEPT ![Home(w)] = AfterSuccess(@)]
    /\ Log(s)
    /\ Finish(w, "replayed")
    /\ UNCHANGED <<limbo, lastId, calls, blocked>>

\* One attempt ends in an error that _submit_once returns; a timeout or an
\* exception may come before or after the transaction was sent.
Retryable == {"bad_seq", "timeout"}
Errors == Retryable \cup {"insufficient_fee", "auth", "other"}

\* Where the retry loop goes after error e, or "fail".
AfterError(where, e) ==
    CASE where = "try1" /\ e \in Retryable -> "try2"
      [] where = "try1" /\ e = "insufficient_fee" -> "fee"
      [] OTHER -> "fail"

AttemptFails(w) ==
    LET s == Cur(w).score IN
    /\ Trying(w)
    /\ \E e \in Errors :
         /\ \/ limbo' = limbo
            \/ e \in {"timeout", "other"} /\ limbo' = [limbo EXCEPT ![s] = @ + 1]
         /\ LET to == AfterError(publishPc[w], e) IN
            IF to # "fail"
              THEN /\ publishPc' = [publishPc EXCEPT ![w] = to]
                   /\ UNCHANGED <<circuit, todo, dlq>>
              ELSE /\ circuit' = [circuit EXCEPT ![Home(w)] = AfterFailure(@)]
                   /\ Finish(w, "failed")
    /\ UNCHANGED <<chain, submitted, lastId, calls, blocked>>

-----------------------------------------------------------------------------
(* submit_with_quorum: checks the breaker, sends once, records no outcome  *)
(* in the breaker and writes no dead letter.                               *)

StartQuorum(w) ==
    /\ w \in Pipes /\ publishPc[w] = "idle" /\ todo[w] = <<>>
    /\ \E s \in Scores :
         /\ Begin(s)
         /\ IF Passes(circuit["pipe"])
              THEN /\ circuit' = [circuit EXCEPT !["pipe"] = Checked(@)]
                   /\ publishPc' = [publishPc EXCEPT ![w] = "quorum"]
                   /\ todo' = [todo EXCEPT ![w] = <<[score |-> s, row |-> NoId]>>]
              ELSE UNCHANGED <<circuit, publishPc, todo>>
    /\ UNCHANGED <<limbo, chain, submitted, dlq, lastId, blocked>>

QuorumEnds(w) ==
    LET s == Cur(w).score IN
    /\ publishPc[w] = "quorum"
    /\ \/ chain' = [chain EXCEPT ![s] = @ + 1] /\ Log(s) /\ UNCHANGED limbo
       \/ limbo' = [limbo EXCEPT ![s] = @ + 1] /\ UNCHANGED <<chain, submitted>>
       \/ UNCHANGED <<chain, limbo, submitted>>
    /\ Finish(w, "failed")
    /\ UNCHANGED <<circuit, lastId, calls, blocked>>

-----------------------------------------------------------------------------
\* A transaction in limbo is applied, or dropped, by the network.
LimboResolves(s) ==
    /\ limbo[s] > 0
    /\ limbo' = [limbo EXCEPT ![s] = @ - 1]
    /\ chain' \in {chain, [chain EXCEPT ![s] = @ + 1]}
    /\ UNCHANGED <<circuit, publishPc, todo, submitted, dlq, lastId, calls, blocked>>

\* reset_circuit
ResetCircuit(p) ==
    /\ circuit[p] # Closed
    /\ circuit' = [circuit EXCEPT ![p] = Closed]
    /\ UNCHANGED <<publishPc, todo, limbo, chain, submitted, dlq, lastId, calls, blocked>>

PublishTick ==
           /\ \E p \in Publishers : circuit[p].age \in 0..(ResetSeconds - 1)
           /\ circuit' = [p \in Publishers |->
                 IF circuit[p].age \in 0..(ResetSeconds - 1)
                   THEN [circuit[p] EXCEPT !.age = @ + 1] ELSE circuit[p]]
           /\ UNCHANGED <<publishPc, todo, limbo, chain, submitted, dlq, lastId, calls, blocked>>

Thread(w) ==
    \/ StartBatch(w) \/ StartReplay(w) \/ LeaseRefused(w)
    \/ Blocked(w) \/ Admitted(w) \/ DryRun(w)
    \/ Succeeds(w) \/ AttemptFails(w)
    \/ StartQuorum(w) \/ QuorumEnds(w)

PublishNext ==
           \/ \E w \in Threads : Thread(w)
           \/ \E s \in Scores : LimboResolves(s)
           \/ \E p \in Publishers : ResetCircuit(p)
           \/ PublishTick

PublishSpec == PublishInit /\ [][PublishNext]_publishVars
-----------------------------------------------------------------------------
(* What the database says was published was applied on chain: a score      *)
(* logged "submitted", or a dead letter marked "replayed", has at least    *)
(* one applied transaction, whatever timeouts and retries came before.     *)
RecordedMeansApplied ==
    /\ \A s \in Scores : s \in submitted => chain[s] > 0
    /\ \A i \in DOMAIN dlq : dlq[i].status = "replayed" => chain[dlq[i].score] > 0

(* The retry after a polling timeout may publish a score again, but only   *)
(* once: a call to submit_score leads to at most two transactions.         *)
AtMostTwoPerCall == \A s \in Scores : chain[s] + limbo[s] <= 2 * calls[s]

(* A score that submit_score could not send because the circuit was open   *)
(* is kept in the dead-letter table, unless the table is full.             *)
BlockedScoreKept ==
    \A s \in blocked :
        \/ \E i \in DOMAIN dlq : dlq[i].score = s
        \/ Cardinality(DOMAIN dlq) = MaxRows

(* The dead-letter table is bounded, and making room only ever drops the   *)
(* oldest rows, never the one just written.                                *)
PruneOldestFirst ==
    [][/\ Cardinality(DOMAIN dlq') <= MaxRows
       /\ lastId' # lastId => lastId' \in DOMAIN dlq'
       /\ \A i \in DOMAIN dlq \ DOMAIN dlq', j \in DOMAIN dlq' : i < j]_publishVars

(* docs/soroban_operations.md:19: "[open] ---(SOROBAN_CIRCUIT_RESET_SECONDS *)
(* elapsed)---> [half-open]".  The transition needs the opening time, so   *)
(* an open circuit must have one.  It holds for a publisher that one       *)
(* thread uses; where several share one, a success recorded after another  *)
(* thread opened the circuit erases it.                                    *)
OpenHasTimer ==
    \A p \in Publishers :
        circuit[p].state = "open" /\ circuit[p].age = NotOpened
            => Cardinality({w \in Threads : Home(w) = p}) > 1

(* Publishing is honest: what is recorded as on the chain was applied, a   *)
(* call applies at most twice, a score the breaker blocked is kept, and    *)
(* the open breaker of a publisher that one thread uses has its timer.     *)
PublisherIsHonest ==
    /\ PublishTypeOK
    /\ RecordedMeansApplied /\ AtMostTwoPerCall /\ BlockedScoreKept /\ OpenHasTimer

-----------------------------------------------------------------------------
(***************************************************************************)
(* detection/dispute_store.py: disputes of published scores, committee     *)
(* votes, and what an approval leaves behind.  The API endpoints are plain *)
(* functions, so requests run concurrently in worker threads and in        *)
(* several processes; a SELECT holds no lock, and each commit is a step.   *)
(* A request may die between any two of its commits.                       *)
(*                                                                         *)
(* One (wallet, asset pair) is modelled.  `recent' stands for "the latest  *)
(* dispute is less than 7 days old".                                       *)
(***************************************************************************)

CONSTANTS Disputes,     \* dispute ids
          Voters,       \* voter key hashes
          Requests,     \* concurrent API requests
          CommitteeQuorum  \* COMMITTEE_QUORUM

VARIABLES disputeStatus,      \* status column of score_disputes, or "none"
          votes,       \* committee_votes_json, as a set of [voter, vote]
          recent,
          overrides,   \* per dispute: score_overrides rows, each with its
                       \* queued submission (the key contains the row id)
          corrections, \* per dispute: analyst_corrections rows
          disputePc, of, mine,\* a request: its step, its dispute, its votes list
          cast,        \* history: votes persisted
          orphaned     \* history: disputes whose approving request died

disputeVars == <<disputeStatus, votes, recent, overrides, corrections,
                 disputePc, of, mine, cast, orphaned>>
tables == <<disputeStatus, votes, recent, overrides, corrections>>

Vote == [voter : Voters, vote : {"approve", "reject"}]
Resolved == {"approved", "rejected"}
NoDispute == "no dispute"

DisputeTypeOK ==
    /\ disputeStatus \in [Disputes -> {"none", "pending"} \cup Resolved]
    /\ votes \in [Disputes -> SUBSET Vote]
    /\ recent \in BOOLEAN
    /\ overrides \in [Disputes -> Nat] /\ corrections \in [Disputes -> Nat]
    /\ disputePc \in [Requests -> {"idle", "submitting", "loaded", "persisted",
                                   "approving", "correcting"}]
    /\ of \in [Requests -> Disputes \cup {NoDispute}]
    /\ mine \in [Requests -> SUBSET Vote]
    /\ cast \in [Disputes -> SUBSET Vote]
    /\ orphaned \subseteq Disputes

DisputeInit ==
           /\ disputeStatus = [d \in Disputes |-> "none"]
           /\ votes = [d \in Disputes |-> {}]
           /\ recent = FALSE
           /\ overrides = [d \in Disputes |-> 0]
           /\ corrections = [d \in Disputes |-> 0]
           /\ disputePc = [r \in Requests |-> "idle"]
           /\ of = [r \in Requests |-> NoDispute]
           /\ mine = [r \in Requests |-> {}]
           /\ cast = [d \in Disputes |-> {}]
           /\ orphaned = {}

\* The request returns, raises, or its process dies.
Return(r) ==
    /\ disputePc' = [disputePc EXCEPT ![r] = "idle"]
    /\ of' = [of EXCEPT ![r] = NoDispute]
    /\ mine' = [mine EXCEPT ![r] = {}]

Step(r, to) == disputePc' = [disputePc EXCEPT ![r] = to] /\ UNCHANGED <<of, mine>>

-----------------------------------------------------------------------------
(* submit_dispute: the rate limit is read before the row is inserted.      *)

SubmitCheck(r) ==
    /\ disputePc[r] = "idle"
    /\ ~recent
    /\ Step(r, "submitting")
    /\ UNCHANGED <<tables, cast, orphaned>>

InitialStatus == "pending"

SubmitInsert(r, d) ==
    /\ disputePc[r] = "submitting"
    /\ disputeStatus[d] = "none"
    /\ disputeStatus' = [disputeStatus EXCEPT ![d] = InitialStatus]
    /\ recent' = TRUE
    /\ Return(r)
    /\ UNCHANGED <<votes, overrides, corrections, cast, orphaned>>

SevenDaysPass ==
    /\ recent
    /\ recent' = FALSE
    /\ UNCHANGED <<disputeStatus, votes, overrides, corrections, disputePc, of, mine, cast, orphaned>>

-----------------------------------------------------------------------------
(* cast_vote                                                               *)

\* Mutant: the duplicate test is left to the client.
MayVote_NoDuplicateTest(d, v) == disputeStatus[d] = "pending"

MayVote(d, v) ==
    /\ disputeStatus[d] = "pending"
    /\ \A x \in votes[d] : x.voter # v

LoadDispute(r, d, x) ==
    /\ disputePc[r] = "idle"
    /\ MayVote(d, x.voter)
    /\ disputePc' = [disputePc EXCEPT ![r] = "loaded"]
    /\ of' = [of EXCEPT ![r] = d]
    /\ mine' = [mine EXCEPT ![r] = votes[d] \cup {x}]
    /\ UNCHANGED <<tables, cast, orphaned>>

PersistVote(r) ==
    /\ disputePc[r] = "loaded"
    /\ votes' = [votes EXCEPT ![of[r]] = mine[r]]
    /\ cast' = [cast EXCEPT ![of[r]] = @ \cup mine[r]]
    /\ Step(r, "persisted")
    /\ UNCHANGED <<disputeStatus, recent, overrides, corrections, orphaned>>

Approves(V) == Cardinality({x \in V : x.vote = "approve"})
Rejects(V) == Cardinality({x \in V : x.vote = "reject"})

\* len(votes) >= quorum and a two-thirds supermajority of n votes.
Carried(n, V) == Cardinality(V) >= CommitteeQuorum /\ n * 3 >= 2 * Cardinality(V)

\* Quorum check on the request's own list, then _write_dispute_row.
Decide(r) ==
    LET d == of[r]
        V == mine[r]
    IN
    /\ disputePc[r] = "persisted"
    /\ \/ /\ Carried(Approves(V), V)
          /\ disputeStatus' = [disputeStatus EXCEPT ![d] = "approved"]
          /\ votes' = [votes EXCEPT ![d] = V]
          /\ Step(r, "approving")
       \/ /\ ~Carried(Approves(V), V)
          /\ Carried(Rejects(V), V)
          /\ disputeStatus' = [disputeStatus EXCEPT ![d] = "rejected"]
          /\ votes' = [votes EXCEPT ![d] = V]
          /\ Return(r)
       \/ /\ ~Carried(Approves(V), V)
          /\ ~Carried(Rejects(V), V)
          /\ Return(r)
          /\ UNCHANGED <<disputeStatus, votes>>
    /\ UNCHANGED <<recent, overrides, corrections, cast, orphaned>>

\* Override row, queued submission and deletion of the local score: one commit.
ApplyOverride(r) ==
    /\ disputePc[r] = "approving"
    /\ overrides' = [overrides EXCEPT ![of[r]] = @ + 1]
    /\ Step(r, "correcting")
    /\ UNCHANGED <<disputeStatus, votes, recent, corrections, cast, orphaned>>

\* AnalystFeedbackStore.add_correction, on a connection of its own.
AddCorrection(r) ==
    /\ disputePc[r] = "correcting"
    /\ corrections' = [corrections EXCEPT ![of[r]] = @ + 1]
    /\ Return(r)
    /\ UNCHANGED <<disputeStatus, votes, recent, overrides, cast, orphaned>>

DisputeCrash(r) ==
    /\ disputePc[r] # "idle"
    /\ orphaned' = IF disputePc[r] = "approving" THEN orphaned \cup {of[r]} ELSE orphaned
    /\ Return(r)
    /\ UNCHANGED <<tables, cast>>

DisputeNext ==
           \/ \E r \in Requests :
                \/ SubmitCheck(r)
                \/ \E d \in Disputes : SubmitInsert(r, d)
                \/ \E d \in Disputes, x \in Vote : LoadDispute(r, d, x)
                \/ PersistVote(r) \/ Decide(r) \/ ApplyOverride(r) \/ AddCorrection(r)
                \/ DisputeCrash(r)
           \/ SevenDaysPass

DisputeSpec == DisputeInit /\ [][DisputeNext]_disputeVars
-----------------------------------------------------------------------------
(* However requests interleave and overwrite each other's list, no voter   *)
(* is counted twice in a dispute.                                          *)
OneVotePerVoter ==
    \A d \in Disputes : \A x, y \in votes[d] : x.voter = y.voter => x = y

(* A dispute is approved only if voters enough for two thirds of a quorum  *)
(* really cast an approval, even when votes are lost or decided twice.     *)
ApprovedBySupermajority ==
    \A d \in Disputes : disputeStatus[d] = "approved" =>
        Cardinality({x \in cast[d] : x.vote = "approve"}) * 3 >= 2 * CommitteeQuorum

(* chain_submission_queue.py:22-24: the obligation is "written in the same *)
(* transaction as the decision that created it".  It is not: the approval  *)
(* is committed first.  What holds is that an approved dispute has its     *)
(* obligation unless the request that approved it is still about to write  *)
(* it or died before it could; no concurrent vote makes it lose one.       *)
ApprovedIsOwed ==
    \A d \in Disputes \ orphaned : disputeStatus[d] = "approved" =>
        \/ overrides[d] > 0
        \/ \E r \in Requests : of[r] = d /\ disputePc[r] = "approving"

(* chain_submission_queue.py:28-29: "Enqueueing the same logical decision  *)
(* twice is a no-op".  The key holds the override's row id, so votes that  *)
(* decide concurrently do enqueue twice; but never more often than there   *)
(* are requests at a time, since a resolved dispute takes no new vote.     *)
ObligationsBounded == \A d \in Disputes : overrides[d] <= Cardinality(Requests)

(* A training correction is only ever generated after the override of the  *)
(* same dispute was committed, whatever crashes and repetitions there are. *)
CorrectionFollowsOverride ==
    \A d \in Disputes : corrections[d] <= overrides[d]

(* A dispute is decided by one vote per voter and two thirds of them; what *)
(* is approved is carried out or still owed, and owed only so often.       *)
DisputesAreJust ==
    /\ DisputeTypeOK
    /\ OneVotePerVoter /\ ApprovedBySupermajority
    /\ ApprovedIsOwed /\ ObligationsBounded /\ CorrectionFollowsOverride
=============================================================================
