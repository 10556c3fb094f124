--------------------------------- MODULE ChainProofs ----------------------------------
(***************************************************************************)
(* The submission queue, disputes and the publication of scores on the     *)
(* chain.                                                                  *)
(*                                                                         *)
(* The queue, for any rows, workers, priorities, lease and backoff: on     *)
(* every row that no worker reported on after its lease had run out, the   *)
(* lease protects its holder, no two workers work at a time, and the       *)
(* attempts column counts the reported failures exactly.  The three are    *)
(* inductive together.                                                     *)
(*                                                                         *)
(* Disputes and publication, for any requests, voters, threads and scores: *)
(* a request that decides works on a copy of the vote list; what makes its *)
(* decision just is that the copy has one vote per voter and that          *)
(* everything in it was once persisted.  A publishing thread works on      *)
(* items it read from the dead-letter table earlier; what makes its record *)
(* honest is that an item's row, if it is still there, is a row of the     *)
(* item's score, and that a call's transactions are a budget that its      *)
(* attempts spend.                                                         *)
(***************************************************************************)
EXTENDS ChainSubmissionQueue, ScorePublication, FiniteSetTheorems,
        WellFoundedInduction, TLAPS

-----------------------------------------------------------------------------
(* The submission queue.                                                   *)

(* The types the argument uses; due is left out, since only the order of    *)
(* claims depends on it.                                                    *)
Types ==
    /\ now \in Nat
    /\ status \in [Rows -> Statuses]
    /\ attempts \in [Rows -> Nat]
    /\ lease \in [Rows -> Nat]
    /\ claimed \in [Workers -> Rows \cup {NoRow}]
    /\ seen \in [Workers -> Nat]
    /\ until \in [Workers -> Nat]
    /\ failures \in [Rows -> Nat]
    /\ late \subseteq Rows

IInv == Types /\ LeaseProtects /\ SingleFlight /\ AttemptsCountFailures

LEMMA InitIInv == Init => IInv
  BY QueueAssumption
  DEF Init, IInv, Types, LeaseProtects, SingleFlight, AttemptsCountFailures,
      Live, Statuses, NoRow, NoLease

LEMMA ClaimIInv ==
  ASSUME IInv, NEW w \in Workers, NEW r \in Rows, Claim(w, r)
  PROVE  IInv'
<1> USE QueueAssumption DEF IInv, NoRow, Statuses
<1>1. Types'
  BY DEF Claim, Types
<1>2. \A v \in Workers : Live(v) /\ claimed[v] = r => r \in late
  BY DEF Claim, IsDue, LeaseProtects, Types, Live
<1>3. ASSUME NEW v \in Workers, v # w
      PROVE  /\ Live(v)' <=> Live(v)
             /\ claimed'[v] = claimed[v] /\ until'[v] = until[v] /\ seen'[v] = seen[v]
  BY <1>3 DEF Claim, Live, Types
<1>4. /\ claimed'[w] = r /\ until'[w] = now + LeaseSeconds /\ seen'[w] = attempts[r]
      /\ late' = late
  BY DEF Claim, Types
<1>5. LeaseProtects'
  <2> SUFFICES ASSUME NEW v \in Workers, Live(v)', claimed'[v] \notin late'
               PROVE  /\ status'[claimed'[v]] = "in_flight"
                      /\ lease'[claimed'[v]] = until'[v]
                      /\ attempts'[claimed'[v]] = seen'[v]
    BY DEF LeaseProtects
  <2>1. CASE v = w
    BY <2>1, <1>4 DEF Claim, Types
  <2>2. CASE v # w
    BY <2>2, <1>2, <1>3, <1>4 DEF Claim, Types, LeaseProtects, Live
  <2> QED
    BY <2>1, <2>2
<1>6. SingleFlight'
  <2> SUFFICES ASSUME NEW u \in Workers, NEW v \in Workers, u # v, Live(u)', Live(v)',
                      claimed'[u] = claimed'[v]
               PROVE  claimed'[u] \in late'
    BY DEF SingleFlight
  <2>1. CASE u = w
    BY <2>1, <1>2, <1>3, <1>4
  <2>2. CASE v = w
    BY <2>2, <1>2, <1>3, <1>4
  <2>3. CASE u # w /\ v # w
    BY <2>3, <1>3, <1>4 DEF SingleFlight
  <2> QED
    BY <2>1, <2>2, <2>3
<1>7. AttemptsCountFailures'
  BY DEF Claim, IsDue, Types, AttemptsCountFailures
<1> QED
  BY <1>1, <1>5, <1>6, <1>7

LEMMA RecordFailureIInv ==
  ASSUME IInv, NEW w \in Workers, RecordFailure(w)
  PROVE  IInv'
<1> USE QueueAssumption DEF IInv, NoRow, NoLease, Statuses
<1> DEFINE r == claimed[w]
<1>0. /\ now' = now
      /\ lease' = [lease EXCEPT ![r] = NoLease]
      /\ failures' = [failures EXCEPT ![r] = failures[r] + 1]
      /\ Release(w)
      /\ late' = IF now < until[w] THEN late ELSE late \cup {r}
  BY DEF RecordFailure
<1>1. r \in Rows
  BY DEF RecordFailure, Types
<1>2. ASSUME r \notin late'
      PROVE  Live(w) /\ r \notin late /\ status[r] = "in_flight" /\ attempts[r] = seen[w]
  BY <1>0, <1>1, <1>2 DEF LeaseProtects, Live
<1>3. Types'
  <2>0. failures[r] + 1 \in Nat
    <3>1. failures \in [Rows -> Nat] /\ r \in Rows
      BY <1>1 DEF Types
    <3>2. failures[r] \in Nat
      BY <3>1
    <3> QED
      BY <3>2
  <2>1. lease' \in [Rows -> Nat] /\ failures' \in [Rows -> Nat]
    <3> HIDE DEF r
    <3>1. lease \in [Rows -> Nat] /\ failures \in [Rows -> Nat] /\ 0 \in Nat
      BY DEF Types
    <3> QED
      BY <1>0, <2>0, <3>1
  <2>2. /\ claimed' \in [Workers -> Rows \cup {NoRow}]
        /\ seen' \in [Workers -> Nat] /\ until' \in [Workers -> Nat]
    BY <1>0 DEF Release, Types
  <2>3. status' \in [Rows -> Statuses] /\ attempts' \in [Rows -> Nat]
    <3>1. seen[w] + 1 \in Nat
      BY DEF Types
    <3>2. CASE DeadLetter(r)
      BY <3>2 DEF DeadLetter, Types
    <3>3. CASE Retry(w, r)
      BY <3>1, <3>3 DEF Retry, Types
    <3> QED
      BY <3>2, <3>3 DEF RecordFailure
  <2> QED
    BY <1>0, <1>1, <2>1, <2>2, <2>3 DEF Types
<1>4. ASSUME NEW v \in Workers, Live(v)'
      PROVE  v # w /\ Live(v) /\ claimed'[v] = claimed[v]
             /\ until'[v] = until[v] /\ seen'[v] = seen[v]
  BY <1>0, <1>4 DEF Release, Live, Types
<1>5. \A q \in Rows : q # r => /\ status'[q] = status[q] /\ attempts'[q] = attempts[q]
                               /\ lease'[q] = lease[q] /\ failures'[q] = failures[q]
  <2>1. \A q \in Rows : q # r => lease'[q] = lease[q] /\ failures'[q] = failures[q]
    BY <1>0, <1>1 DEF Types
  <2>2. \A q \in Rows : q # r => status'[q] = status[q] /\ attempts'[q] = attempts[q]
    <3>1. CASE DeadLetter(r)
      BY <3>1, <1>1 DEF DeadLetter, Types
    <3>2. CASE Retry(w, r)
      BY <3>2, <1>1 DEF Retry, Types
    <3> QED
      BY <3>1, <3>2 DEF RecordFailure
  <2> QED
    BY <2>1, <2>2
<1>6. LeaseProtects'
  <2> SUFFICES ASSUME NEW v \in Workers, Live(v)', claimed'[v] \notin late'
               PROVE  /\ status'[claimed'[v]] = "in_flight"
                      /\ lease'[claimed'[v]] = until'[v]
                      /\ attempts'[claimed'[v]] = seen'[v]
    BY DEF LeaseProtects
  <2>1. claimed[v] \in Rows /\ claimed[v] \notin late
    BY <1>0, <1>4 DEF Live, Types
  <2>2. claimed[v] # r
    BY <1>2, <1>4, <2>1 DEF SingleFlight
  <2>3. /\ Live(v) /\ claimed'[v] = claimed[v]
        /\ until'[v] = until[v] /\ seen'[v] = seen[v]
    BY <1>4
  <2>4. /\ status[claimed[v]] = "in_flight" /\ lease[claimed[v]] = until[v]
        /\ attempts[claimed[v]] = seen[v]
    BY <2>1, <2>3 DEF LeaseProtects
  <2>5. /\ status'[claimed[v]] = status[claimed[v]] /\ lease'[claimed[v]] = lease[claimed[v]]
        /\ attempts'[claimed[v]] = attempts[claimed[v]]
    BY <2>1, <2>2, <1>5
  <2> QED
    BY <2>3, <2>4, <2>5
<1>7. SingleFlight'
  <2>1. late \subseteq late'
    BY <1>0
  <2> QED
    BY <1>4, <2>1 DEF SingleFlight
<1>8. ASSUME r \notin late'
      PROVE  IF status'[r] = "dead_letter"
               THEN failures'[r] = MaxAttempts
               ELSE failures'[r] = attempts'[r] /\ attempts'[r] < MaxAttempts
  <2>1. failures[r] = attempts[r] /\ attempts[r] < MaxAttempts /\ failures'[r] = failures[r] + 1
    BY <1>0, <1>1, <1>2, <1>8 DEF AttemptsCountFailures, Types
  <2>2. CASE Exhausted(w) /\ DeadLetter(r)
    BY <2>1, <2>2, <1>1, <1>2, <1>8 DEF Exhausted, DeadLetter, Types
  <2>3. CASE ~Exhausted(w) /\ Retry(w, r)
    BY <2>1, <2>3, <1>1, <1>2, <1>8 DEF Exhausted, Retry, Types
  <2> QED
    BY <2>2, <2>3 DEF RecordFailure
<1>9. AttemptsCountFailures'
  BY <1>0, <1>5, <1>8 DEF AttemptsCountFailures
<1> QED
  BY <1>3, <1>6, <1>7, <1>9

LEMMA NextIInv == ASSUME IInv, [Next]_vars PROVE IInv'
<1> USE QueueAssumption DEF IInv, NoRow, Statuses
<1>1. ASSUME NEW r \in Rows, Enqueue(r) PROVE IInv'
  BY <1>1 DEF Enqueue, workerVars, Types, LeaseProtects, SingleFlight,
              AttemptsCountFailures, Live
<1>2. ASSUME NEW w \in Workers, NEW r \in Rows, Claim(w, r) PROVE IInv'
  BY <1>2, ClaimIInv
<1>3. ASSUME NEW w \in Workers, RecordFailure(w) PROVE IInv'
  BY <1>3, RecordFailureIInv
<1>4. ASSUME NEW w \in Workers, Die(w) PROVE IInv'
  BY <1>4 DEF Die, Release, rowVars, Types, LeaseProtects, SingleFlight,
              AttemptsCountFailures, Live
<1>5. CASE Tick
  BY <1>5 DEF Tick, rowVars, workerVars, Types, LeaseProtects, SingleFlight,
              AttemptsCountFailures, Live
<1>6. CASE UNCHANGED vars
  BY <1>6 DEF vars, Types, LeaseProtects, SingleFlight, AttemptsCountFailures, Live
<1> QED
  BY <1>1, <1>2, <1>3, <1>4, <1>5, <1>6 DEF Next

(* Single-flight (claim_next_due, record_failure): no two workers hold      *)
(* leases on one row at the same time, unless a worker that had outlived    *)
(* its lease reported on that row.                                          *)
THEOREM QueueSingleFlight == Spec => []SingleFlight
<1>1. IInv /\ [Next]_vars => IInv'
  BY NextIInv
<1>2. IInv => SingleFlight
  BY DEF IInv
<1> QED
  BY <1>1, <1>2, InitIInv, PTL DEF Spec

(* The attempts column counts the failures reported and a row is            *)
(* dead-lettered at failure number MaxAttempts (record_failure), on every   *)
(* row without a late report.                                               *)
THEOREM QueueRetryBudget == Spec => []AttemptsCountFailures
<1>1. IInv /\ [Next]_vars => IInv'
  BY NextIInv
<1>2. IInv => AttemptsCountFailures
  BY DEF IInv
<1> QED
  BY <1>1, <1>2, InitIInv, PTL DEF Spec

(* A reported failure is, for the row it names, a counted failure of an     *)
(* open job, or it voids the promise; other rows do not notice.             *)
LEMMA RecordFailureRefines ==
  ASSUME IInv, IInv', NEW w \in Workers, RecordFailure(w)
  PROVE  \E r \in Rows : Durable!Fail(r) \/ Durable!Void({r})
<1> USE QueueAssumption DEF NoRow, Statuses
<1>1. PICK r \in Rows : r = claimed[w]
  BY DEF RecordFailure, IInv, Types
<1>2. /\ failures' = [failures EXCEPT ![r] = failures[r] + 1]
      /\ late' = IF now < until[w] THEN late ELSE late \cup {r}
      /\ DeadLetter(r) \/ Retry(w, r)
  BY <1>1 DEF RecordFailure
<1>3. \A q \in Rows : q # r => Job(q)' = Job(q) /\ Tries(q)' = Tries(q)
  <2> SUFFICES ASSUME NEW q \in Rows, q # r
               PROVE  Job(q)' = Job(q) /\ Tries(q)' = Tries(q)
    OBVIOUS
  <2>1. status'[q] = status[q]
    BY <1>1, <1>2 DEF DeadLetter, Retry, IInv, Types
  <2>2. failures'[q] = failures[q] /\ (q \in late' <=> q \in late)
    BY <1>1, <1>2 DEF IInv, Types
  <2> QED
    BY <2>1, <2>2 DEF Job, Tries
<1>4. CASE r \in late'
  <2>1. Job(r)' = "void" /\ Tries(r)' = 0
    BY <1>4 DEF Job, Tries
  <2> QED
    BY <1>1, <1>3, <2>1 DEF Durable!Void, Tries
<1>5. CASE r \notin late'
  <2>1. r \notin late /\ Live(w) /\ r = claimed[w]
    BY <1>1, <1>2, <1>5 DEF Live
  <2>2. status[r] = "in_flight"
    BY <2>1 DEF IInv, LeaseProtects
  <2>3. failures[r] \in Nat /\ failures[r] = attempts[r] /\ attempts[r] < MaxAttempts
    BY <1>1, <2>1, <2>2 DEF IInv, AttemptsCountFailures, Types
  <2>4. Job(r) = "open" /\ Tries(r) = failures[r]
    BY <2>1, <2>2 DEF Job, Tries
  <2>5. Tries(r)' = failures[r] + 1
    BY <1>1, <1>2, <1>5 DEF Tries, IInv, Types
  <2>6. Job(r)' = IF failures[r] + 1 = MaxAttempts THEN "dead" ELSE "open"
    <3>1. failures'[r] = failures[r] + 1
      BY <1>1, <1>2 DEF IInv, Types
    <3>2. IF status'[r] = "dead_letter"
            THEN failures'[r] = MaxAttempts
            ELSE failures'[r] = attempts'[r] /\ attempts'[r] < MaxAttempts
      BY <1>1, <1>5 DEF IInv, AttemptsCountFailures
    <3>3. status'[r] \in {"dead_letter", "pending"}
      BY <1>1, <1>2 DEF DeadLetter, Retry, IInv, Types
    <3> QED
      BY <1>5, <2>3, <3>1, <3>2, <3>3 DEF Job
  <2>7. [q \in Rows |-> Tries(q)'] = [[q \in Rows |-> Tries(q)] EXCEPT ![r] = failures[r] + 1]
    BY <1>1, <1>3, <2>5
  <2>8. CASE failures[r] + 1 = MaxAttempts
    <3>1. [q \in Rows |-> Job(q)'] = [[q \in Rows |-> Job(q)] EXCEPT ![r] = "dead"]
      BY <1>1, <1>3, <2>6, <2>8
    <3> QED
      BY <1>1, <2>3, <2>4, <2>7, <2>8, <3>1 DEF Durable!Fail, Tries
  <2>9. CASE failures[r] + 1 # MaxAttempts
    <3>1. [q \in Rows |-> Job(q)'] = [q \in Rows |-> Job(q)]
      BY <1>1, <1>3, <2>4, <2>6, <2>9
    <3> QED
      BY <1>1, <2>3, <2>4, <2>7, <2>9, <3>1 DEF Durable!Fail, Tries
  <2> QED
    BY <2>8, <2>9
<1> QED
  BY <1>4, <1>5

LEMMA StepRefines ==
  ASSUME IInv, IInv', [Next]_vars
  PROVE  [Durable!Next]_Durable!vars
<1> USE DEF NoRow
<1>1. ASSUME NEW r \in Rows, Enqueue(r) PROVE Durable!Submit(r) \/ UNCHANGED Durable!vars
  <2>1. late' = late /\ failures' = failures /\ status[r] = "absent"
        /\ status' = [status EXCEPT ![r] = "pending"]
    BY <1>1 DEF Enqueue
  <2>2. \A q \in Rows : Tries(q)' = Tries(q) /\ (q # r => Job(q)' = Job(q))
    BY <2>1 DEF Job, Tries, IInv, Types
  <2>3. CASE r \in late
    <3>1. \A q \in Rows : Job(q)' = Job(q) /\ Tries(q)' = Tries(q)
      BY <2>1, <2>2, <2>3 DEF Job, Tries
    <3> QED
      BY <3>1 DEF Durable!vars
  <2>4. CASE r \notin late
    <3>1. Job(r) = "absent" /\ Job(r)' = "open"
      BY <2>1, <2>4 DEF Job, IInv, Types
    <3> QED
      BY <2>1, <2>2, <3>1 DEF Durable!Submit
  <2> QED
    BY <2>3, <2>4
<1>2. ASSUME NEW w \in Workers, NEW r \in Rows, Claim(w, r) PROVE UNCHANGED Durable!vars
  <2>1. late' = late /\ failures' = failures /\ status[r] \in {"pending", "in_flight"}
        /\ status' = [status EXCEPT ![r] = "in_flight"]
    BY <1>2 DEF Claim, IsDue
  <2>2. \A q \in Rows : Job(q)' = Job(q) /\ Tries(q)' = Tries(q)
    BY <2>1 DEF Job, Tries, IInv, Types
  <2> QED
    BY <2>2 DEF Durable!vars
<1>3. ASSUME NEW w \in Workers, RecordFailure(w) PROVE Durable!Next
  <2>1. PICK r \in Rows : Durable!Fail(r) \/ Durable!Void({r})
    BY <1>3, RecordFailureRefines
  <2>2. {r} \in SUBSET Rows
    OBVIOUS
  <2> QED
    BY <2>1, <2>2 DEF Durable!Next
<1>4. ASSUME status' = status, failures' = failures, late' = late
      PROVE  UNCHANGED Durable!vars
  BY <1>4 DEF Durable!vars, Job, Tries
<1>5. ASSUME NEW w \in Workers, Die(w) PROVE UNCHANGED Durable!vars
  BY <1>4, <1>5 DEF Die, rowVars
<1>6. CASE Tick
  BY <1>4, <1>6 DEF Tick, rowVars
<1>7. CASE UNCHANGED vars
  BY <1>4, <1>7 DEF vars
<1> QED
  BY <1>1, <1>2, <1>3, <1>5, <1>6, <1>7 DEF Next, Durable!Next

(* The queue implements the abstract durable job (DurableJob): every step   *)
(* of a worker, of the clock and of the API is a step of the job's life, or *)
(* none; a row without a late report is submitted once, fails exactly       *)
(* MaxAttempts times before it is dead-lettered, and stays so.              *)
THEOREM QueueImplementsDurableJob == Spec => ImplementsDurableJob
<1>1. Init => Durable!Init
  BY DEF Init, Durable!Init, Job, Tries
<1>2. IInv /\ [Next]_vars => IInv'
  BY NextIInv
<1>3. IInv /\ IInv' /\ [Next]_vars => [Durable!Next]_Durable!vars
  BY StepRefines
<1> QED
  BY <1>1, <1>2, <1>3, InitIInv, PTL DEF Spec, ImplementsDurableJob, Durable!Spec

-----------------------------------------------------------------------------
(* Disputes.                                                               *)

OncePer(V) == \A x, y \in V : x.voter = y.voter => x = y

Active(r) == disputePc[r] \in {"loaded", "persisted", "approving", "correcting"}

DisputeTypes ==
    /\ DisputeTypeOK
    /\ \A r \in Requests : Active(r) => of[r] \in Disputes

VotesOnce == /\ \A d \in Disputes : OncePer(votes[d])
             /\ \A r \in Requests : OncePer(mine[r])

\* What a request decides on was persisted, by itself or by another.
MineIsCast ==
    \A r \in Requests : disputePc[r] \in {"persisted", "approving", "correcting"} =>
        mine[r] \subseteq cast[of[r]]

\* A request that may still add an override to d.
Deciding(d) ==
    {r \in Requests : of[r] = d /\ disputePc[r] \in {"loaded", "persisted", "approving"}}

\* A request between its override of d and its correction.
Correcting(d) == {r \in Requests : of[r] = d /\ disputePc[r] = "correcting"}

\* Until a dispute is resolved it has no override, and after that no request joins.
OverridesCounted ==
    /\ \A r \in Requests : disputePc[r] = "approving" => disputeStatus[of[r]] \in Resolved
    /\ \A d \in Disputes : disputeStatus[d] \notin Resolved => overrides[d] = 0
    /\ \A d \in Disputes : overrides[d] + Cardinality(Deciding(d)) <= Cardinality(Requests)

CorrectionsCounted ==
    \A d \in Disputes : corrections[d] + Cardinality(Correcting(d)) <= overrides[d]

DisputeIInv ==
    /\ DisputeTypes /\ VotesOnce /\ MineIsCast /\ ApprovedBySupermajority
    /\ ApprovedIsOwed /\ OverridesCounted /\ CorrectionsCounted

\* Finitely many requests at a time and voters in the committee.
FiniteCommittee == IsFiniteSet(Requests) /\ IsFiniteSet(Voters) /\ CommitteeQuorum \in Nat

LEMMA VoteFinite == ASSUME FiniteCommittee PROVE IsFiniteSet(Vote)
<1> DEFINE Pairs == Voters \X {"approve", "reject"}
           f == [p \in Pairs |-> [voter |-> p[1], vote |-> p[2]]]
<1>1. IsFiniteSet({"approve", "reject"})
  <2>1. IsFiniteSet({"approve"})
    BY FS_Singleton
  <2>2. IsFiniteSet({"approve"} \cup {"reject"})
    BY <2>1, FS_AddElement
  <2>3. {"approve", "reject"} = {"approve"} \cup {"reject"}
    OBVIOUS
  <2> QED
    BY <2>2, <2>3
<1>2. IsFiniteSet(Pairs)
  BY <1>1, FS_Product DEF FiniteCommittee
<1>3. f \in Surjection(Pairs, Vote)
  <2>1. f \in [Pairs -> Vote]
    BY DEF Vote
  <2>2. ASSUME NEW x \in Vote PROVE \E p \in Pairs : f[p] = x
    <3>1. <<x.voter, x.vote>> \in Pairs /\ f[<<x.voter, x.vote>>] = x
      BY DEF Vote
    <3> QED
      BY <3>1
  <2> QED
    BY <2>1, <2>2 DEF Surjection
<1> QED
  BY <1>2, <1>3, FS_Surjection

\* More cast votes never mean fewer approvals.
LEMMA ApprovesGrow ==
  ASSUME FiniteCommittee, NEW V \in SUBSET Vote, NEW W \in SUBSET V
  PROVE  /\ Cardinality({x \in W : x.vote = "approve"}) \in Nat
         /\ Cardinality({x \in V : x.vote = "approve"}) \in Nat
         /\ Cardinality({x \in W : x.vote = "approve"})
              <= Cardinality({x \in V : x.vote = "approve"})
         /\ Cardinality(V) \in Nat
<1>1. IsFiniteSet(V) /\ IsFiniteSet({x \in V : x.vote = "approve"})
  BY VoteFinite, FS_Subset, {x \in V : x.vote = "approve"} \in SUBSET Vote
<1>2. {x \in W : x.vote = "approve"} \in SUBSET {x \in V : x.vote = "approve"}
  OBVIOUS
<1> QED
  BY <1>1, <1>2, FS_Subset, FS_CardinalityType

\* A step of one request moves no other in or out of the counted sets.
LEMMA OneRequestMoves ==
  ASSUME FiniteCommittee, NEW r \in Requests, NEW d \in Disputes,
         \A q \in Requests : q # r => of'[q] = of[q] /\ disputePc'[q] = disputePc[q]
  PROVE  /\ Cardinality(Deciding(d)) \in Nat /\ Cardinality(Deciding(d)') \in Nat
         /\ Cardinality(Correcting(d)) \in Nat /\ Cardinality(Correcting(d)') \in Nat
         /\ Cardinality(Deciding(d)') <= Cardinality(Requests)
         /\ Cardinality(Requests) \in Nat
         /\ r \notin Deciding(d)' =>
              Cardinality(Deciding(d)') = Cardinality(Deciding(d)) - (IF r \in Deciding(d) THEN 1 ELSE 0)
         /\ r \in Deciding(d) /\ r \in Deciding(d)' => Deciding(d)' = Deciding(d)
         /\ r \in Correcting(d)' /\ r \notin Correcting(d) =>
              Cardinality(Correcting(d)') = Cardinality(Correcting(d)) + 1
         /\ r \notin Correcting(d)' =>
              Cardinality(Correcting(d)') = Cardinality(Correcting(d)) - (IF r \in Correcting(d) THEN 1 ELSE 0)
<1>1. Deciding(d) \in SUBSET Requests /\ Deciding(d)' \in SUBSET Requests
      /\ Correcting(d) \in SUBSET Requests /\ Correcting(d)' \in SUBSET Requests
  BY DEF Deciding, Correcting
<1>2. IsFiniteSet(Deciding(d)) /\ IsFiniteSet(Deciding(d)')
      /\ IsFiniteSet(Correcting(d)) /\ IsFiniteSet(Correcting(d)')
      /\ Cardinality(Deciding(d)') <= Cardinality(Requests)
  BY <1>1, FS_Subset DEF FiniteCommittee
<1>3. r \notin Deciding(d)' => Deciding(d)' = Deciding(d) \ {r}
  BY DEF Deciding
<1>4. r \in Deciding(d) /\ r \in Deciding(d)' => Deciding(d)' = Deciding(d)
  BY DEF Deciding
<1>5. r \in Correcting(d)' => Correcting(d)' = Correcting(d) \cup {r}
  BY DEF Correcting
<1>6. r \notin Correcting(d)' => Correcting(d)' = Correcting(d) \ {r}
  BY DEF Correcting
<1>7. /\ Cardinality(Deciding(d)) \in Nat /\ Cardinality(Deciding(d)') \in Nat
      /\ Cardinality(Correcting(d)) \in Nat /\ Cardinality(Correcting(d)') \in Nat
      /\ Cardinality(Requests) \in Nat
  BY <1>2, FS_CardinalityType DEF FiniteCommittee
<1>8. Cardinality(Deciding(d) \ {r}) = Cardinality(Deciding(d)) - (IF r \in Deciding(d) THEN 1 ELSE 0)
  <2>1. Cardinality(Deciding(d) \ {r})
          = IF r \in Deciding(d) THEN Cardinality(Deciding(d)) - 1 ELSE Cardinality(Deciding(d))
    BY <1>2, FS_RemoveElement
  <2> QED
    BY <1>7, <2>1
<1>9. Cardinality(Correcting(d) \ {r}) = Cardinality(Correcting(d)) - (IF r \in Correcting(d) THEN 1 ELSE 0)
  <2>1. Cardinality(Correcting(d) \ {r})
          = IF r \in Correcting(d) THEN Cardinality(Correcting(d)) - 1 ELSE Cardinality(Correcting(d))
    BY <1>2, FS_RemoveElement
  <2> QED
    BY <1>7, <2>1
<1>10. r \notin Correcting(d) => Cardinality(Correcting(d) \cup {r}) = Cardinality(Correcting(d)) + 1
  BY <1>2, <1>7, FS_AddElement
<1> QED
  BY <1>2, <1>3, <1>4, <1>5, <1>6, <1>7, <1>8, <1>9, <1>10

LEMMA InitDispute == ASSUME FiniteCommittee, DisputeInit PROVE DisputeIInv
<1> USE DEF DisputeInit
<1>1. DisputeTypes /\ VotesOnce /\ MineIsCast
  BY DEF DisputeTypes, DisputeTypeOK, Active, VotesOnce, OncePer, MineIsCast, Resolved, Vote
<1>2. ApprovedBySupermajority /\ ApprovedIsOwed
  BY DEF ApprovedBySupermajority, ApprovedIsOwed
<1>3. ASSUME NEW d \in Disputes PROVE Deciding(d) = {} /\ Correcting(d) = {}
  BY DEF Deciding, Correcting
<1>4. Cardinality(Requests) \in Nat /\ Cardinality({}) = 0
  BY FS_CardinalityType, FS_EmptySet DEF FiniteCommittee
<1>5. \A d \in Disputes : Cardinality(Deciding(d)) = 0 /\ Cardinality(Correcting(d)) = 0
  BY <1>3, <1>4
<1>6. OverridesCounted
  BY <1>4, <1>5 DEF OverridesCounted
<1>7. CorrectionsCounted
  BY <1>5 DEF CorrectionsCounted
<1> QED
  BY <1>1, <1>2, <1>6, <1>7 DEF DisputeIInv

\* Nothing is counted where neither requests nor the counters move.
LEMMA CountsUnchanged ==
  ASSUME DisputeIInv, UNCHANGED <<disputePc, of, disputeStatus, overrides, corrections>>
  PROVE  OverridesCounted' /\ CorrectionsCounted'
<1>1. \A d : Deciding(d)' = Deciding(d) /\ Correcting(d)' = Correcting(d)
  BY DEF Deciding, Correcting
<1> QED
  BY <1>1 DEF DisputeIInv, OverridesCounted, CorrectionsCounted

\* submit_dispute: a request without a dispute begins or ends.
LEMMA SubmitIInv ==
  ASSUME FiniteCommittee, DisputeIInv, NEW r \in Requests,
         SubmitCheck(r) \/ \E d \in Disputes : SubmitInsert(r, d)
  PROVE  DisputeIInv'
<1> USE DEF DisputeIInv, SubmitCheck, SubmitInsert, Step, Return, tables, InitialStatus
<1>1a. DisputeTypes'
  <2>1. CASE SubmitCheck(r)
    BY <2>1 DEF DisputeTypes, DisputeTypeOK, Active
  <2>2. ASSUME NEW d \in Disputes, SubmitInsert(r, d) PROVE DisputeTypes'
    <3>1. DisputeTypeOK'
      BY <2>2 DEF DisputeTypes, DisputeTypeOK, Vote
    <3>2. \A q \in Requests : Active(q)' => Active(q) /\ of'[q] = of[q]
      BY <2>2 DEF DisputeTypes, DisputeTypeOK, Active
    <3> QED
      BY <3>1, <3>2 DEF DisputeTypes
  <2> QED
    BY <2>1, <2>2
<1>1b. VotesOnce'
  BY DEF DisputeTypes, DisputeTypeOK, VotesOnce, OncePer
<1>1c. MineIsCast'
  BY DEF DisputeTypes, DisputeTypeOK, MineIsCast
<1>2. ApprovedBySupermajority'
  BY DEF ApprovedBySupermajority, DisputeTypes, DisputeTypeOK
<1>3. ApprovedIsOwed'
  BY DEF ApprovedIsOwed, DisputeTypes, DisputeTypeOK
<1>4. ASSUME NEW d \in Disputes PROVE Deciding(d)' = Deciding(d) /\ Correcting(d)' = Correcting(d)
  BY DEF Deciding, Correcting, DisputeTypes, DisputeTypeOK
<1>5. \A d \in Disputes : /\ Cardinality(Deciding(d)') = Cardinality(Deciding(d))
                          /\ Cardinality(Correcting(d)') = Cardinality(Correcting(d))
  BY <1>4
<1>6. \A q \in Requests : disputePc'[q] = "approving" =>
        disputePc[q] = "approving" /\ of'[q] = of[q] /\ of[q] \in Disputes
  BY DEF DisputeTypes, DisputeTypeOK, Active
<1>7. \A d \in Disputes : disputeStatus'[d] \in Resolved <=> disputeStatus[d] \in Resolved
  BY DEF DisputeTypes, DisputeTypeOK, Resolved
<1>8. OverridesCounted'
  BY <1>5, <1>6, <1>7 DEF OverridesCounted
<1>9. CorrectionsCounted'
  BY <1>5 DEF CorrectionsCounted
<1> QED
  BY <1>1a, <1>1b, <1>1c, <1>2, <1>3, <1>8, <1>9

\* cast_vote reads the dispute.
LEMMA LoadDisputeIInv ==
  ASSUME FiniteCommittee, DisputeIInv, NEW r \in Requests, NEW d \in Disputes, NEW x \in Vote,
         LoadDispute(r, d, x)
  PROVE  DisputeIInv'
<1> USE DEF DisputeIInv, LoadDispute, MayVote, tables
<1>1. DisputeTypes' /\ MineIsCast'
  BY DEF DisputeTypes, DisputeTypeOK, Active, MineIsCast
<1>2. VotesOnce'
  BY DEF VotesOnce, OncePer, DisputeTypes, DisputeTypeOK
<1>3. ApprovedBySupermajority'
  BY DEF ApprovedBySupermajority
<1>4. ApprovedIsOwed'
  BY DEF ApprovedIsOwed, DisputeTypes, DisputeTypeOK
<1>5. r \in Deciding(d)' /\ r \notin Deciding(d) 
      /\ (\A e \in Disputes : r \notin Correcting(e)')
      /\ \A e \in Disputes : r \notin Correcting(e) /\ (e # d => r \notin Deciding(e)' \cup Deciding(e))
  BY DEF Deciding, Correcting, DisputeTypes, DisputeTypeOK
<1>6. \A q \in Requests : q # r => of'[q] = of[q] /\ disputePc'[q] = disputePc[q]
  BY DEF DisputeTypes, DisputeTypeOK
<1>7. OverridesCounted'
  <2>1. \A e \in Disputes : e # d => Cardinality(Deciding(e)') = Cardinality(Deciding(e))
    BY <1>5, <1>6, OneRequestMoves
  <2>2. Cardinality(Deciding(d)') <= Cardinality(Requests) /\ overrides[d] = 0
        /\ Cardinality(Deciding(d)') \in Nat /\ Cardinality(Requests) \in Nat
    BY <1>6, OneRequestMoves DEF OverridesCounted, Resolved
  <2>3. \A e \in Disputes : overrides[e] + Cardinality(Deciding(e)') <= Cardinality(Requests)
    BY <2>1, <2>2 DEF OverridesCounted
  <2> QED
    BY <2>3 DEF OverridesCounted, DisputeTypes, DisputeTypeOK
<1>8. CorrectionsCounted'
  <2>1. \A e \in Disputes : Cardinality(Correcting(e)') = Cardinality(Correcting(e))
    BY <1>5, <1>6, OneRequestMoves
  <2> QED
    BY <2>1 DEF CorrectionsCounted
<1> QED
  BY <1>1, <1>2, <1>3, <1>4, <1>7, <1>8

\* A request that goes on to another step of the same dispute stays counted.
LEMMA StaysDeciding ==
  ASSUME NEW r \in Requests, DisputeTypes, disputePc[r] \in {"loaded", "persisted"},
         NEW to \in {"persisted", "approving"},
         disputePc' = [disputePc EXCEPT ![r] = to], of' = of
  PROVE  \A d \in Disputes : Deciding(d)' = Deciding(d) /\ Correcting(d)' = Correcting(d)
BY DEF DisputeTypes, DisputeTypeOK, Deciding, Correcting

\* The vote list is written back.
LEMMA PersistVoteIInv ==
  ASSUME FiniteCommittee, DisputeIInv, NEW r \in Requests, PersistVote(r)
  PROVE  DisputeIInv'
<1> USE DEF DisputeIInv, PersistVote, Step
<1>1. of[r] \in Disputes /\ cast[of[r]] \in SUBSET Vote /\ mine[r] \in SUBSET Vote
  BY DEF DisputeTypes, DisputeTypeOK, Active
<1>2. DisputeTypes'
  BY <1>1 DEF DisputeTypes, DisputeTypeOK, Active
<1>3. VotesOnce'
  BY <1>1 DEF VotesOnce, DisputeTypes, DisputeTypeOK
<1>4. MineIsCast'
  BY <1>1 DEF MineIsCast, DisputeTypes, DisputeTypeOK, Active
<1>5. \A d \in Disputes : cast[d] \subseteq cast'[d] /\ cast'[d] \in SUBSET Vote
  BY <1>1 DEF DisputeTypes, DisputeTypeOK
<1>6. ApprovedBySupermajority'
  <2> SUFFICES ASSUME NEW d \in Disputes, disputeStatus[d] = "approved"
               PROVE  Cardinality({x \in cast'[d] : x.vote = "approve"}) * 3 >= 2 * CommitteeQuorum
    BY DEF ApprovedBySupermajority
  <2> DEFINE n == Cardinality({x \in cast[d] : x.vote = "approve"})
             m == Cardinality({x \in cast'[d] : x.vote = "approve"})
  <2>1. n \in Nat /\ m \in Nat /\ n <= m
    BY <1>5, ApprovesGrow
  <2>2. n * 3 >= 2 * CommitteeQuorum
    BY DEF ApprovedBySupermajority
  <2> HIDE DEF n, m
  <2>3. m * 3 >= 2 * CommitteeQuorum
    BY <2>1, <2>2 DEF FiniteCommittee
  <2> QED
    BY <2>3 DEF m
<1>7. ApprovedIsOwed'
  BY DEF ApprovedIsOwed, DisputeTypes, DisputeTypeOK
<1>8. \A d \in Disputes : Deciding(d)' = Deciding(d) /\ Correcting(d)' = Correcting(d)
  BY StaysDeciding
<1>9. OverridesCounted' /\ CorrectionsCounted'
  BY <1>8 DEF OverridesCounted, CorrectionsCounted, DisputeTypes, DisputeTypeOK
<1> QED
  BY <1>2, <1>3, <1>4, <1>6, <1>7, <1>9

\* What a request decides is a disjunct of its own.
DecideApproves(r) ==
    /\ Carried(Approves(mine[r]), mine[r])
    /\ disputeStatus' = [disputeStatus EXCEPT ![of[r]] = "approved"]
    /\ votes' = [votes EXCEPT ![of[r]] = mine[r]]
    /\ Step(r, "approving")

DecideEnds(r) ==
    /\ \/ /\ disputeStatus' = [disputeStatus EXCEPT ![of[r]] = "rejected"]
          /\ votes' = [votes EXCEPT ![of[r]] = mine[r]]
       \/ UNCHANGED <<disputeStatus, votes>>
    /\ Return(r)

LEMMA DecideApprovesIInv ==
  ASSUME FiniteCommittee, DisputeIInv, NEW r \in Requests, disputePc[r] = "persisted",
         DecideApproves(r), UNCHANGED <<recent, overrides, corrections, cast, orphaned>>
  PROVE  DisputeIInv'
<1> USE DEF DisputeIInv, DecideApproves, Step
<1>1. /\ of[r] \in Disputes /\ mine[r] \in SUBSET Vote /\ cast[of[r]] \in SUBSET Vote
      /\ mine[r] \in SUBSET cast[of[r]]
  BY DEF DisputeTypes, DisputeTypeOK, Active, MineIsCast
<1>2. DisputeTypes'
  BY <1>1 DEF DisputeTypes, DisputeTypeOK, Active, Resolved
<1>3. VotesOnce'
  BY <1>1 DEF VotesOnce, DisputeTypes, DisputeTypeOK
<1>4. MineIsCast'
  BY DEF MineIsCast, DisputeTypes, DisputeTypeOK
<1>5. ApprovedBySupermajority'
  <2> DEFINE n == Approves(mine[r])
             m == Cardinality({x \in cast[of[r]] : x.vote = "approve"})
             k == Cardinality(mine[r])
  <2>1. n \in Nat /\ m \in Nat /\ k \in Nat /\ n <= m
    <3>1. n \in Nat /\ m \in Nat /\ n <= m
      BY <1>1, ApprovesGrow DEF Approves
    <3>2. k \in Nat
      BY <1>1, ApprovesGrow, mine[r] \in SUBSET mine[r]
    <3> QED
      BY <3>1, <3>2
  <2>2. k >= CommitteeQuorum /\ n * 3 >= 2 * k
    BY DEF Carried
  <2> HIDE DEF n, m, k
  <2>3. m * 3 >= 2 * CommitteeQuorum
    BY <2>1, <2>2 DEF FiniteCommittee
  <2>4. Cardinality({x \in cast[of[r]] : x.vote = "approve"}) * 3 >= 2 * CommitteeQuorum
    BY <2>3 DEF m
  <2>5. \A d \in Disputes : d # of[r] => disputeStatus'[d] = disputeStatus[d]
    BY DEF DisputeTypes, DisputeTypeOK
  <2> QED
    BY <2>4, <2>5 DEF ApprovedBySupermajority
<1>6. ApprovedIsOwed'
  BY <1>1 DEF ApprovedIsOwed, DisputeTypes, DisputeTypeOK
<1>7. \A d \in Disputes : /\ Cardinality(Deciding(d)') = Cardinality(Deciding(d))
                          /\ Cardinality(Correcting(d)') = Cardinality(Correcting(d))
  BY StaysDeciding
<1>8. \A d \in Disputes : disputeStatus'[d] \notin Resolved => disputeStatus[d] \notin Resolved
  BY <1>1 DEF DisputeTypes, DisputeTypeOK, Resolved
<1>9. \A q \in Requests : disputePc'[q] = "approving" => disputeStatus'[of[q]] \in Resolved
  BY <1>1 DEF DisputeTypes, DisputeTypeOK, OverridesCounted, Resolved, Active
<1>10. OverridesCounted'
  BY <1>7, <1>8, <1>9 DEF OverridesCounted
<1>11. CorrectionsCounted'
  BY <1>7 DEF CorrectionsCounted
<1> QED
  BY <1>2, <1>3, <1>4, <1>5, <1>6, <1>10, <1>11

\* A request that returns is counted no more.
LEMMA ReturnCounts ==
  ASSUME FiniteCommittee, DisputeIInv, NEW r \in Requests, Return(r),
         NEW d \in Disputes
  PROVE  /\ Cardinality(Deciding(d)) \in Nat /\ Cardinality(Deciding(d)') \in Nat
         /\ Cardinality(Correcting(d)) \in Nat /\ Cardinality(Correcting(d)') \in Nat
         /\ Cardinality(Deciding(d)') <= Cardinality(Deciding(d))
         /\ Cardinality(Correcting(d)') <= Cardinality(Correcting(d))
         /\ r \in Correcting(d) => Cardinality(Correcting(d)') = Cardinality(Correcting(d)) - 1
<1>1. \A q \in Requests : q # r => of'[q] = of[q] /\ disputePc'[q] = disputePc[q]
  BY DEF DisputeIInv, DisputeTypes, DisputeTypeOK, Return
<1>2. r \notin Deciding(d)' /\ r \notin Correcting(d)'
  BY DEF DisputeIInv, DisputeTypes, DisputeTypeOK, Return, Deciding, Correcting
<1> QED
  BY <1>1, <1>2, OneRequestMoves

\* Nor does it owe anything, or have votes.
LEMMA ReturnKeeps ==
  ASSUME FiniteCommittee, DisputeIInv, NEW r \in Requests, Return(r)
  PROVE  /\ \A q \in Requests : disputePc'[q] # "idle" =>
               q # r /\ disputePc'[q] = disputePc[q] /\ of'[q] = of[q] /\ mine'[q] = mine[q]
         /\ \A q \in Requests : q # r =>
               disputePc'[q] = disputePc[q] /\ of'[q] = of[q] /\ mine'[q] = mine[q]
         /\ \A q \in Requests : OncePer(mine'[q])
         /\ disputePc' \in [Requests -> {"idle", "submitting", "loaded", "persisted",
                                         "approving", "correcting"}]
         /\ of' \in [Requests -> Disputes \cup {NoDispute}]
         /\ mine' \in [Requests -> SUBSET Vote]
<1> USE DEF DisputeIInv, DisputeTypes, DisputeTypeOK, Return
<1>1. \A q \in Requests : q # r =>
         disputePc'[q] = disputePc[q] /\ of'[q] = of[q] /\ mine'[q] = mine[q]
  OBVIOUS
<1>2. disputePc'[r] = "idle" /\ mine'[r] = {}
  OBVIOUS
<1>3. \A q \in Requests : OncePer(mine'[q])
  BY <1>1, <1>2 DEF VotesOnce, OncePer
<1>4. /\ disputePc' \in [Requests -> {"idle", "submitting", "loaded", "persisted",
                                      "approving", "correcting"}]
      /\ of' \in [Requests -> Disputes \cup {NoDispute}]
      /\ mine' \in [Requests -> SUBSET Vote]
  OBVIOUS
<1> QED
  BY <1>1, <1>2, <1>3, <1>4

LEMMA DecideEndsIInv ==
  ASSUME FiniteCommittee, DisputeIInv, NEW r \in Requests, disputePc[r] = "persisted",
         DecideEnds(r), UNCHANGED <<recent, overrides, corrections, cast, orphaned>>
  PROVE  DisputeIInv'
<1> USE DEF DisputeIInv, DecideEnds
<1> Return(r)
  OBVIOUS
<1>1. of[r] \in Disputes /\ mine[r] \in SUBSET Vote /\ OncePer(mine[r])
  BY DEF DisputeTypes, DisputeTypeOK, Active, VotesOnce
<1>2. /\ disputeStatus' \in [Disputes -> {"none", "pending"} \cup Resolved]
      /\ votes' \in [Disputes -> SUBSET Vote]
      /\ \A d \in Disputes : OncePer(votes'[d])
      /\ \A d \in Disputes : disputeStatus'[d] = disputeStatus[d] \/ disputeStatus'[d] = "rejected"
  BY <1>1 DEF DisputeTypes, DisputeTypeOK, VotesOnce, Resolved
<1>3. DisputeTypes'
  BY <1>2, ReturnKeeps DEF DisputeTypes, DisputeTypeOK, Active
<1>4. VotesOnce'
  BY <1>2, ReturnKeeps DEF VotesOnce
<1>5. MineIsCast'
  BY ReturnKeeps DEF MineIsCast
<1>6. ApprovedBySupermajority'
  BY <1>2 DEF ApprovedBySupermajority
<1>7. ApprovedIsOwed'
  BY <1>2, ReturnKeeps DEF ApprovedIsOwed
<1>8. Cardinality(Requests) \in Nat
  BY FS_CardinalityType DEF FiniteCommittee
<1>9. OverridesCounted'
  <2>1. \A q \in Requests : disputePc'[q] = "approving" => disputeStatus'[of'[q]] \in Resolved
    BY <1>2, ReturnKeeps DEF OverridesCounted, Resolved, DisputeTypes, Active
  <2>2. \A d \in Disputes : disputeStatus'[d] \notin Resolved => overrides[d] = 0
    BY <1>2 DEF OverridesCounted, Resolved
  <2>3. ASSUME NEW d \in Disputes
        PROVE  overrides[d] + Cardinality(Deciding(d)') <= Cardinality(Requests)
    BY <1>8, ReturnCounts DEF OverridesCounted, DisputeTypes, DisputeTypeOK
  <2> QED
    BY <2>1, <2>2, <2>3 DEF OverridesCounted
<1>10. CorrectionsCounted'
  <2>1. ASSUME NEW d \in Disputes
        PROVE  corrections[d] + Cardinality(Correcting(d)') <= overrides[d]
    BY ReturnCounts DEF CorrectionsCounted, DisputeTypes, DisputeTypeOK
  <2> QED
    BY <2>1 DEF CorrectionsCounted
<1> QED
  BY <1>3, <1>4, <1>5, <1>6, <1>7, <1>9, <1>10

LEMMA DecideIInv ==
  ASSUME FiniteCommittee, DisputeIInv, NEW r \in Requests, Decide(r)
  PROVE  DisputeIInv'
<1>1. disputePc[r] = "persisted" /\ UNCHANGED <<recent, overrides, corrections, cast, orphaned>>
  BY DEF Decide
<1>2. DecideApproves(r) \/ DecideEnds(r)
  BY DEF Decide, DecideApproves, DecideEnds
<1> QED
  BY <1>1, <1>2, DecideApprovesIInv, DecideEndsIInv

\* The override is written: the request owes a correction now.
LEMMA ApplyOverrideIInv ==
  ASSUME FiniteCommittee, DisputeIInv, NEW r \in Requests, ApplyOverride(r)
  PROVE  DisputeIInv'
<1> USE DEF DisputeIInv, ApplyOverride, Step
<1> DEFINE d == of[r]
<1>1. d \in Disputes /\ disputeStatus[d] \in Resolved /\ overrides[d] \in Nat
  BY DEF DisputeTypes, DisputeTypeOK, Active, OverridesCounted
<1>2. /\ overrides'[d] = overrides[d] + 1
      /\ \A e \in Disputes : e # d => overrides'[e] = overrides[e]
      /\ overrides' \in [Disputes -> Nat]
  BY <1>1 DEF DisputeTypes, DisputeTypeOK
<1>3. /\ disputePc'[r] = "correcting" /\ of' = of
      /\ \A q \in Requests : q # r => disputePc'[q] = disputePc[q]
  BY DEF DisputeTypes, DisputeTypeOK
<1>4. DisputeTypes'
  BY <1>1, <1>2, <1>3 DEF DisputeTypes, DisputeTypeOK, Active
<1>5. VotesOnce' /\ ApprovedBySupermajority'
  BY DEF VotesOnce, ApprovedBySupermajority
<1>6. MineIsCast'
  BY <1>3 DEF MineIsCast
<1>7. ApprovedIsOwed'
  BY <1>1, <1>2, <1>3 DEF ApprovedIsOwed, DisputeTypes, DisputeTypeOK
<1>8. /\ r \in Deciding(d) /\ r \notin Deciding(d)'
      /\ r \notin Correcting(d) /\ r \in Correcting(d)'
      /\ \A e \in Disputes : e # d =>
            /\ r \notin Deciding(e) /\ r \notin Deciding(e)'
            /\ r \notin Correcting(e) /\ r \notin Correcting(e)'
  BY <1>3 DEF Deciding, Correcting
<1>9. /\ Cardinality(Deciding(d)') = Cardinality(Deciding(d)) - 1
      /\ Cardinality(Correcting(d)') = Cardinality(Correcting(d)) + 1
      /\ Cardinality(Deciding(d)) \in Nat /\ Cardinality(Correcting(d)) \in Nat
      /\ Cardinality(Requests) \in Nat
  BY <1>1, <1>3, <1>8, OneRequestMoves
<1>10. \A e \in Disputes : e # d =>
          /\ Cardinality(Deciding(e)') = Cardinality(Deciding(e))
          /\ Cardinality(Correcting(e)') = Cardinality(Correcting(e))
  BY <1>3, <1>8, OneRequestMoves
<1>11. OverridesCounted'
  <2>1. \A e \in Disputes : overrides'[e] + Cardinality(Deciding(e)') <= Cardinality(Requests)
    <3>1. overrides'[d] + Cardinality(Deciding(d)') <= Cardinality(Requests)
      BY <1>1, <1>2, <1>9 DEF OverridesCounted
    <3> QED
      BY <1>2, <1>10, <3>1 DEF OverridesCounted
  <2>2. \A q \in Requests : disputePc'[q] = "approving" => disputeStatus'[of'[q]] \in Resolved
    BY <1>3 DEF OverridesCounted
  <2> QED
    BY <1>1, <1>2, <2>1, <2>2 DEF OverridesCounted
<1>12. CorrectionsCounted'
  <2>1. corrections[d] + Cardinality(Correcting(d)') <= overrides'[d]
    BY <1>1, <1>2, <1>9 DEF CorrectionsCounted, DisputeTypes, DisputeTypeOK
  <2> QED
    BY <1>2, <1>10, <2>1 DEF CorrectionsCounted
<1> QED
  BY <1>4, <1>5, <1>6, <1>7, <1>11, <1>12

\* The request that added an override adds its correction and is done.
LEMMA AddCorrectionIInv ==
  ASSUME FiniteCommittee, DisputeIInv, NEW r \in Requests, AddCorrection(r)
  PROVE  DisputeIInv'
<1> USE DEF DisputeIInv, AddCorrection
<1> Return(r)
  OBVIOUS
<1>1. PICK d \in Disputes : d = of[r] /\ r \in Correcting(d)
  BY DEF DisputeTypes, Active, Correcting
<1>2. /\ corrections'[d] = corrections[d] + 1 /\ corrections[d] \in Nat /\ overrides[d] \in Nat
      /\ \A e \in Disputes : e # d => corrections'[e] = corrections[e]
      /\ corrections' \in [Disputes -> Nat]
  BY <1>1 DEF DisputeTypes, DisputeTypeOK
<1>3. DisputeTypes'
  BY <1>2, ReturnKeeps DEF DisputeTypes, DisputeTypeOK, Active
<1>4. VotesOnce' /\ ApprovedBySupermajority'
  BY ReturnKeeps DEF VotesOnce, ApprovedBySupermajority
<1>5. MineIsCast'
  BY ReturnKeeps DEF MineIsCast
<1>6. ApprovedIsOwed'
  BY ReturnKeeps DEF ApprovedIsOwed
<1>7. Cardinality(Requests) \in Nat
  BY FS_CardinalityType DEF FiniteCommittee
<1>8. OverridesCounted'
  <2>1. \A q \in Requests : disputePc'[q] = "approving" => disputeStatus'[of'[q]] \in Resolved
    BY ReturnKeeps DEF OverridesCounted
  <2>2. ASSUME NEW e \in Disputes
        PROVE  overrides[e] + Cardinality(Deciding(e)') <= Cardinality(Requests)
    BY <1>7, ReturnCounts DEF OverridesCounted, DisputeTypes, DisputeTypeOK
  <2> QED
    BY <2>1, <2>2 DEF OverridesCounted
<1>9. CorrectionsCounted'
  <2>1. ASSUME NEW e \in Disputes, e # d
        PROVE  corrections'[e] + Cardinality(Correcting(e)') <= overrides[e]
    <3>1. /\ Cardinality(Correcting(e)) \in Nat /\ Cardinality(Correcting(e)') \in Nat
          /\ Cardinality(Correcting(e)') <= Cardinality(Correcting(e))
      BY ReturnCounts
    <3> QED
      BY <1>2, <2>1, <3>1 DEF CorrectionsCounted, DisputeTypes, DisputeTypeOK
  <2>2. corrections'[d] + Cardinality(Correcting(d)') <= overrides[d]
    <3>1. /\ Cardinality(Correcting(d)) \in Nat
          /\ Cardinality(Correcting(d)') = Cardinality(Correcting(d)) - 1
      BY <1>1, ReturnCounts
    <3> QED
      BY <1>1, <1>2, <3>1 DEF CorrectionsCounted
  <2> QED
    BY <2>1, <2>2 DEF CorrectionsCounted
<1> QED
  BY <1>3, <1>4, <1>5, <1>6, <1>8, <1>9

\* A request dies; if it had approved, the dispute is nobody's obligation.
LEMMA DisputeCrashIInv ==
  ASSUME FiniteCommittee, DisputeIInv, NEW r \in Requests, DisputeCrash(r)
  PROVE  DisputeIInv'
<1> USE DEF DisputeIInv, DisputeCrash, tables
<1> Return(r)
  OBVIOUS
<1>1. orphaned' \in SUBSET Disputes /\ orphaned \subseteq orphaned'
      /\ (disputePc[r] = "approving" => of[r] \in orphaned')
  BY DEF DisputeTypes, DisputeTypeOK, Active
<1>2. DisputeTypes'
  BY <1>1, ReturnKeeps DEF DisputeTypes, DisputeTypeOK, Active
<1>3. VotesOnce' /\ ApprovedBySupermajority'
  BY ReturnKeeps DEF VotesOnce, ApprovedBySupermajority
<1>4. MineIsCast'
  BY ReturnKeeps DEF MineIsCast
<1>5. ApprovedIsOwed'
  BY <1>1, ReturnKeeps DEF ApprovedIsOwed
<1>6. Cardinality(Requests) \in Nat
  BY FS_CardinalityType DEF FiniteCommittee
<1>7. OverridesCounted'
  <2>1. \A q \in Requests : disputePc'[q] = "approving" => disputeStatus'[of'[q]] \in Resolved
    BY ReturnKeeps DEF OverridesCounted
  <2>2. ASSUME NEW e \in Disputes
        PROVE  overrides[e] + Cardinality(Deciding(e)') <= Cardinality(Requests)
    BY <1>6, ReturnCounts DEF OverridesCounted, DisputeTypes, DisputeTypeOK
  <2> QED
    BY <2>1, <2>2 DEF OverridesCounted
<1>8. CorrectionsCounted'
  <2>1. ASSUME NEW e \in Disputes
        PROVE  corrections[e] + Cardinality(Correcting(e)') <= overrides[e]
    BY ReturnCounts DEF CorrectionsCounted, DisputeTypes, DisputeTypeOK
  <2> QED
    BY <2>1 DEF CorrectionsCounted
<1> QED
  BY <1>2, <1>3, <1>4, <1>5, <1>7, <1>8

LEMMA DisputeNextIInv ==
  ASSUME FiniteCommittee, DisputeIInv, [DisputeNext]_disputeVars
  PROVE  DisputeIInv'
<1>1. CASE \E r \in Requests : SubmitCheck(r) \/ \E d \in Disputes : SubmitInsert(r, d)
  BY <1>1, SubmitIInv
<1>2. CASE \E r \in Requests, d \in Disputes, x \in Vote : LoadDispute(r, d, x)
  BY <1>2, LoadDisputeIInv
<1>3. ASSUME NEW r \in Requests,
             \/ PersistVote(r) \/ Decide(r) \/ ApplyOverride(r) \/ AddCorrection(r)
             \/ DisputeCrash(r)
      PROVE  DisputeIInv'
  BY <1>3, PersistVoteIInv, DecideIInv, ApplyOverrideIInv, AddCorrectionIInv, DisputeCrashIInv
<1>4. CASE SevenDaysPass \/ UNCHANGED disputeVars
  <2>1. recent' \in BOOLEAN
        /\ UNCHANGED <<disputeStatus, votes, overrides, corrections, disputePc, of, mine, cast, orphaned>>
    BY <1>4 DEF SevenDaysPass, disputeVars, DisputeIInv, DisputeTypes, DisputeTypeOK
  <2>2. DisputeTypes' /\ VotesOnce' /\ MineIsCast'
    BY <2>1 DEF DisputeIInv, DisputeTypes, DisputeTypeOK, Active, VotesOnce, MineIsCast
  <2>3. ApprovedBySupermajority' /\ ApprovedIsOwed'
    BY <2>1 DEF DisputeIInv, ApprovedBySupermajority, ApprovedIsOwed
  <2> QED
    BY <2>1, <2>2, <2>3, CountsUnchanged DEF DisputeIInv
<1> QED
  BY <1>1, <1>2, <1>3, <1>4 DEF DisputeNext

LEMMA JustByIInv == ASSUME FiniteCommittee, DisputeIInv PROVE DisputesAreJust
<1>1. OneVotePerVoter
  BY DEF DisputeIInv, VotesOnce, OncePer, OneVotePerVoter
<1>2. \A d \in Disputes : /\ Cardinality(Deciding(d)) \in Nat /\ Cardinality(Correcting(d)) \in Nat
                          /\ overrides[d] \in Nat /\ corrections[d] \in Nat
  <2>1. \A d \in Disputes : Deciding(d) \in SUBSET Requests /\ Correcting(d) \in SUBSET Requests
    BY DEF Deciding, Correcting
  <2> QED
    BY <2>1, FS_Subset, FS_CardinalityType
    DEF FiniteCommittee, DisputeIInv, DisputeTypes, DisputeTypeOK
<1>3. Cardinality(Requests) \in Nat
  BY FS_CardinalityType DEF FiniteCommittee
<1>4. ObligationsBounded
  BY <1>2, <1>3 DEF DisputeIInv, OverridesCounted, ObligationsBounded
<1>5. CorrectionFollowsOverride
  BY <1>2 DEF DisputeIInv, CorrectionsCounted, CorrectionFollowsOverride
<1> QED
  BY <1>1, <1>4, <1>5 DEF DisputesAreJust, DisputeIInv, DisputeTypes

(* Disputes are just for any committee, quorum and number of concurrent     *)
(* requests (cast_vote): however lists are overwritten and requests die, no *)
(* voter counts twice, what is approved had two thirds of a quorum and is   *)
(* carried out or owed unless the approving request died, and overrides and *)
(* corrections are no more than the requests and the overrides.             *)
THEOREM DisputesAlwaysJust == ASSUME FiniteCommittee PROVE DisputeSpec => []DisputesAreJust
<1>1. DisputeInit => DisputeIInv
  BY InitDispute
<1>2. DisputeIInv /\ [DisputeNext]_disputeVars => DisputeIInv'
  BY DisputeNextIInv
<1>3. DisputeIInv => DisputesAreJust
  BY JustByIInv
<1> QED
  BY <1>1, <1>2, <1>3, PTL DEF DisputeSpec

-----------------------------------------------------------------------------
(* Publication.                                                            *)

\* A table of at least one row; any number of threads and scores, but finite.
FinitePipeline ==
    /\ IsFiniteSet(Threads) /\ IsFiniteSet(Scores)
    /\ MaxRows \in Nat \ {0} /\ ResetSeconds \in Nat /\ Threshold \in Nat

\* The ids that pruning leaves of D.
Kept(D) == {i \in D : Cardinality({j \in D : j > i}) < MaxRows}

LEMMA HasMin ==
  ASSUME NEW D, D \subseteq Nat, D # {}, IsFiniteSet(D)
  PROVE  \E i \in D : \A j \in D : i <= j
<1> DEFINE Below(i) == {j \in D : j < i}
           T == {Below(i) : i \in D}
           R == StrictSubsetOrdering(D)
<1>1. T \subseteq FiniteSubsetsOf(D) /\ T # {}
  <2>1. \A i \in D : Below(i) \in SUBSET D /\ IsFiniteSet(Below(i))
    BY FS_Subset
  <2> QED
    BY <2>1 DEF FiniteSubsetsOf
<1>2. PICK x \in T : \A y \in T : <<y, x>> \notin R
  <2>1. IsWellFoundedOn(R, FiniteSubsetsOf(D))
    BY FS_StrictSubsetOrderingWellFounded
  <2> HIDE DEF R, T
  <2> QED
    BY <1>1, <2>1, WFMin
<1>3. PICK i \in D : x = Below(i)
  BY <1>2
<1>4. ASSUME NEW j \in D, j < i
      PROVE  FALSE
  <2>1. Below(j) \in SUBSET D /\ Below(i) \in SUBSET D /\ Below(j) \subseteq Below(i)
    <3>1. \A k \in D : k < j => k < i
      <4>1. D \subseteq Int
        OBVIOUS
      <4> QED
        BY <1>4, <4>1
    <3> QED
      BY <3>1
  <2>2. j \in Below(i) /\ j \notin Below(j)
    BY <1>4
  <2>3. <<Below(j), Below(i)>> \in R
    BY <2>1, <2>2 DEF StrictSubsetOrdering
  <2> QED
    BY <1>2, <1>3, <2>3
<1> QED
  BY <1>4

\* With at most one row too many, pruning drops nothing or exactly the oldest.
LEMMA PruneKeeps ==
  ASSUME FinitePipeline, NEW D, D \subseteq Nat, IsFiniteSet(D), Cardinality(D) <= MaxRows + 1
  PROVE  /\ Cardinality(Kept(D)) <= MaxRows
         /\ Kept(D) = D \/ Cardinality(Kept(D)) = MaxRows
         /\ \A i \in D \ Kept(D), j \in Kept(D) : i < j
         /\ \A i \in D : (\A j \in D : j <= i) => i \in Kept(D)
<1> USE DEF FinitePipeline
<1>1. CASE D = {}
  BY <1>1, FS_EmptySet DEF Kept
<1>2. CASE D # {}
  <2>1. PICK m \in D : \A j \in D : m <= j
    BY <1>2, HasMin
  <2>2. IsFiniteSet(D \ {m}) /\ Cardinality(D \ {m}) = Cardinality(D) - 1 /\ Cardinality(D) \in Nat
    BY <2>1, FS_RemoveElement, FS_CardinalityType
  <2>3. ASSUME NEW i \in D, i # m
        PROVE  i \in Kept(D)
    <3>1. IsFiniteSet((D \ {m}) \ {i})
          /\ Cardinality((D \ {m}) \ {i}) = Cardinality(D) - 2
      <4>1. i \in D \ {m}
        BY <2>3
      <4>2. IsFiniteSet((D \ {m}) \ {i})
            /\ Cardinality((D \ {m}) \ {i}) = Cardinality(D \ {m}) - 1
        BY <2>2, <4>1, FS_RemoveElement
      <4> QED
        BY <2>2, <4>2
    <3>2. {j \in D : j > i} \subseteq (D \ {m}) \ {i}
      BY <2>1
    <3>3. /\ Cardinality({j \in D : j > i}) \in Nat
          /\ Cardinality({j \in D : j > i}) <= Cardinality((D \ {m}) \ {i})
      BY <3>1, <3>2, FS_Subset, FS_CardinalityType
    <3> QED
      BY <2>2, <3>1, <3>3 DEF Kept
  <2>4. {j \in D : j > m} = D \ {m}
    <3>1. \A j \in D : j > m <=> j # m
      BY <2>1
    <3> QED
      BY <3>1
  <2>5. CASE m \in Kept(D)
    <3>1. Kept(D) = D
      BY <2>3, <2>5 DEF Kept
    <3>2. Cardinality(D) <= MaxRows
      <4>1. Cardinality(D \ {m}) < MaxRows
        BY <2>4, <2>5 DEF Kept
      <4> QED
        BY <2>2, <4>1
    <3> QED
      BY <3>1, <3>2
  <2>6. CASE m \notin Kept(D)
    <3>1. Kept(D) = D \ {m}
      BY <2>3, <2>6 DEF Kept
    <3>2. Cardinality(D \ {m}) >= MaxRows
      BY <2>1, <2>2, <2>4, <2>6 DEF Kept
    <3>3. ASSUME NEW i \in D, \A j \in D : j <= i
          PROVE  i # m
      <4>1. SUFFICES ASSUME i = m PROVE FALSE
        OBVIOUS
      <4>2. D \ {m} = {}
        BY <2>1, <3>3, <4>1
      <4>3. Cardinality({}) = 0
        BY FS_EmptySet
      <4>4. Cardinality(D \ {m}) = 0
        BY <4>2, <4>3, Zenon
      <4> QED
        BY <3>2, <4>4
    <3>4. Cardinality(Kept(D)) = MaxRows
      BY <2>2, <3>1, <3>2
    <3>5. \A i \in D \ Kept(D), j \in Kept(D) : i < j
      <4>1. ASSUME NEW i \in D \ Kept(D), NEW j \in Kept(D)
            PROVE  i < j
        <5>1. i = m /\ j \in D /\ j # m
          BY <3>1, <4>1
        <5> QED
          BY <2>1, <5>1
      <4> QED
        BY <4>1
    <3> QED
      BY <3>1, <3>3, <3>4, <3>5
  <2> QED
    BY <2>5, <2>6
<1> QED
  BY <1>1, <1>2

LEMMA BeginCounts ==
  ASSUME NEW s, Begin(s)
  PROVE  calls' = [calls EXCEPT ![s] = @ + 1]
  BY DEF Begin

LEMMA MarkRowFacts ==
  ASSUME NEW rows, rows \in [DOMAIN rows -> Row], NEW id, NEW outcome \in {"replayed", "failed"}
  PROVE  LET marked == MarkRow(id, outcome, rows)
         IN  /\ DOMAIN marked = DOMAIN rows
             /\ marked \in [DOMAIN rows -> Row]
             /\ \A i \in DOMAIN rows :
                  /\ marked[i].score = rows[i].score
                  /\ marked[i].status = "replayed" =>
                       \/ rows[i].status = "replayed"
                       \/ i = id /\ outcome = "replayed"
  BY DEF MarkRow, Row

\* The ids after an insertion.
Ids == DOMAIN dlq \cup {lastId + 1}

LEMMA DeadLetterFacts ==
  ASSUME PublishTypeOK, NEW s \in Scores
  PROVE  LET rows == WriteDeadLetter(s, dlq)
         IN  /\ DOMAIN rows = Kept(Ids)
             /\ rows \in [Kept(Ids) -> Row]
             /\ \A i \in Kept(Ids) :
                  /\ i = lastId + 1 => rows[i] = [score |-> s, status |-> "pending"]
                  /\ i # lastId + 1 => i \in DOMAIN dlq /\ rows[i] = dlq[i]
<1> DEFINE new == [i \in Ids |-> IF i = lastId + 1 THEN [score |-> s, status |-> "pending"]
                                                   ELSE dlq[i]]
<1>1. WriteDeadLetter(s, dlq) = [i \in Kept(Ids) |-> new[i]]
  BY DEF WriteDeadLetter, Pruned, Kept, Ids
<1>2. Kept(Ids) \subseteq Ids
  BY DEF Kept
<1>3. \A i \in Ids : new[i] \in Row
  BY DEF PublishTypeOK, Row, Ids
<1> QED
  BY <1>1, <1>2, <1>3 DEF Ids

\* The item a thread is working on, and the rest of its list.
LEMMA CurTyped ==
  ASSUME PublishTypeOK, NEW w \in Threads, todo[w] # <<>>
  PROVE  /\ Cur(w) \in Item /\ Cur(w).score \in Scores
         /\ Cur(w) = todo[w][1] /\ 1 \in 1..Len(todo[w])
         /\ Tail(todo[w]) \in Seq(Item)
         /\ \A k \in 1..Len(Tail(todo[w])) :
              k + 1 \in 1..Len(todo[w]) /\ Tail(todo[w])[k] = todo[w][k + 1]
<1>1. todo[w] \in Seq(Item) /\ Len(todo[w]) \in Nat \ {0}
  BY DEF PublishTypeOK
<1>2. Cur(w) = todo[w][1] /\ todo[w][1] \in Item
  BY <1>1 DEF Cur
<1> QED
  BY <1>1, <1>2 DEF Item

\* Every action but Blocked at most marks the row of the item it ends.
LEMMA OnlyMarks ==
  ASSUME PublishTypeOK, NEW w \in Threads, Thread(w), ~Blocked(w)
  PROVE  /\ lastId' = lastId /\ blocked' = blocked
         /\ \/ dlq' = dlq
            \/ /\ todo[w] # <<>>
               /\ \E outcome \in {"replayed", "failed"} :
                    /\ dlq' = MarkRow(Cur(w).row, outcome, dlq)
                    /\ outcome = "replayed" => Succeeds(w)
<1>1. CASE StartBatch(w) \/ StartReplay(w) \/ DryRun(w) \/ StartQuorum(w) \/ Admitted(w)
  BY <1>1 DEF StartBatch, StartReplay, DryRun, StartQuorum, Admitted
<1>2. CASE LeaseRefused(w)
  BY <1>2 DEF LeaseRefused
<1>3. CASE Succeeds(w) \/ QuorumEnds(w)
  BY <1>3 DEF Succeeds, QuorumEnds, Finish, Trying, PublishTypeOK
<1>4. CASE AttemptFails(w)
  <2>1. lastId' = lastId /\ blocked' = blocked /\ todo[w] # <<>>
    BY <1>4 DEF AttemptFails, Trying, PublishTypeOK
  <2>2. dlq' = dlq \/ dlq' = MarkRow(Cur(w).row, "failed", dlq)
    BY <1>4 DEF AttemptFails, Finish
  <2> QED
    BY <2>1, <2>2
<1> QED
  BY <1>1, <1>2, <1>3, <1>4 DEF Thread

\* What a step does to the table.
TableStep ==
    /\ lastId' \in Nat /\ lastId' >= lastId
    /\ dlq' \in [DOMAIN dlq' -> Row]
    /\ DOMAIN dlq' \subseteq 1..lastId'
    /\ \A i \in DOMAIN dlq' : i <= lastId => i \in DOMAIN dlq /\ dlq'[i].score = dlq[i].score
    /\ Cardinality(DOMAIN dlq') <= MaxRows
    /\ DOMAIN dlq \subseteq DOMAIN dlq' \/ Cardinality(DOMAIN dlq') = MaxRows
    /\ lastId' # lastId => lastId' \in DOMAIN dlq'
    /\ \A i \in DOMAIN dlq \ DOMAIN dlq', j \in DOMAIN dlq' : i < j
    /\ blocked' \subseteq Scores
    /\ \A s \in blocked' : s \in blocked \/ \E i \in DOMAIN dlq' : dlq'[i].score = s

RowsBounded == Cardinality(DOMAIN dlq) <= MaxRows

LEMMA TableKept ==
  ASSUME PublishTypeOK, RowsBounded, lastId' = lastId, blocked' = blocked,
         dlq' \in [DOMAIN dlq -> Row],
         \A i \in DOMAIN dlq : dlq'[i].score = dlq[i].score
  PROVE  TableStep
<1>1. DOMAIN dlq' = DOMAIN dlq
  OBVIOUS
<1>2. Cardinality(DOMAIN dlq') = Cardinality(DOMAIN dlq)
  BY <1>1
<1> QED
  BY <1>1, <1>2 DEF TableStep, PublishTypeOK, RowsBounded

LEMMA BlockedTable ==
  ASSUME FinitePipeline, PublishTypeOK, RowsBounded, NEW w \in Threads, Blocked(w)
  PROVE  TableStep
<1> DEFINE s == Cur(w).score
           rows == WriteDeadLetter(s, dlq)
<1>1. /\ s \in Scores /\ lastId' = lastId + 1 /\ blocked' = blocked \cup {s}
      /\ dlq' = MarkRow(Cur(w).row, "failed", rows)
  BY CurTyped DEF Blocked
<1> HIDE DEF s
<1>2. /\ DOMAIN rows = Kept(Ids) /\ rows \in [Kept(Ids) -> Row]
      /\ \A i \in Kept(Ids) :
           /\ i = lastId + 1 => rows[i] = [score |-> s, status |-> "pending"]
           /\ i # lastId + 1 => i \in DOMAIN dlq /\ rows[i] = dlq[i]
  BY <1>1, DeadLetterFacts
<1> HIDE DEF rows
<1>3. /\ DOMAIN dlq' = Kept(Ids) /\ dlq' \in [Kept(Ids) -> Row]
      /\ \A i \in Kept(Ids) : dlq'[i].score = rows[i].score
  BY <1>1, <1>2, MarkRowFacts
<1>4. /\ Ids \subseteq Nat /\ IsFiniteSet(Ids) /\ Cardinality(Ids) <= MaxRows + 1
      /\ Ids \subseteq 1..lastId' /\ lastId + 1 \in Ids /\ lastId \in Nat
  <2>1. IsFiniteSet(DOMAIN dlq) /\ Cardinality(DOMAIN dlq) \in Nat
    BY FS_Interval, FS_Subset, FS_CardinalityType DEF PublishTypeOK
  <2>2. IsFiniteSet(Ids) /\ Cardinality(Ids) <= Cardinality(DOMAIN dlq) + 1
        /\ Cardinality(Ids) \in Nat
    <3>1. IsFiniteSet(DOMAIN dlq \cup {lastId + 1})
          /\ Cardinality(DOMAIN dlq \cup {lastId + 1}) =
               IF lastId + 1 \in DOMAIN dlq THEN Cardinality(DOMAIN dlq)
                                            ELSE Cardinality(DOMAIN dlq) + 1
      BY <2>1, FS_AddElement, Zenon
    <3> QED
      BY <2>1, <3>1 DEF Ids
  <2> QED
    BY <1>1, <2>1, <2>2 DEF Ids, PublishTypeOK, RowsBounded, FinitePipeline
<1>5. /\ Cardinality(Kept(Ids)) <= MaxRows
      /\ Kept(Ids) = Ids \/ Cardinality(Kept(Ids)) = MaxRows
      /\ \A i \in Ids \ Kept(Ids), j \in Kept(Ids) : i < j
      /\ \A i \in Ids : (\A j \in Ids : j <= i) => i \in Kept(Ids)
  BY <1>4, PruneKeeps
<1>6. lastId + 1 \in Kept(Ids)
  <2>1. \A j \in Ids : j <= lastId + 1
    BY <1>1, <1>4
  <2> QED
    BY <1>4, <1>5, <2>1
<1>7. Kept(Ids) \subseteq Ids /\ DOMAIN dlq \subseteq Ids
  BY DEF Kept, Ids
<1>8. \A i \in DOMAIN dlq' : i <= lastId => i \in DOMAIN dlq /\ dlq'[i].score = dlq[i].score
  BY <1>2, <1>3, <1>4
<1>9. blocked' \subseteq Scores /\ \A x \in blocked' : x \in blocked \/ dlq'[lastId + 1].score = x
  BY <1>1, <1>2, <1>3, <1>6 DEF PublishTypeOK
<1>10. Cardinality(DOMAIN dlq') <= MaxRows
       /\ (DOMAIN dlq \subseteq DOMAIN dlq' \/ Cardinality(DOMAIN dlq') = MaxRows)
  BY <1>3, <1>5, <1>7
<1>11. \A i \in DOMAIN dlq \ DOMAIN dlq', j \in DOMAIN dlq' : i < j
  BY <1>3, <1>5, <1>7
<1>12. lastId' \in Nat /\ lastId' >= lastId /\ DOMAIN dlq' \subseteq 1..lastId'
       /\ dlq' \in [DOMAIN dlq' -> Row] /\ lastId' \in DOMAIN dlq'
  <2>1. DOMAIN dlq' \subseteq 1..lastId'
    BY <1>3, <1>4, <1>7
  <2>2. lastId' \in Nat /\ lastId' >= lastId
    BY <1>1, <1>4
  <2> QED
    BY <1>1, <1>3, <1>6, <2>1, <2>2
<1> QED
  BY <1>1, <1>6, <1>3, <1>8, <1>9, <1>10, <1>11, <1>12 DEF TableStep

LEMMA NextTable ==
  ASSUME FinitePipeline, PublishTypeOK, RowsBounded, [PublishNext]_publishVars
  PROVE  TableStep
<1>1. ASSUME NEW w \in Threads, Thread(w)
      PROVE  TableStep
  <2>1. CASE Blocked(w)
    BY <2>1, BlockedTable
  <2>2. CASE ~Blocked(w) /\ dlq' = dlq
    BY <1>1, <2>2, OnlyMarks, TableKept DEF PublishTypeOK
  <2>3. ASSUME ~Blocked(w), todo[w] # <<>>, NEW outcome \in {"replayed", "failed"},
               dlq' = MarkRow(Cur(w).row, outcome, dlq)
        PROVE  TableStep
    <3>1. /\ dlq' \in [DOMAIN dlq -> Row]
          /\ \A i \in DOMAIN dlq : dlq'[i].score = dlq[i].score
      <4>1. dlq \in [DOMAIN dlq -> Row]
        BY DEF PublishTypeOK
      <4> QED
        BY <2>3, <4>1, MarkRowFacts
    <3> QED
      BY <1>1, <2>3, <3>1, OnlyMarks, TableKept
  <2> QED
    BY <1>1, <2>1, <2>2, <2>3, OnlyMarks
<1>2. CASE \/ \E s \in Scores : LimboResolves(s)
           \/ \E p \in Publishers : ResetCircuit(p)
           \/ PublishTick
           \/ UNCHANGED publishVars
  <2>1. dlq' = dlq /\ lastId' = lastId /\ blocked' = blocked
    BY <1>2 DEF LimboResolves, ResetCircuit, PublishTick, publishVars
  <2> QED
    BY <2>1, TableKept DEF PublishTypeOK
<1> QED
  BY <1>1, <1>2 DEF PublishNext

LEMMA ListsOfSets ==
  ASSUME NEW S, IsFiniteSet(S), NEW q \in SetToSeqs(S)
  PROVE  q \in Seq(S) /\ Len(q) \in Nat /\ DOMAIN q = 1..Len(q)
<1>1. Cardinality(S) \in Nat
  BY FS_CardinalityType
<1>2. q \in [1..Cardinality(S) -> S]
  BY DEF SetToSeqs
<1> QED
  BY <1>1, <1>2

\* What a thread marks when it ends an item is the item's own row, if it is still there.
Matches(it) == it.row <= lastId /\ (it.row \in DOMAIN dlq => dlq[it.row].score = it.score)
RowsMatch == \A w \in Threads : \A k \in 1..Len(todo[w]) : Matches(todo[w][k])

\* The lists of a step hold items that match the table before it.
TodoStep ==
    /\ todo' \in [Threads -> Seq(Item)]
    /\ \A w \in Threads : \A k \in 1..Len(todo'[w]) : Matches(todo'[w][k])

LEMMA OneListChanges ==
  ASSUME PublishTypeOK, RowsMatch, NEW w \in Threads, NEW q \in Seq(Item),
         todo' = [todo EXCEPT ![w] = q], \A k \in 1..Len(q) : Matches(q[k])
  PROVE  TodoStep
<1>1. todo' \in [Threads -> Seq(Item)]
      /\ \A v \in Threads : todo'[v] = IF v = w THEN q ELSE todo[v]
  BY DEF PublishTypeOK
<1> QED
  BY <1>1 DEF TodoStep, RowsMatch

LEMMA TailMatches ==
  ASSUME PublishTypeOK, RowsMatch, NEW w \in Threads, todo[w] # <<>>,
         todo' = [todo EXCEPT ![w] = Tail(@)]
  PROVE  TodoStep
<1>1. /\ Tail(todo[w]) \in Seq(Item)
      /\ \A k \in 1..Len(Tail(todo[w])) :
           k + 1 \in 1..Len(todo[w]) /\ Tail(todo[w])[k] = todo[w][k + 1]
  BY CurTyped
<1>2. \A k \in 1..Len(Tail(todo[w])) : Matches(Tail(todo[w])[k])
  BY <1>1 DEF RowsMatch
<1>3. todo' = [todo EXCEPT ![w] = Tail(todo[w])]
  OBVIOUS
<1> QED
  BY <1>1, <1>2, <1>3, OneListChanges

LEMMA SameLists == ASSUME PublishTypeOK, RowsMatch, todo' = todo PROVE TodoStep
  BY DEF PublishTypeOK, RowsMatch, TodoStep

LEMMA FreshItem ==
  ASSUME PublishTypeOK, NEW s \in Scores
  PROVE  [score |-> s, row |-> NoId] \in Item /\ Matches([score |-> s, row |-> NoId])
  BY DEF PublishTypeOK, Item, Matches, NoId

LEMMA StartBatchTodo ==
  ASSUME FinitePipeline, PublishTypeOK, RowsMatch, NEW w \in Threads, StartBatch(w)
  PROVE  TodoStep
<1>1. PICK S \in SUBSET Scores \ {{}} : \E q \in SetToSeqs(S) :
         todo' = [todo EXCEPT ![w] = [k \in 1..Len(q) |-> [score |-> q[k], row |-> NoId]]]
  BY DEF StartBatch
<1>2. PICK q \in SetToSeqs(S) :
         todo' = [todo EXCEPT ![w] = [k \in 1..Len(q) |-> [score |-> q[k], row |-> NoId]]]
  BY <1>1
<1>3. IsFiniteSet(S)
  BY FS_Subset DEF FinitePipeline
<1>4. Len(q) \in Nat /\ \A k \in 1..Len(q) : q[k] \in Scores
  BY <1>3, ListsOfSets
<1> DEFINE items == [k \in 1..Len(q) |-> [score |-> q[k], row |-> NoId]]
<1>5. items \in Seq(Item) /\ Len(items) = Len(q)
  <2>1. \A k \in 1..Len(q) : [score |-> q[k], row |-> NoId] \in Item
    BY <1>4, FreshItem
  <2> QED
    BY <1>4, <2>1
<1>6. \A k \in 1..Len(items) : Matches(items[k])
  BY <1>4, <1>5, FreshItem
<1> QED
  BY <1>2, <1>5, <1>6, OneListChanges

LEMMA StartReplayTodo ==
  ASSUME FinitePipeline, PublishTypeOK, RowsMatch, NEW w \in Threads, StartReplay(w)
  PROVE  TodoStep
<1> DEFINE pending == {i \in DOMAIN dlq : dlq[i].status = "pending"}
<1>1. PICK ids \in SetToSeqs(pending) :
         todo' = [todo EXCEPT ![w] = [k \in 1..Len(ids) |->
                                        [score |-> dlq[ids[k]].score, row |-> ids[k]]]]
  BY DEF StartReplay
<1>2. IsFiniteSet(pending)
  <2>1. lastId \in Int /\ pending \in SUBSET (1..lastId)
    BY DEF PublishTypeOK
  <2>2. IsFiniteSet(1..lastId)
    BY <2>1, FS_Interval
  <2> QED
    BY <2>1, <2>2, FS_Subset
<1>3. Len(ids) \in Nat /\ \A k \in 1..Len(ids) : ids[k] \in pending
  BY <1>2, ListsOfSets
<1> DEFINE items == [k \in 1..Len(ids) |-> [score |-> dlq[ids[k]].score, row |-> ids[k]]]
<1>4. \A k \in 1..Len(ids) : items[k] \in Item /\ Matches(items[k])
  BY <1>3 DEF PublishTypeOK, Row, Item, Matches
<1>5. items \in Seq(Item) /\ Len(items) = Len(ids)
  BY <1>3, <1>4
<1> QED
  BY <1>1, <1>4, <1>5, OneListChanges

LEMMA NextTodo ==
  ASSUME FinitePipeline, PublishTypeOK, RowsMatch, [PublishNext]_publishVars
  PROVE  TodoStep
<1>1. ASSUME NEW w \in Threads, Thread(w)
      PROVE  TodoStep
  <2>1. CASE StartBatch(w) \/ StartReplay(w)
    BY <2>1, StartBatchTodo, StartReplayTodo
  <2>2. CASE LeaseRefused(w) \/ DryRun(w)
    BY <2>2, TailMatches DEF LeaseRefused, DryRun
  <2>3. CASE Succeeds(w) \/ QuorumEnds(w)
    BY <2>3, TailMatches DEF Succeeds, QuorumEnds, Finish, Trying, PublishTypeOK
  <2>4. CASE AttemptFails(w)
    <3>1. todo[w] # <<>> /\ (todo' = todo \/ todo' = [todo EXCEPT ![w] = Tail(@)])
      BY <2>4 DEF AttemptFails, Finish, Trying, PublishTypeOK
    <3> QED
      BY <3>1, TailMatches, SameLists
  <2>5. CASE Admitted(w)
    BY <2>5, SameLists DEF Admitted
  <2>6. CASE Blocked(w)
    <3>1. CASE w \in Pipes
      <4>1. todo' = [todo EXCEPT ![w] = <<>>]
        BY <2>6, <3>1 DEF Blocked
      <4>2. <<>> \in Seq(Item) /\ \A k \in 1..Len(<<>>) : Matches(<<>>[k])
        OBVIOUS
      <4> QED
        BY <4>1, <4>2, OneListChanges
    <3>2. CASE w \notin Pipes
      BY <2>6, <3>2, TailMatches DEF Blocked
    <3> QED
      BY <3>1, <3>2
  <2>7. CASE StartQuorum(w)
    <3>1. CASE todo' = todo
      BY <3>1, SameLists
    <3>2. ASSUME NEW s \in Scores, todo' = [todo EXCEPT ![w] = <<[score |-> s, row |-> NoId]>>]
          PROVE  TodoStep
      <4> DEFINE it == [score |-> s, row |-> NoId]
      <4>1. it \in Item /\ Matches(it)
        BY FreshItem
      <4> HIDE DEF it
      <4>2. <<it>> \in Seq(Item) /\ \A k \in 1..Len(<<it>>) : Matches(<<it>>[k])
        BY <4>1
      <4> QED
        BY <3>2, <4>2, OneListChanges DEF it
    <3> QED
      BY <2>7, <3>1, <3>2 DEF StartQuorum
  <2> QED
    BY <1>1, <2>1, <2>2, <2>3, <2>4, <2>5, <2>6, <2>7 DEF Thread
<1>2. CASE \/ \E s \in Scores : LimboResolves(s)
           \/ \E p \in Publishers : ResetCircuit(p)
           \/ PublishTick
           \/ UNCHANGED publishVars
  BY <1>2, SameLists DEF LimboResolves, ResetCircuit, PublishTick, publishVars
<1> QED
  BY <1>1, <1>2 DEF PublishNext

-----------------------------------------------------------------------------
\* A thread moves and leaves the others alone.
Alone(w) ==
    \A v \in Threads : v # w => todo'[v] = todo[v] /\ publishPc'[v] = publishPc[v]

LEMMA ThreadAlone ==
  ASSUME PublishTypeOK, NEW w \in Threads, Thread(w)
  PROVE  Alone(w)
<1>1. CASE StartBatch(w) \/ StartReplay(w) \/ DryRun(w) \/ StartQuorum(w) \/ Admitted(w)
  BY <1>1 DEF StartBatch, StartReplay, DryRun, StartQuorum, Admitted, PublishTypeOK, Alone
<1>2. CASE LeaseRefused(w) \/ Blocked(w) \/ Succeeds(w) \/ QuorumEnds(w)
  BY <1>2 DEF LeaseRefused, Blocked, Succeeds, QuorumEnds, Finish, PublishTypeOK, Alone
<1>3. CASE AttemptFails(w)
  <2>1. /\ publishPc' = publishPc \/ \E x : publishPc' = [publishPc EXCEPT ![w] = x]
        /\ todo' = todo \/ \E x : todo' = [todo EXCEPT ![w] = x]
    BY <1>3 DEF AttemptFails, Finish
  <2> QED
    BY <2>1 DEF PublishTypeOK, Alone
<1> QED
  BY <1>1, <1>2, <1>3 DEF Thread

\* Where a step leaves the moving thread.
LEMMA PcTyped ==
  ASSUME PublishTypeOK, RowsMatch, NEW w \in Threads, Thread(w)
  PROVE  /\ publishPc' \in [Threads -> {"idle", "try1", "try2", "fee", "quorum"}]
         /\ publishPc'[w] # "idle" => todo'[w] # <<>>
<1>1. CASE StartBatch(w) \/ StartReplay(w) \/ DryRun(w)
  BY <1>1 DEF StartBatch, StartReplay, DryRun, PublishTypeOK
<1>2. CASE LeaseRefused(w) \/ Blocked(w) \/ Admitted(w)
  BY <1>2 DEF LeaseRefused, Blocked, Admitted, PublishTypeOK
<1>3. CASE Succeeds(w) \/ QuorumEnds(w)
  BY <1>3 DEF Succeeds, QuorumEnds, Finish, PublishTypeOK
<1>4. CASE AttemptFails(w)
  <2>1. PICK e \in Errors :
          IF AfterError(publishPc[w], e) # "fail"
            THEN publishPc' = [publishPc EXCEPT ![w] = AfterError(publishPc[w], e)] /\ todo' = todo
            ELSE publishPc' = [publishPc EXCEPT ![w] = "idle"]
    BY <1>4 DEF AttemptFails, Finish
  <2>2. AfterError(publishPc[w], e) \in {"try2", "fee", "fail"}
    BY DEF AfterError
  <2>3. todo[w] # <<>>
    BY <1>4 DEF AttemptFails, Trying, PublishTypeOK
  <2> QED
    BY <2>1, <2>2, <2>3 DEF PublishTypeOK
<1>5. CASE StartQuorum(w)
  <2>1. \/ publishPc' = publishPc /\ todo' = todo
        \/ /\ publishPc' = [publishPc EXCEPT ![w] = "quorum"]
           /\ \E s \in Scores : todo' = [todo EXCEPT ![w] = <<[score |-> s, row |-> NoId]>>]
    BY <1>5 DEF StartQuorum
  <2>2. \A it : <<it>> # <<>>
    OBVIOUS
  <2> QED
    BY <2>1, <2>2 DEF PublishTypeOK
<1> QED
  BY <1>1, <1>2, <1>3, <1>4, <1>5 DEF Thread

LEMMA CircuitFunctions ==
  ASSUME FinitePipeline, NEW c \in Circuits
  PROVE  /\ Checked(c) \in Circuits /\ AfterFailure(c) \in Circuits /\ AfterSuccess(c) \in Circuits
         /\ Passes(c) => Checked(c).state # "open" /\ Checked(c).age = c.age
         /\ AfterFailure(c).state = "open" => AfterFailure(c).age = 0 \/ c.state = "open"
         /\ AfterSuccess(c).state = "open" => c.state = "open"
  BY DEF FinitePipeline, Circuits, Checked, HalfOpens, Passes, AfterFailure, AfterSuccess,
         NotOpened

CircuitStep(w) ==
    \/ circuit' = circuit /\ (Trying(w)' => Trying(w))
    \/ /\ Passes(circuit[Home(w)])
       /\ circuit' = [circuit EXCEPT ![Home(w)] = Checked(@)]
    \/ /\ Trying(w) /\ ~Trying(w)'
       /\ \/ circuit' = [circuit EXCEPT ![Home(w)] = AfterSuccess(@)]
          \/ circuit' = [circuit EXCEPT ![Home(w)] = AfterFailure(@)]

LEMMA ThreadCircuit ==
  ASSUME PublishTypeOK, NEW w \in Threads, Thread(w)
  PROVE  CircuitStep(w)
<1>1. CASE StartBatch(w) \/ StartReplay(w) \/ LeaseRefused(w) \/ Blocked(w) \/ QuorumEnds(w)
  BY <1>1 DEF StartBatch, StartReplay, LeaseRefused, Blocked, QuorumEnds, Finish, Trying,
              PublishTypeOK, CircuitStep
<1>2. CASE DryRun(w) \/ Admitted(w)
  BY <1>2 DEF DryRun, Admitted, Home, CircuitStep
<1>3. CASE Succeeds(w)
  BY <1>3 DEF Succeeds, Finish, Trying, PublishTypeOK, CircuitStep
<1>4. CASE AttemptFails(w)
  <2>1. \/ circuit' = circuit
        \/ /\ circuit' = [circuit EXCEPT ![Home(w)] = AfterFailure(@)]
           /\ publishPc' = [publishPc EXCEPT ![w] = "idle"]
    BY <1>4 DEF AttemptFails, Finish
  <2> QED
    BY <1>4, <2>1 DEF AttemptFails, Trying, PublishTypeOK, CircuitStep
<1>5. CASE StartQuorum(w)
  <2>1. \/ publishPc' = publishPc /\ circuit' = circuit
        \/ /\ Passes(circuit[Home(w)])
           /\ circuit' = [circuit EXCEPT ![Home(w)] = Checked(@)]
    BY <1>5 DEF StartQuorum, Home
  <2> QED
    BY <2>1 DEF Trying, CircuitStep
<1> QED
  BY <1>1, <1>2, <1>3, <1>4, <1>5 DEF Thread

LEMMA HomeIsPublisher == ASSUME NEW w \in Threads PROVE Home(w) \in Publishers
  BY DEF Home, Threads, Publishers

LEMMA NextCircuitTypes ==
  ASSUME FinitePipeline, PublishTypeOK, [PublishNext]_publishVars
  PROVE  circuit' \in [Publishers -> Circuits]
<1>1. circuit \in [Publishers -> Circuits]
  BY DEF PublishTypeOK
<1>2. ASSUME NEW w \in Threads, Thread(w)
      PROVE  circuit' \in [Publishers -> Circuits]
  <2>1. Home(w) \in Publishers /\ circuit[Home(w)] \in Circuits
    BY <1>1, HomeIsPublisher
  <2> QED
    BY <1>1, <1>2, <2>1, ThreadCircuit, CircuitFunctions DEF CircuitStep
<1>3. CASE PublishTick
  BY <1>1, <1>3 DEF PublishTick, Circuits, FinitePipeline
<1>4. CASE \/ \E s \in Scores : LimboResolves(s)
           \/ \E p \in Publishers : ResetCircuit(p)
           \/ UNCHANGED publishVars
  BY <1>1, <1>4 DEF LimboResolves, ResetCircuit, publishVars, Circuits, Closed, NotOpened,
         FinitePipeline
<1> QED
  BY <1>2, <1>3, <1>4 DEF PublishNext

\* A publisher that one thread at most uses: an open circuit has a timer, and
\* its thread is not sending.
Lone(p) == \A v, w \in Threads : Home(v) = p /\ Home(w) = p => v = w

LoneTimer ==
    \A p \in Publishers : Lone(p) =>
        /\ circuit[p].state = "open" => circuit[p].age # NotOpened
        /\ \A w \in Threads : Home(w) = p /\ Trying(w) => circuit[p].state # "open"

LEMMA NextTimer ==
  ASSUME FinitePipeline, PublishTypeOK, LoneTimer, [PublishNext]_publishVars
  PROVE  LoneTimer'
<1>1. circuit \in [Publishers -> Circuits] /\ \A p \in Publishers : Lone(p)' <=> Lone(p)
  BY DEF PublishTypeOK, Circuits, Lone
<1>2. ASSUME NEW w \in Threads, Thread(w), NEW p \in Publishers, Lone(p)
      PROVE  /\ circuit'[p].state = "open" => circuit'[p].age # NotOpened
             /\ \A v \in Threads : Home(v) = p /\ Trying(v)' => circuit'[p].state # "open"
  <2>1. Home(w) \in Publishers /\ circuit[Home(w)] \in Circuits /\ CircuitStep(w) /\ Alone(w)
    BY <1>1, <1>2, HomeIsPublisher, ThreadCircuit, ThreadAlone
  <2>2. CASE p # Home(w)
    <3>1. circuit'[p] = circuit[p]
      BY <1>1, <1>2, <2>1, <2>2 DEF CircuitStep
    <3>2. \A v \in Threads : Home(v) = p => (Trying(v)' <=> Trying(v))
      BY <2>1, <2>2 DEF Alone, Trying
    <3> QED
      BY <1>2, <3>1, <3>2 DEF LoneTimer
  <2>3. CASE p = Home(w)
    <3>1. \A v \in Threads : Home(v) = p => v = w
      BY <1>2, <2>3 DEF Lone
    <3>2. /\ circuit[p].state = "open" => circuit[p].age # NotOpened
          /\ Trying(w) => circuit[p].state # "open"
      BY <1>2, <2>3 DEF LoneTimer
    <3>3. CASE circuit' = circuit /\ (Trying(w)' => Trying(w))
      BY <3>1, <3>2, <3>3
    <3>4. CASE Passes(circuit[p]) /\ circuit'[p] = Checked(circuit[p])
      BY <2>1, <2>3, <3>4, CircuitFunctions
    <3>5. CASE Trying(w) /\ ~Trying(w)' /\ circuit'[p] = AfterSuccess(circuit[p])
      BY <2>1, <2>3, <3>1, <3>2, <3>5, CircuitFunctions
    <3>6. CASE Trying(w) /\ ~Trying(w)' /\ circuit'[p] = AfterFailure(circuit[p])
      BY <2>1, <2>3, <3>1, <3>2, <3>6, CircuitFunctions DEF NotOpened
    <3> QED
      BY <1>1, <2>1, <2>3, <3>3, <3>4, <3>5, <3>6 DEF CircuitStep
  <2> QED
    BY <2>2, <2>3
<1>3. CASE PublishTick
  BY <1>1, <1>3 DEF PublishTick, Circuits, FinitePipeline, LoneTimer, Trying, NotOpened
<1>4. CASE \/ \E s \in Scores : LimboResolves(s)
           \/ \E p \in Publishers : ResetCircuit(p)
           \/ UNCHANGED publishVars
  BY <1>1, <1>4 DEF LimboResolves, ResetCircuit, publishVars, Circuits, Closed, LoneTimer, Trying
<1> QED
  <2>1. CASE \E w \in Threads : Thread(w)
    BY <1>1, <1>2, <2>1 DEF LoneTimer
  <2> QED
    BY <1>3, <1>4, <2>1 DEF PublishNext

-----------------------------------------------------------------------------
\* Transactions a thread may still send for s: the first attempt may be followed
\* by a second, the second and the quorum's are the last.
First(s) == {w \in Threads : publishPc[w] \in {"try1", "quorum"} /\ Cur(w).score = s}
Second(s) == {w \in Threads : publishPc[w] \in {"try2", "fee"} /\ Cur(w).score = s}
Share(w, s) == IF w \in First(s) THEN 2 ELSE IF w \in Second(s) THEN 1 ELSE 0

Budget ==
    \A s \in Scores :
        chain[s] + limbo[s] + 2 * Cardinality(First(s)) + Cardinality(Second(s)) <= 2 * calls[s]

\* What the step of a thread does to the counters.
CounterStep(w) ==
    /\ chain' \in [Scores -> Nat] /\ limbo' \in [Scores -> Nat] /\ calls' \in [Scores -> Nat]
    /\ \A s \in Scores :
         /\ chain'[s] >= chain[s]
         /\ chain'[s] + limbo'[s] + Share(w, s)'
              <= chain[s] + limbo[s] + Share(w, s) + 2 * (calls'[s] - calls[s])

LEMMA Bumped ==
  ASSUME NEW f \in [Scores -> Nat], NEW s \in Scores, NEW g, g = f \/ g = [f EXCEPT ![s] = @ + 1]
  PROVE  /\ g \in [Scores -> Nat]
         /\ \A x \in Scores : /\ f[x] \in Nat /\ g[x] \in Nat /\ g[x] >= f[x]
                               /\ g[x] <= f[x] + (IF x = s THEN 1 ELSE 0)
                               /\ g = f => g[x] = f[x]
<1>1. CASE g = f
  BY <1>1
<1>2. CASE g = [f EXCEPT ![s] = @ + 1]
  <2>1. \A x \in Scores : f[x] \in Nat /\ g[x] = IF x = s THEN f[x] + 1 ELSE f[x]
    BY <1>2
  <2>2. g \in [Scores -> Nat]
    BY <1>2
  <2> QED
    BY <2>1, <2>2
<1> QED
  BY <1>1, <1>2

\* The step leaves the thread without a share, and sends what its share allows.
LEMMA ShareSpent ==
  ASSUME PublishTypeOK, NEW w \in Threads, publishPc[w] # "idle", publishPc'[w] = "idle",
         NEW s, s = Cur(w).score, UNCHANGED calls,
         \/ chain' = [chain EXCEPT ![s] = @ + 1] /\ UNCHANGED limbo
         \/ limbo' = [limbo EXCEPT ![s] = @ + 1] /\ UNCHANGED chain
         \/ UNCHANGED <<chain, limbo>>
  PROVE  CounterStep(w)
<1>1. \A x \in Scores : Share(w, x)' = 0
  BY DEF Share, First, Second
<1>2. Share(w, s) >= 1 /\ \A x \in Scores : Share(w, x) \in 0..2
  BY DEF Share, First, Second, PublishTypeOK
<1>3. \A x \in Scores : chain[x] \in Nat /\ limbo[x] \in Nat /\ calls'[x] = calls[x] /\ calls[x] \in Nat
  BY DEF PublishTypeOK
<1>7. s \in Scores
  BY CurTyped DEF PublishTypeOK
<1>4. /\ chain' \in [Scores -> Nat] /\ limbo' \in [Scores -> Nat] /\ calls' \in [Scores -> Nat]
  BY <1>7, Bumped DEF PublishTypeOK
<1>5. \A x \in Scores : /\ chain'[x] >= chain[x]
                       /\ chain'[x] + limbo'[x] <= chain[x] + limbo[x] + (IF x = s THEN 1 ELSE 0)
  <2>1. chain \in [Scores -> Nat] /\ limbo \in [Scores -> Nat]
    BY DEF PublishTypeOK
  <2>2. CASE limbo' = limbo /\ (chain' = chain \/ chain' = [chain EXCEPT ![s] = @ + 1])
    BY <1>7, <2>1, <2>2, Bumped
  <2>3. CASE chain' = chain /\ (limbo' = limbo \/ limbo' = [limbo EXCEPT ![s] = @ + 1])
    BY <1>7, <2>1, <2>3, Bumped
  <2> QED
    BY <2>2, <2>3
<1> HIDE DEF Share
<1>6. ASSUME NEW x \in Scores
      PROVE  chain'[x] + limbo'[x] + Share(w, x)'
               <= chain[x] + limbo[x] + Share(w, x) + 2 * (calls'[x] - calls[x])
  <2>1. chain'[x] \in Nat /\ limbo'[x] \in Nat
    BY <1>4
  <2>2. Share(w, x) \in Nat /\ Share(w, x) >= (IF x = s THEN 1 ELSE 0) /\ Share(w, x)' = 0
    BY <1>1, <1>2
  <2> QED
    BY <2>1, <2>2, <1>3, <1>5
<1> QED
  BY <1>4, <1>5, <1>6 DEF CounterStep

LEMMA NothingSent ==
  ASSUME PublishTypeOK, NEW w \in Threads, UNCHANGED <<chain, limbo>>,
         calls' = calls \/ \E s \in Scores : calls' = [calls EXCEPT ![s] = @ + 1],
         publishPc'[w] = "idle"
  PROVE  CounterStep(w)
<1>1. \A x \in Scores : Share(w, x)' = 0
  BY DEF Share, First, Second
<1>2. \A x \in Scores : Share(w, x) \in 0..2
  BY DEF Share
<1> HIDE DEF Share
<1>3. calls' \in [Scores -> Nat] /\ \A x \in Scores : calls'[x] >= calls[x]
  <2>1. CASE calls' = calls
    BY <2>1 DEF PublishTypeOK
  <2>2. CASE \E s \in Scores : calls' = [calls EXCEPT ![s] = @ + 1]
    BY <2>2 DEF PublishTypeOK
  <2> QED
    BY <2>1, <2>2
<1>4. ASSUME NEW x \in Scores
      PROVE  /\ chain'[x] >= chain[x]
             /\ chain'[x] + limbo'[x] + Share(w, x)'
                  <= chain[x] + limbo[x] + Share(w, x) + 2 * (calls'[x] - calls[x])
  <2>1. chain[x] \in Nat /\ limbo[x] \in Nat /\ calls[x] \in Nat /\ calls'[x] \in Nat
    BY <1>3 DEF PublishTypeOK
  <2> QED
    BY <2>1, <1>1, <1>2, <1>3
<1> QED
  BY <1>3, <1>4 DEF CounterStep, PublishTypeOK

LEMMA CallBegins ==
  ASSUME PublishTypeOK, NEW w \in Threads, UNCHANGED <<chain, limbo>>, NEW s \in Scores,
         calls' = [calls EXCEPT ![s] = @ + 1],
         publishPc'[w] = "idle" \/ Cur(w)'.score = s
  PROVE  CounterStep(w)
<1>1. \A x \in Scores : Share(w, x)' \in 0..2 /\ (x # s => Share(w, x)' = 0)
  BY DEF Share, First, Second
<1>2. \A x \in Scores : Share(w, x) \in 0..2
  BY DEF Share
<1> HIDE DEF Share
<1>3. calls' \in [Scores -> Nat] /\ calls'[s] = calls[s] + 1
      /\ \A x \in Scores : x # s => calls'[x] = calls[x]
  BY DEF PublishTypeOK
<1>4. ASSUME NEW x \in Scores
      PROVE  /\ chain'[x] >= chain[x]
             /\ chain'[x] + limbo'[x] + Share(w, x)'
                  <= chain[x] + limbo[x] + Share(w, x) + 2 * (calls'[x] - calls[x])
  <2>1. chain[x] \in Nat /\ limbo[x] \in Nat /\ calls[x] \in Nat
    BY DEF PublishTypeOK
  <2>2. Share(w, x) \in 0..2 /\ Share(w, x)' \in 0..2 /\ (x # s => Share(w, x)' = 0)
    BY <1>1, <1>2
  <2> QED
    BY <2>1, <2>2, <1>3
<1> QED
  BY <1>3, <1>4 DEF CounterStep, PublishTypeOK

LEMMA ThreadCounters ==
  ASSUME PublishTypeOK, NEW w \in Threads, Thread(w)
  PROVE  CounterStep(w)
<1>1. CASE StartBatch(w) \/ StartReplay(w) \/ LeaseRefused(w) \/ DryRun(w)
  BY <1>1, NothingSent DEF StartBatch, StartReplay, LeaseRefused, DryRun
<1>2. CASE Blocked(w)
  <2>1. Cur(w).score \in Scores /\ calls' = [calls EXCEPT ![Cur(w).score] = @ + 1]
    BY <1>2, BeginCounts, CurTyped DEF Blocked
  <2> QED
    BY <1>2, <2>1, NothingSent DEF Blocked
<1>3. CASE Admitted(w)
  <2>1. Cur(w).score \in Scores /\ calls' = [calls EXCEPT ![Cur(w).score] = @ + 1]
    BY <1>3, BeginCounts, CurTyped DEF Admitted
  <2>2. UNCHANGED <<chain, limbo>> /\ Cur(w)'.score = Cur(w).score
    BY <1>3 DEF Admitted, Cur
  <2> QED
    BY <2>1, <2>2, CallBegins
<1>4. CASE Succeeds(w)
  BY <1>4, ShareSpent DEF Succeeds, Trying, Finish, PublishTypeOK
<1>5. CASE QuorumEnds(w)
  <2>1. /\ publishPc[w] # "idle" /\ publishPc'[w] = "idle" /\ UNCHANGED calls
        /\ \/ chain' = [chain EXCEPT ![Cur(w).score] = @ + 1] /\ UNCHANGED limbo
           \/ limbo' = [limbo EXCEPT ![Cur(w).score] = @ + 1] /\ UNCHANGED chain
           \/ UNCHANGED <<chain, limbo>>
    BY <1>5 DEF QuorumEnds, Finish, PublishTypeOK
  <2> QED
    BY <2>1, ShareSpent
<1>6. CASE AttemptFails(w)
  <2>5. Cur(w).score \in Scores
    BY <1>6, CurTyped DEF AttemptFails, Trying, PublishTypeOK
  <2>6. PICK s \in Scores : s = Cur(w).score
    BY <2>5
  <2>1. /\ UNCHANGED <<chain, calls>> /\ Trying(w)
        /\ limbo' = limbo \/ limbo' = [limbo EXCEPT ![s] = @ + 1]
    BY <1>6, <2>6 DEF AttemptFails
  <2>2. PICK e \in Errors :
          IF AfterError(publishPc[w], e) # "fail"
            THEN publishPc' = [publishPc EXCEPT ![w] = AfterError(publishPc[w], e)] /\ todo' = todo
            ELSE publishPc' = [publishPc EXCEPT ![w] = "idle"]
    BY <1>6 DEF AttemptFails, Finish
  <2>3. CASE AfterError(publishPc[w], e) = "fail"
    BY <2>1, <2>2, <2>3, <2>6, ShareSpent DEF Trying, PublishTypeOK
  <2>4. CASE AfterError(publishPc[w], e) # "fail"
    <3>1. publishPc[w] = "try1" /\ publishPc'[w] \in {"try2", "fee"} /\ Cur(w)' = Cur(w)
      BY <2>2, <2>4 DEF AfterError, PublishTypeOK, Cur
    <3>3. Share(w, s) = 2 /\ Share(w, s)' = 1
      BY <2>6, <3>1 DEF Share, First, Second
    <3>4. \A x \in Scores : x # s => Share(w, x) = 0 /\ Share(w, x)' = 0
      BY <2>6, <3>1 DEF Share, First, Second
    <3> HIDE DEF Share
    <3>5. /\ limbo' \in [Scores -> Nat]
          /\ \A x \in Scores : limbo'[x] <= limbo[x] + (IF x = s THEN 1 ELSE 0)
      <4>1. limbo \in [Scores -> Nat]
        BY DEF PublishTypeOK
      <4> QED
        BY <2>1, <4>1, Bumped
    <3>6. ASSUME NEW x \in Scores
          PROVE  chain'[x] + limbo'[x] + Share(w, x)'
                   <= chain[x] + limbo[x] + Share(w, x) + 2 * (calls'[x] - calls[x])
      <4>1. /\ chain'[x] = chain[x] /\ chain[x] \in Nat /\ limbo[x] \in Nat /\ limbo'[x] \in Nat
            /\ calls'[x] = calls[x] /\ calls[x] \in Nat
        BY <2>1, <3>5 DEF PublishTypeOK
      <4> QED
        <5>1. CASE x = s
          BY <3>3, <3>5, <4>1, <5>1
        <5>2. CASE x # s
          BY <3>4, <3>5, <4>1, <5>2
        <5> QED
          BY <5>1, <5>2
    <3> QED
      BY <2>1, <3>5, <3>6 DEF CounterStep, PublishTypeOK
  <2> QED
    BY <2>3, <2>4
<1>7. CASE StartQuorum(w)
  <2>1. PICK s \in Scores :
          /\ calls' = [calls EXCEPT ![s] = @ + 1] /\ UNCHANGED <<chain, limbo>>
          /\ \/ publishPc' = publishPc
             \/ todo' = [todo EXCEPT ![w] = <<[score |-> s, row |-> NoId]>>]
    BY <1>7, BeginCounts DEF StartQuorum
  <2>2. publishPc[w] = "idle"
    BY <1>7 DEF StartQuorum
  <2>3. publishPc'[w] = "idle" \/ Cur(w)'.score = s
    BY <2>1, <2>2 DEF Cur, PublishTypeOK
  <2> QED
    BY <2>1, <2>3, CallBegins
<1> QED
  BY <1>1, <1>2, <1>3, <1>4, <1>5, <1>6, <1>7 DEF Thread

LEMMA OneMember ==
  ASSUME NEW A, IsFiniteSet(A), NEW w
  PROVE  /\ Cardinality(A \ {w}) \in Nat
         /\ Cardinality(A) = Cardinality(A \ {w}) + (IF w \in A THEN 1 ELSE 0)
<1>1. IsFiniteSet(A \ {w}) /\ Cardinality(A) \in Nat /\ Cardinality(A \ {w}) \in Nat
  BY FS_RemoveElement, FS_CardinalityType
<1>2. CASE w \in A
  BY <1>1, <1>2, FS_RemoveElement
<1>3. CASE w \notin A
  <2>1. A \ {w} = A
    BY <1>3
  <2>2. Cardinality(A \ {w}) = Cardinality(A)
    BY <2>1
  <2> QED
    BY <1>1, <1>3, <2>2
<1> QED
  BY <1>2, <1>3

LEMMA ShareCounts ==
  ASSUME FinitePipeline, NEW w \in Threads, Alone(w), NEW s \in Scores
  PROVE  \E n \in Nat :
           /\ 2 * Cardinality(First(s)) + Cardinality(Second(s)) = n + Share(w, s)
           /\ 2 * Cardinality(First(s)') + Cardinality(Second(s)') = n + Share(w, s)'
<1>1. /\ IsFiniteSet(First(s)) /\ IsFiniteSet(First(s)')
      /\ IsFiniteSet(Second(s)) /\ IsFiniteSet(Second(s)')
  <2>1. /\ First(s) \in SUBSET Threads /\ First(s)' \in SUBSET Threads
        /\ Second(s) \in SUBSET Threads /\ Second(s)' \in SUBSET Threads
    BY DEF First, Second
  <2> QED
    BY <2>1, FS_Subset DEF FinitePipeline
<1>2. First(s)' \ {w} = First(s) \ {w} /\ Second(s)' \ {w} = Second(s) \ {w}
  BY DEF First, Second, Alone, Cur
<1>3. ~(w \in First(s) /\ w \in Second(s)) /\ ~(w \in First(s)' /\ w \in Second(s)')
  BY DEF First, Second
<1>4. /\ Share(w, s) = 2 * (IF w \in First(s) THEN 1 ELSE 0) + (IF w \in Second(s) THEN 1 ELSE 0)
      /\ Share(w, s)' = 2 * (IF w \in First(s)' THEN 1 ELSE 0) + (IF w \in Second(s)' THEN 1 ELSE 0)
  BY <1>3 DEF Share
<1> DEFINE n == Cardinality(First(s) \ {w})
           m == Cardinality(Second(s) \ {w})
<1>5. n \in Nat /\ m \in Nat
      /\ Cardinality(First(s)) = n + (IF w \in First(s) THEN 1 ELSE 0)
      /\ Cardinality(Second(s)) = m + (IF w \in Second(s) THEN 1 ELSE 0)
  BY <1>1, OneMember
<1>6. /\ Cardinality(First(s)') = n + (IF w \in First(s)' THEN 1 ELSE 0)
      /\ Cardinality(Second(s)') = m + (IF w \in Second(s)' THEN 1 ELSE 0)
  BY <1>1, <1>2, OneMember
<1> HIDE DEF n, m
<1>7. /\ 2 * Cardinality(First(s)) + Cardinality(Second(s)) = (2 * n + m) + Share(w, s)
      /\ 2 * Cardinality(First(s)') + Cardinality(Second(s)') = (2 * n + m) + Share(w, s)'
  BY <1>4, <1>5, <1>6
<1> QED
  BY <1>5, <1>7

\* Chains grow, and what a call sends is at most its two transactions.
ChainStep ==
    /\ chain' \in [Scores -> Nat] /\ limbo' \in [Scores -> Nat] /\ calls' \in [Scores -> Nat]
    /\ \A s \in Scores : chain'[s] >= chain[s]

LEMMA NextBudget ==
  ASSUME FinitePipeline, PublishTypeOK, Budget, [PublishNext]_publishVars
  PROVE  ChainStep /\ Budget'
<1>1. ASSUME NEW w \in Threads, Thread(w)
      PROVE  ChainStep /\ Budget'
  <2>1. CounterStep(w) /\ Alone(w)
    BY <1>1, ThreadCounters, ThreadAlone
  <2>2. ASSUME NEW s \in Scores
        PROVE  chain'[s] + limbo'[s] + 2 * Cardinality(First(s)') + Cardinality(Second(s)')
                 <= 2 * calls'[s]
    <3>1. PICK n \in Nat :
            /\ 2 * Cardinality(First(s)) + Cardinality(Second(s)) = n + Share(w, s)
            /\ 2 * Cardinality(First(s)') + Cardinality(Second(s)') = n + Share(w, s)'
      BY <2>1, ShareCounts
    <3>2. /\ Cardinality(First(s)) \in Nat /\ Cardinality(First(s)') \in Nat
          /\ Cardinality(Second(s)) \in Nat /\ Cardinality(Second(s)') \in Nat
      <4>1. /\ First(s) \in SUBSET Threads /\ First(s)' \in SUBSET Threads
            /\ Second(s) \in SUBSET Threads /\ Second(s)' \in SUBSET Threads
        BY DEF First, Second
      <4> QED
        BY <4>1, FS_Subset, FS_CardinalityType DEF FinitePipeline
    <3>3. /\ chain[s] \in Nat /\ limbo[s] \in Nat /\ calls[s] \in Nat
          /\ chain'[s] \in Nat /\ limbo'[s] \in Nat /\ calls'[s] \in Nat
      BY <2>1 DEF CounterStep, PublishTypeOK
    <3>4. Share(w, s) \in Nat /\ Share(w, s)' \in Nat
      BY DEF Share
    <3>5. chain'[s] + limbo'[s] + Share(w, s)'
            <= chain[s] + limbo[s] + Share(w, s) + 2 * (calls'[s] - calls[s])
      BY <2>1 DEF CounterStep
    <3>6. chain[s] + limbo[s] + 2 * Cardinality(First(s)) + Cardinality(Second(s)) <= 2 * calls[s]
      BY DEF Budget
    <3> QED
      BY <3>1, <3>2, <3>3, <3>4, <3>5, <3>6
  <2> QED
    BY <2>1, <2>2 DEF ChainStep, CounterStep, Budget
<1>2. ASSUME publishPc' = publishPc, todo' = todo, calls' = calls,
             chain' \in [Scores -> Nat], limbo' \in [Scores -> Nat],
             \A s \in Scores : chain'[s] >= chain[s]
                               /\ chain'[s] + limbo'[s] <= chain[s] + limbo[s]
      PROVE  ChainStep /\ Budget'
  <2>1. \A s \in Scores : First(s)' = First(s) /\ Second(s)' = Second(s)
    BY <1>2 DEF First, Second, Cur
  <2>2. \A s \in Scores : Cardinality(First(s)) \in Nat /\ Cardinality(Second(s)) \in Nat
    <3>1. \A s \in Scores : First(s) \in SUBSET Threads /\ Second(s) \in SUBSET Threads
      BY DEF First, Second
    <3> QED
      BY <3>1, FS_Subset, FS_CardinalityType DEF FinitePipeline
  <2>3. ASSUME NEW s \in Scores
        PROVE  chain'[s] + limbo'[s] + 2 * Cardinality(First(s)') + Cardinality(Second(s)')
                 <= 2 * calls'[s]
    <3>1. /\ chain[s] \in Nat /\ limbo[s] \in Nat /\ calls[s] \in Nat
          /\ chain'[s] \in Nat /\ limbo'[s] \in Nat
      BY <1>2 DEF PublishTypeOK
    <3>2. /\ Cardinality(First(s)') = Cardinality(First(s))
          /\ Cardinality(Second(s)') = Cardinality(Second(s))
      BY <2>1
    <3> QED
      BY <1>2, <2>2, <3>1, <3>2 DEF Budget
  <2> QED
    BY <1>2, <2>3 DEF ChainStep, Budget, PublishTypeOK
<1>3. ASSUME NEW s \in Scores, LimboResolves(s)
      PROVE  ChainStep /\ Budget'
  <2>1. /\ limbo[s] \in Nat \ {0} /\ limbo' = [limbo EXCEPT ![s] = @ - 1]
        /\ chain' = chain \/ chain' = [chain EXCEPT ![s] = @ + 1]
        /\ UNCHANGED <<publishPc, todo, calls>>
    BY <1>3 DEF LimboResolves, PublishTypeOK
  <2>2. /\ limbo' \in [Scores -> Nat] /\ limbo'[s] = limbo[s] - 1
        /\ \A x \in Scores : x # s => limbo'[x] = limbo[x]
    BY <2>1 DEF PublishTypeOK
  <2>3. /\ chain' \in [Scores -> Nat]
        /\ \A x \in Scores : /\ chain'[x] >= chain[x]
                             /\ chain'[x] <= chain[x] + (IF x = s THEN 1 ELSE 0)
    <3>1. chain \in [Scores -> Nat]
      BY DEF PublishTypeOK
    <3> QED
      BY <2>1, <3>1, Bumped
  <2>4. ASSUME NEW x \in Scores
        PROVE  chain'[x] + limbo'[x] <= chain[x] + limbo[x]
    <3>1. chain[x] \in Nat /\ limbo[x] \in Nat /\ chain'[x] \in Nat /\ limbo'[x] \in Nat
      BY <2>2, <2>3 DEF PublishTypeOK
    <3> QED
      BY <2>2, <2>3, <3>1
  <2> QED
    BY <1>2, <2>1, <2>2, <2>3, <2>4
<1>4. CASE \/ \E p \in Publishers : ResetCircuit(p)
           \/ PublishTick
           \/ UNCHANGED publishVars
  <2>1. UNCHANGED <<publishPc, todo, calls, chain, limbo>>
    BY <1>4 DEF ResetCircuit, PublishTick, publishVars
  <2> QED
    BY <1>2, <2>1 DEF PublishTypeOK
<1> QED
  BY <1>1, <1>3, <1>4 DEF PublishNext

LEMMA SuccessApplies ==
  ASSUME PublishTypeOK, NEW w \in Threads, Succeeds(w)
  PROVE  /\ todo[w] # <<>> /\ Cur(w).score \in Scores
         /\ chain'[Cur(w).score] > 0
         /\ submitted' = submitted \cup {Cur(w).score}
<1>1. todo[w] # <<>> /\ Cur(w).score \in Scores
  BY CurTyped DEF Succeeds, Trying, PublishTypeOK
<1>2. chain' = [chain EXCEPT ![Cur(w).score] = @ + 1]
      /\ submitted' = submitted \cup {Cur(w).score}
  BY DEF Succeeds, Log
<1>3. chain[Cur(w).score] \in Nat
  BY <1>1 DEF PublishTypeOK
<1> QED
  BY <1>1, <1>2, <1>3 DEF PublishTypeOK

LEMMA QuorumApplies ==
  ASSUME PublishTypeOK, NEW w \in Threads, QuorumEnds(w)
  PROVE  submitted' = submitted
         \/ /\ Cur(w).score \in Scores /\ chain'[Cur(w).score] > 0
            /\ submitted' = submitted \cup {Cur(w).score}
<1>1. Cur(w).score \in Scores
  BY CurTyped DEF QuorumEnds, PublishTypeOK
<1>2. \/ submitted' = submitted
      \/ /\ chain' = [chain EXCEPT ![Cur(w).score] = @ + 1]
         /\ submitted' = submitted \cup {Cur(w).score}
  BY DEF QuorumEnds, Log
<1>3. chain[Cur(w).score] \in Nat
  BY <1>1 DEF PublishTypeOK
<1> QED
  BY <1>1, <1>2, <1>3 DEF PublishTypeOK

LEMMA NextSubmitted ==
  ASSUME PublishTypeOK, [PublishNext]_publishVars
  PROVE  /\ submitted' \subseteq Scores
         /\ \A s \in submitted' : s \in submitted \/ chain'[s] > 0
<1>1. ASSUME NEW w \in Threads, Thread(w)
      PROVE  submitted' = submitted
             \/ /\ Cur(w).score \in Scores /\ chain'[Cur(w).score] > 0
                /\ submitted' = submitted \cup {Cur(w).score}
  <2>1. CASE Succeeds(w) \/ QuorumEnds(w)
    BY <2>1, SuccessApplies, QuorumApplies
  <2>2. CASE StartBatch(w) \/ StartReplay(w) \/ LeaseRefused(w) \/ Blocked(w) \/ Admitted(w)
             \/ DryRun(w)
    BY <2>2 DEF StartBatch, StartReplay, LeaseRefused, Blocked, Admitted, DryRun
  <2>3. CASE AttemptFails(w)
    BY <2>3 DEF AttemptFails
  <2>4. CASE StartQuorum(w)
    BY <2>4 DEF StartQuorum
  <2> QED
    BY <1>1, <2>1, <2>2, <2>3, <2>4 DEF Thread
<1>2. CASE \/ \E s \in Scores : LimboResolves(s)
           \/ \E p \in Publishers : ResetCircuit(p)
           \/ PublishTick
           \/ UNCHANGED publishVars
  BY <1>2 DEF LimboResolves, ResetCircuit, PublishTick, publishVars, PublishTypeOK
<1>3. CASE \E w \in Threads : Thread(w)
  BY <1>1, <1>3 DEF PublishTypeOK
<1> QED
  BY <1>2, <1>3 DEF PublishNext

\* A row is marked "replayed" by the success of the thread that works on it.
ReplayedStep ==
    \A i \in DOMAIN dlq' : dlq'[i].status = "replayed" =>
        \/ i \in DOMAIN dlq /\ dlq[i].status = "replayed" /\ dlq'[i].score = dlq[i].score
        \/ chain'[dlq'[i].score] > 0

LEMMA NextReplayed ==
  ASSUME PublishTypeOK, RowsMatch, [PublishNext]_publishVars
  PROVE  ReplayedStep
<1>1. ASSUME NEW w \in Threads, Thread(w), ~Blocked(w)
      PROVE  ReplayedStep
  <2>1. CASE dlq' = dlq
    BY <2>1 DEF ReplayedStep
  <2>2. ASSUME todo[w] # <<>>, NEW outcome \in {"replayed", "failed"},
               dlq' = MarkRow(Cur(w).row, outcome, dlq), outcome = "replayed" => Succeeds(w)
        PROVE  ReplayedStep
    <3>1. /\ DOMAIN dlq' = DOMAIN dlq
          /\ \A i \in DOMAIN dlq :
               /\ dlq'[i].score = dlq[i].score
               /\ dlq'[i].status = "replayed" =>
                    \/ dlq[i].status = "replayed"
                    \/ i = Cur(w).row /\ outcome = "replayed"
      <4>1. dlq \in [DOMAIN dlq -> Row]
        BY DEF PublishTypeOK
      <4> QED
        BY <2>2, <4>1, MarkRowFacts
    <3>2. Cur(w).row \in DOMAIN dlq => dlq[Cur(w).row].score = Cur(w).score
      BY <2>2, CurTyped DEF RowsMatch, Matches
    <3>3. outcome = "replayed" => chain'[Cur(w).score] > 0
      BY <2>2, SuccessApplies
    <3> QED
      BY <3>1, <3>2, <3>3 DEF ReplayedStep
  <2> QED
    BY <1>1, <2>1, <2>2, OnlyMarks
<1>2. ASSUME NEW w \in Threads, Blocked(w)
      PROVE  ReplayedStep
  <2> DEFINE rows == WriteDeadLetter(Cur(w).score, dlq)
  <2>1. Cur(w).score \in Scores /\ dlq' = MarkRow(Cur(w).row, "failed", rows)
    BY <1>2, CurTyped DEF Blocked
  <2>2. /\ DOMAIN rows = Kept(Ids) /\ rows \in [Kept(Ids) -> Row]
        /\ \A i \in Kept(Ids) :
             /\ i = lastId + 1 => rows[i] = [score |-> Cur(w).score, status |-> "pending"]
             /\ i # lastId + 1 => i \in DOMAIN dlq /\ rows[i] = dlq[i]
    BY <2>1, DeadLetterFacts
  <2> HIDE DEF rows
  <2>3. /\ DOMAIN dlq' = Kept(Ids)
        /\ \A i \in Kept(Ids) : /\ dlq'[i].score = rows[i].score
                                /\ dlq'[i].status = "replayed" => rows[i].status = "replayed"
    BY <2>1, <2>2, MarkRowFacts
  <2> QED
    BY <2>2, <2>3 DEF ReplayedStep
<1>3. CASE \/ \E s \in Scores : LimboResolves(s)
           \/ \E p \in Publishers : ResetCircuit(p)
           \/ PublishTick
           \/ UNCHANGED publishVars
  BY <1>3 DEF LimboResolves, ResetCircuit, PublishTick, publishVars, ReplayedStep
<1> QED
  BY <1>1, <1>2, <1>3 DEF PublishNext

-----------------------------------------------------------------------------
PublishIInv ==
    /\ PublishTypeOK /\ RowsMatch /\ RowsBounded
    /\ RecordedMeansApplied /\ Budget /\ BlockedScoreKept /\ LoneTimer

LEMMA PublishInitIInv == ASSUME FinitePipeline, PublishInit PROVE PublishIInv
<1> USE DEF PublishInit
<1>1. PICK q : /\ \E S \in {{}, Scores} : q \in SetToSeqs(S)
               /\ Len(q) <= MaxRows /\ lastId = Len(q)
               /\ dlq = [k \in 1..Len(q) |-> [score |-> q[k], status |-> "pending"]]
  OBVIOUS
<1>2. PICK S \in {{}, Scores} : q \in SetToSeqs(S)
  BY <1>1
<1>3. q \in Seq(S) /\ Len(q) \in Nat /\ \A k \in 1..Len(q) : q[k] \in Scores
  <2>1. IsFiniteSet(S) /\ S \subseteq Scores
    BY FS_EmptySet DEF FinitePipeline
  <2> QED
    BY <1>2, <2>1, ListsOfSets
<1>4. PublishTypeOK
  BY <1>1, <1>3 DEF PublishTypeOK, Circuits, Closed, NotOpened, Item, Row, FinitePipeline
<1>5. RowsMatch /\ RecordedMeansApplied /\ BlockedScoreKept
  BY <1>1, <1>3 DEF RowsMatch, RecordedMeansApplied, BlockedScoreKept
<1>6. RowsBounded
  <2>1. DOMAIN dlq = 1..Len(q)
    BY <1>1
  <2>2. Cardinality(1..Len(q)) = Len(q)
    <3>1. Len(q) \in Int /\ 1 \in Int /\ (IF 1 > Len(q) THEN 0 ELSE Len(q) - 1 + 1) = Len(q)
      BY <1>3
    <3>2. Cardinality(1..Len(q)) = IF 1 > Len(q) THEN 0 ELSE Len(q) - 1 + 1
      BY <3>1, FS_Interval, Zenon
    <3> QED
      BY <3>1, <3>2
  <2> QED
    BY <1>1, <2>1, <2>2 DEF RowsBounded
<1>7. Budget
  <2>1. \A s \in Scores : First(s) = {} /\ Second(s) = {}
    BY DEF First, Second
  <2>2. \A s \in Scores : Cardinality(First(s)) = 0 /\ Cardinality(Second(s)) = 0
    BY <2>1, FS_EmptySet
  <2> QED
    BY <2>2 DEF Budget
<1>8. LoneTimer
  BY DEF LoneTimer, Closed, Trying
<1> QED
  BY <1>4, <1>5, <1>6, <1>7, <1>8 DEF PublishIInv

LEMMA PublishNextIInv ==
  ASSUME FinitePipeline, PublishIInv, [PublishNext]_publishVars
  PROVE  PublishIInv'
<1> USE DEF PublishIInv
<1>1. TableStep /\ TodoStep /\ ChainStep /\ ReplayedStep /\ Budget' /\ LoneTimer'
  BY NextTable, NextTodo, NextBudget, NextReplayed, NextTimer
<1>2. /\ submitted' \subseteq Scores
      /\ \A s \in submitted' : s \in submitted \/ chain'[s] > 0
  BY NextSubmitted
<1>3. /\ publishPc' \in [Threads -> {"idle", "try1", "try2", "fee", "quorum"}]
      /\ \A w \in Threads : publishPc'[w] # "idle" => todo'[w] # <<>>
  <2>1. ASSUME NEW w \in Threads, Thread(w)
        PROVE  <1>3!:
    BY <2>1, PcTyped, ThreadAlone DEF Alone, PublishTypeOK
  <2>2. CASE UNCHANGED <<publishPc, todo>>
    BY <2>2 DEF PublishTypeOK
  <2> QED
    BY <2>1, <2>2 DEF PublishNext, LimboResolves, ResetCircuit, PublishTick, publishVars
<1>4. PublishTypeOK'
  BY <1>1, <1>2, <1>3, NextCircuitTypes
  DEF PublishTypeOK, Circuits, TableStep, TodoStep, ChainStep
<1>5. RowsMatch'
  <2>1. ASSUME NEW w \in Threads, NEW k \in 1..Len(todo'[w])
        PROVE  \E it \in Item : it = todo'[w][k] /\ Matches(it)'
    <3>1. todo'[w] \in Seq(Item) /\ Matches(todo'[w][k])
      BY <1>1 DEF TodoStep
    <3>2. PICK it \in Item : it = todo'[w][k] /\ Matches(it)
      BY <3>1
    <3>3. it.row \in Nat /\ it.row <= lastId' /\ it.row <= lastId
      BY <1>1, <3>2 DEF Matches, Item, TableStep, PublishTypeOK
    <3>4. it.row \in DOMAIN dlq' => dlq'[it.row].score = it.score
      BY <1>1, <3>2, <3>3 DEF Matches, TableStep
    <3> QED
      BY <3>2, <3>3, <3>4 DEF Matches
  <2> QED
    BY <2>1 DEF RowsMatch, Matches
<1>6. RowsBounded'
  BY <1>1 DEF TableStep, RowsBounded
<1>7. RecordedMeansApplied'
  BY <1>1, <1>2 DEF ChainStep, ReplayedStep, RecordedMeansApplied, PublishTypeOK, Row
<1>8. BlockedScoreKept'
  <2>1. \A i \in DOMAIN dlq \cap DOMAIN dlq' : dlq'[i].score = dlq[i].score
    BY <1>1 DEF TableStep, PublishTypeOK
  <2>2. CASE DOMAIN dlq \subseteq DOMAIN dlq'
    <3>1. /\ IsFiniteSet(DOMAIN dlq') /\ Cardinality(DOMAIN dlq) <= Cardinality(DOMAIN dlq')
          /\ Cardinality(DOMAIN dlq) \in Nat /\ Cardinality(DOMAIN dlq') \in Nat
      <4>1. lastId' \in Int /\ DOMAIN dlq' \in SUBSET (1..lastId')
        BY <1>1 DEF TableStep
      <4>2. IsFiniteSet(1..lastId')
        BY <4>1, FS_Interval
      <4>3. IsFiniteSet(DOMAIN dlq')
        BY <4>1, <4>2, FS_Subset
      <4>4. DOMAIN dlq \in SUBSET DOMAIN dlq'
        BY <2>2
      <4> QED
        BY <4>3, <4>4, FS_Subset, FS_CardinalityType
    <3>2. Cardinality(DOMAIN dlq) = MaxRows => Cardinality(DOMAIN dlq') = MaxRows
      BY <1>1, <3>1 DEF TableStep, FinitePipeline
    <3> QED
      BY <1>1, <2>1, <2>2, <3>2 DEF TableStep, BlockedScoreKept
  <2>3. CASE Cardinality(DOMAIN dlq') = MaxRows
    BY <2>3 DEF BlockedScoreKept
  <2> QED
    BY <1>1, <2>2, <2>3 DEF TableStep
<1> QED
  BY <1>1, <1>4, <1>5, <1>6, <1>7, <1>8

LEMMA OpenIsTimed == ASSUME FinitePipeline, PublishIInv PROVE OpenHasTimer
<1>1. ASSUME NEW p \in Publishers, circuit[p].state = "open", circuit[p].age = NotOpened
      PROVE  Cardinality({w \in Threads : Home(w) = p}) > 1
  <2> DEFINE T == {w \in Threads : Home(w) = p}
  <2>1. PICK v, w \in Threads : Home(v) = p /\ Home(w) = p /\ v # w
    BY <1>1 DEF PublishIInv, LoneTimer, Lone
  <2>2. IsFiniteSet(T)
    BY FS_Subset DEF FinitePipeline
  <2>3. /\ IsFiniteSet(T \ {v}) /\ Cardinality(T \ {v}) = Cardinality(T) - 1
        /\ Cardinality(T) \in Nat
    BY <2>1, <2>2, FS_RemoveElement, FS_CardinalityType
  <2>4. w \in T \ {v}
    BY <2>1
  <2> HIDE DEF T
  <2>5. Cardinality((T \ {v}) \ {w}) = Cardinality(T \ {v}) - 1
        /\ Cardinality((T \ {v}) \ {w}) \in Nat
    BY <2>3, <2>4, FS_RemoveElement, FS_CardinalityType
  <2>6. Cardinality(T) > 1
    BY <2>3, <2>5
  <2> QED
    BY <2>6 DEF T
<1> QED
  BY <1>1 DEF OpenHasTimer

LEMMA HonestByIInv == ASSUME FinitePipeline, PublishIInv PROVE PublisherIsHonest
<1>1. AtMostTwoPerCall
  <2>1. \A s \in Scores : Cardinality(First(s)) \in Nat /\ Cardinality(Second(s)) \in Nat
    <3>1. \A s \in Scores : First(s) \in SUBSET Threads /\ Second(s) \in SUBSET Threads
      BY DEF First, Second
    <3> QED
      BY <3>1, FS_Subset, FS_CardinalityType DEF FinitePipeline
  <2>2. ASSUME NEW s \in Scores
        PROVE  chain[s] + limbo[s] <= 2 * calls[s]
    <3>1. chain[s] \in Nat /\ limbo[s] \in Nat /\ calls[s] \in Nat
      BY DEF PublishIInv, PublishTypeOK
    <3> QED
      BY <2>1, <3>1 DEF PublishIInv, Budget
  <2> QED
    BY <2>2 DEF AtMostTwoPerCall
<1> QED
  BY <1>1, OpenIsTimed DEF PublishIInv, PublisherIsHonest

(* The publisher is honest for any finite set of threads and scores, any    *)
(* breaker and any cap of the dead-letter table (_execute_with_retries,     *)
(* _write_dead_letter, dlq-replay): what the tables record as published was *)
(* applied, a call applies at most two transactions, a blocked score is     *)
(* kept unless the table is full, and a publisher that one thread uses      *)
(* never has an open circuit without its timer.                             *)
THEOREM PublisherAlwaysHonest == ASSUME FinitePipeline PROVE PublishSpec => []PublisherIsHonest
<1>1. PublishInit => PublishIInv
  BY PublishInitIInv
<1>2. PublishIInv /\ [PublishNext]_publishVars => PublishIInv'
  BY PublishNextIInv
<1>3. PublishIInv => PublisherIsHonest
  BY HonestByIInv
<1> QED
  BY <1>1, <1>2, <1>3, PTL DEF PublishSpec

(* Making room in the dead-letter table (_write_dead_letter) only ever drops *)
(* the oldest rows, never the one just written, and the cap is respected.    *)
THEOREM OldestDroppedFirst == ASSUME FinitePipeline PROVE PublishSpec => PruneOldestFirst
<1>1. PublishInit => PublishIInv
  BY PublishInitIInv
<1>2. PublishIInv /\ [PublishNext]_publishVars => PublishIInv'
  BY PublishNextIInv
<1>3. PublishIInv /\ [PublishNext]_publishVars =>
        [/\ Cardinality(DOMAIN dlq') <= MaxRows
         /\ lastId' # lastId => lastId' \in DOMAIN dlq'
         /\ \A i \in DOMAIN dlq \ DOMAIN dlq', j \in DOMAIN dlq' : i < j]_publishVars
  BY NextTable DEF PublishIInv, TableStep
<1> QED
  BY <1>1, <1>2, <1>3, PTL DEF PublishSpec, PruneOldestFirst

=============================================================================
