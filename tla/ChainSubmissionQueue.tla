------------------------ MODULE ChainSubmissionQueue ------------------------
(***************************************************************************)
(* detection/chain_submission_queue.py: the durable queue of on-chain      *)
(* writes.  Workers claim the best due row under a lease, and report a     *)
(* failed attempt with the row they read when they claimed it.  Every      *)
(* operation is one SQLite transaction, so one action.                     *)
(*                                                                         *)
(* A worker may die, or be so slow that its lease runs out before it       *)
(* reports: record_failure does not ask who holds the row, and `late' are  *)
(* the rows that met such a report.  The worker loop that would mark a row *)
(* 'submitted' is not in the repository, and not modelled.                 *)
(***************************************************************************)
EXTENDS Integers

CONSTANTS Rows,          \* row ids of pending_chain_submissions
          Workers,
          Priority,      \* Priority[r]: priority column
          MaxAttempts,   \* max_attempts column
          LeaseSeconds, BackoffBase, BackoffCap,   \* in time units
          MaxTime        \* bound on the clock

ASSUME QueueAssumption ==
    /\ Rows \subseteq Nat
    /\ Priority \in [Rows -> Nat]
    /\ MaxAttempts \in Nat \ {0}
    /\ LeaseSeconds \in Nat \ {0}
    /\ BackoffBase \in Nat \ {0} /\ BackoffCap \in Nat \ {0}
    /\ MaxTime \in Nat

VARIABLES now,
          status, attempts, due, lease,  \* columns; due = next_attempt_at,
                                         \* lease = leased_until
          claimed,   \* claimed[w]: the row w works on, or NoRow
          seen,      \* seen[w]: the attempts column w read when it claimed
          until,     \* until[w]: the end of the lease w took
          failures,  \* history: failures reported per row
          late       \* history: rows a worker reported on after its lease

vars == <<now, status, attempts, due, lease, claimed, seen, until, failures, late>>
rowVars == <<status, attempts, due, lease>>
workerVars == <<claimed, seen, until>>

NoRow == -1
NoLease == 0
Statuses == {"absent", "pending", "in_flight", "dead_letter"}

TypeOK ==
    /\ now \in Nat
    /\ status \in [Rows -> Statuses]
    /\ attempts \in [Rows -> Nat]
    /\ due \in [Rows -> Nat]
    /\ lease \in [Rows -> Nat]
    /\ claimed \in [Workers -> Rows \cup {NoRow}]
    /\ seen \in [Workers -> Nat]
    /\ until \in [Workers -> Nat]
    /\ failures \in [Rows -> Nat]
    /\ late \subseteq Rows

Init ==
    /\ now = 0
    /\ status = [r \in Rows |-> "absent"]
    /\ attempts = [r \in Rows |-> 0]
    /\ due = [r \in Rows |-> 0]
    /\ lease = [r \in Rows |-> NoLease]
    /\ claimed = [w \in Workers |-> NoRow]
    /\ seen = [w \in Workers |-> 0]
    /\ until = [w \in Workers |-> 0]
    /\ failures = [r \in Rows |-> 0]
    /\ late = {}

-----------------------------------------------------------------------------
\* _backoff_seconds: exponential, capped, with a quarter of jitter each way.
Exp == [a \in Nat |-> 2^a]
Backoff(a) == LET base == BackoffBase * Exp[a - 1]
              IN  IF base < BackoffCap THEN base ELSE BackoffCap

Delays(a) == {d \in (Backoff(a) - Backoff(a) \div 4)..(Backoff(a) + Backoff(a) \div 4) :
                 d <= BackoffCap}

\* enqueue_override_submission; INSERT OR IGNORE makes a second one a no-op.
Enqueue(r) ==
    /\ status[r] = "absent"
    /\ status' = [status EXCEPT ![r] = "pending"]
    /\ due' = [due EXCEPT ![r] = now]
    /\ UNCHANGED <<now, attempts, lease, workerVars, failures, late>>

\* Mutant: a row in flight is due whatever its lease.
IsDue_AnyLease(r) == due[r] <= now /\ status[r] \in {"pending", "in_flight"}

\* Mutant: the status filter lets dead-lettered rows through.
IsDue_DeadLetters(r) ==
    /\ due[r] <= now
    /\ status[r] = "in_flight" => lease[r] <= now
    /\ status[r] # "absent"

IsDue(r) ==
    /\ due[r] <= now
    /\ \/ status[r] = "pending"
       \/ status[r] = "in_flight" /\ lease[r] <= now

\* ORDER BY priority DESC, next_attempt_at ASC, id ASC
Before(r, q) ==
    \/ Priority[r] > Priority[q]
    \/ /\ Priority[r] = Priority[q]
       /\ due[r] < due[q] \/ (due[r] = due[q] /\ r <= q)

\* claim_next_due
Claim(w, r) ==
    /\ claimed[w] = NoRow
    /\ IsDue(r)
    /\ \A q \in Rows : IsDue(q) => Before(r, q)
    /\ status' = [status EXCEPT ![r] = "in_flight"]
    /\ lease' = [lease EXCEPT ![r] = now + LeaseSeconds]
    /\ claimed' = [claimed EXCEPT ![w] = r]
    /\ seen' = [seen EXCEPT ![w] = attempts[r]]
    /\ until' = [until EXCEPT ![w] = now + LeaseSeconds]
    /\ UNCHANGED <<now, attempts, due, failures, late>>

Exhausted(w) == seen[w] + 1 >= MaxAttempts

\* _dead_letter: a terminal status; the attempts column is left as it is.
DeadLetter(r) ==
    /\ status' = [status EXCEPT ![r] = "dead_letter"]
    /\ UNCHANGED <<attempts, due>>

\* Mutant: the row is scheduled again without storing the new count.
Retry_NotCounted(w, r) ==
    /\ status' = [status EXCEPT ![r] = "pending"]
    /\ \E d \in Delays(seen[w] + 1) : due' = [due EXCEPT ![r] = now + d]
    /\ UNCHANGED attempts

Retry(w, r) ==
    /\ status' = [status EXCEPT ![r] = "pending"]
    /\ attempts' = [attempts EXCEPT ![r] = seen[w] + 1]
    /\ \E d \in Delays(seen[w] + 1) : due' = [due EXCEPT ![r] = now + d]

\* The worker drops the row it holds in memory.
Release(w) ==
    /\ claimed' = [claimed EXCEPT ![w] = NoRow]
    /\ seen' = [seen EXCEPT ![w] = 0]
    /\ until' = [until EXCEPT ![w] = 0]

\* record_failure: the update names the row by id only.
RecordFailure(w) ==
    LET r == claimed[w] IN
    /\ r # NoRow
    /\ \/ Exhausted(w) /\ DeadLetter(r)
       \/ ~Exhausted(w) /\ Retry(w, r)
    /\ lease' = [lease EXCEPT ![r] = NoLease]
    /\ Release(w)
    /\ failures' = [failures EXCEPT ![r] = @ + 1]
    /\ late' = IF now < until[w] THEN late ELSE late \cup {r}
    /\ UNCHANGED now

\* The worker's process dies; its row stays in flight until the lease ends.
Die(w) ==
    /\ claimed[w] # NoRow
    /\ Release(w)
    /\ UNCHANGED <<now, rowVars, failures, late>>

Tick ==
    /\ now < MaxTime
    /\ now' = now + 1
    /\ UNCHANGED <<rowVars, workerVars, failures, late>>

Next ==
    \/ \E r \in Rows : Enqueue(r)
    \/ \E w \in Workers : \/ \E r \in Rows : Claim(w, r)
                          \/ RecordFailure(w)
                          \/ Die(w)
    \/ Tick

Spec == Init /\ [][Next]_vars
-----------------------------------------------------------------------------
Live(w) == claimed[w] # NoRow /\ now < until[w]

(* chain_submission_queue.py:31-34: "a row is never worked twice            *)
(* concurrently": no two workers hold leases on one row at the same time,  *)
(* unless a worker that had outlived its lease reported on that very row.  *)
SingleFlight ==
    \A v, w \in Workers :
        v # w /\ Live(v) /\ Live(w) /\ claimed[v] = claimed[w]
            => claimed[v] \in late

(* The retry budget is exact: the attempts column counts the failures      *)
(* reported, whatever workers died in between, and a row is dead-lettered  *)
(* at failure number MaxAttempts and not before; a late report on one row  *)
(* does not disturb another.                                               *)
AttemptsCountFailures ==
    \A r \in Rows \ late :
        IF status[r] = "dead_letter"
          THEN failures[r] = MaxAttempts
          ELSE failures[r] = attempts[r] /\ attempts[r] < MaxAttempts

(* A worker that still holds its lease finds the row as it claimed it,     *)
(* unless a late report came in between.                                   *)
LeaseProtects ==
    \A w \in Workers : Live(w) /\ claimed[w] \notin late =>
        /\ status[claimed[w]] = "in_flight"
        /\ lease[claimed[w]] = until[w]
        /\ attempts[claimed[w]] = seen[w]

\* What DurableJob sees of a row; a late report voids the promise for it.
Job(r) == IF r \in late THEN "void"
          ELSE IF status[r] = "absent" THEN "absent"
          ELSE IF status[r] = "dead_letter" THEN "dead" ELSE "open"
Tries(r) == IF r \in late THEN 0 ELSE failures[r]

Durable == INSTANCE DurableJob WITH
    Jobs <- Rows, MaxFailures <- MaxAttempts,
    job <- [r \in Rows |-> Job(r)],
    tries <- [r \in Rows |-> Tries(r)]

(* chain_submission_queue.py:62-63 ("'submitted', 'abandoned' and           *)
(* 'dead_letter' are terminal") and 31-34: whatever workers claim, outlive  *)
(* their lease or die, a row without a late report goes through the life    *)
(* of a durable job: open once, counted failures, dead at the budget's end  *)
(* and never revived.                                                       *)
ImplementsDurableJob == Durable!Spec
=============================================================================
