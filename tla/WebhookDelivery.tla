--------------------------- MODULE WebhookDelivery ---------------------------
(***************************************************************************)
(* The webhook queue (detection/webhook_queue.py), the delivery worker     *)
(* (detection/webhook_worker.py) and what they use of the registry         *)
(* (detection/webhook_registry.py).                                        *)
(*                                                                         *)
(* `line' holds the pending rows in the order of next_attempt_at; the      *)
(* first `due' of them are due.  A poll starts one task per row and awaits *)
(* all of them with asyncio.gather, which returns early when a task raises *)
(* and leaves the other tasks running: `gen' tells the awaited tasks from  *)
(* those.  Bound: a poll waits for the tasks of the gather before last.    *)
(***************************************************************************)
EXTENDS Integers, Sequences, SequencesExt, FiniteSets

CONSTANTS Rows,          \* rows of webhook_delivery_queue
          Subscribers,
          Owner,         \* Owner[r]: subscriber_id of row r
          Losable,       \* subscribers whose secret may become undecryptable
          MaxAttempts,   \* MAX_ATTEMPTS
          Limit,         \* LIMIT of get_due_deliveries
          MaxConcurrent, \* MAX_CONCURRENT
          MaxCrashes     \* bound on worker restarts

ASSUME WebhookAssumption ==
    /\ Owner \in [Rows -> Subscribers] /\ Losable \subseteq Subscribers
    /\ MaxAttempts \in Nat \ {0} /\ Limit \in Nat \ {0}
    /\ MaxConcurrent \in Nat \ {0} /\ MaxCrashes \in Nat

VARIABLES status,     \* status[r], "none" before the insert
          attempts,   \* attempt_count
          line, due,
          received,   \* rows whose POST reached the subscriber
          tasks,      \* the worker's delivery tasks
          gen,        \* the gather the worker awaits
          raised,     \* a task of it raised
          active,     \* active subscribers
          unreadable, \* subscribers whose secret cannot be decrypted
          crashes

vars == <<status, attempts, line, due, received, tasks, gen, raised, active,
          unreadable, crashes>>
queue == <<status, attempts, line, due>>
worker == <<tasks, gen, raised>>
registry == <<active, unreadable>>

Task == [gen: {0, 1}, row: Rows, at: {"polled", "posting", "arrived"}]

TypeOK ==
    /\ status \in [Rows -> {"none", "pending", "delivered", "dead"}]
    /\ attempts \in [Rows -> 0..MaxAttempts]
    /\ IsInjective(line) /\ ToSet(line) = {r \in Rows : status[r] = "pending"}
    /\ due \in 0..Len(line)
    /\ received \subseteq Rows
    /\ tasks \subseteq Task
    /\ gen \in {0, 1} /\ raised \in BOOLEAN
    /\ active \subseteq Subscribers /\ unreadable \subseteq Losable
    /\ crashes \in 0..MaxCrashes

Init ==
    /\ status = [r \in Rows |-> "none"]
    /\ attempts = [r \in Rows |-> 0]
    /\ line = <<>> /\ due = 0
    /\ received = {} /\ tasks = {} /\ gen = 0 /\ raised = FALSE
    /\ active = Subscribers /\ unreadable = {}
    /\ crashes = 0

-----------------------------------------------------------------------------
(* The queue table.                                                        *)

\* The line without row r, which is in it once if at all.
Without(r) == IF r \in ToSet(line)
                THEN RemoveAt(line, CHOOSE i \in DOMAIN line : line[i] = r)
                ELSE line

\* How many rows are due once r has left the line.
DueWithout(r) == IF r \in ToSet(SubSeq(line, 1, due)) THEN due - 1 ELSE due

\* _enqueue_webhook_alerts for one matching subscriber.  Listing the
\* subscribers decrypts every active secret; the exception is swallowed.
Enqueue(r) ==
    /\ status[r] = "none"
    /\ Owner[r] \in active /\ active \cap unreadable = {}
    /\ status' = [status EXCEPT ![r] = "pending"]
    /\ line' = InsertAt(line, due + 1, r)
    /\ due' = due + 1
    /\ UNCHANGED <<attempts, received, worker, registry, crashes>>

\* The next_attempt_at of one more row passes.
TimePasses ==
    /\ due < Len(line)
    /\ due' = due + 1
    /\ UNCHANGED <<status, attempts, line, received, worker, registry, crashes>>

MarkDelivered(r) ==
    /\ status' = [status EXCEPT ![r] = "delivered"]
    /\ line' = Without(r)
    /\ due' = DueWithout(r)
    /\ UNCHANGED attempts

Exhausted(r) == attempts[r] + 1 >= MaxAttempts

\* Mutant: the new attempt count is not stored.
MarkFailed_NotCounted(r) ==
    /\ UNCHANGED attempts
    /\ LET rest == Without(r)
           still == DueWithout(r)
       IN \/ /\ Exhausted(r)
             /\ status' = [status EXCEPT ![r] = "dead"]
             /\ line' = rest /\ due' = still
          \/ /\ ~Exhausted(r)
             /\ status' = [status EXCEPT ![r] = "pending"]
             /\ \E i \in (still + 1)..(Len(rest) + 1) :
                   line' = InsertAt(rest, i, r)
             /\ due' = still

\* A row that is tried again comes after every due row; where among the
\* later ones depends on the backoff and its jitter.  Bound: attempt_count
\* is not counted past MaxAttempts, which only a row tried twice at a time
\* exceeds.
MarkFailed(r) ==
    /\ attempts' = [attempts EXCEPT
                     ![r] = IF @ < MaxAttempts THEN @ + 1 ELSE @]
    /\ LET rest == Without(r)
           still == DueWithout(r)
       IN \/ /\ Exhausted(r)
             /\ status' = [status EXCEPT ![r] = "dead"]
             /\ line' = rest /\ due' = still
          \/ /\ ~Exhausted(r)
             /\ status' = [status EXCEPT ![r] = "pending"]
             /\ \E i \in (still + 1)..(Len(rest) + 1) :
                   line' = InsertAt(rest, i, r)
             /\ due' = still

-----------------------------------------------------------------------------
(* The worker.                                                             *)

Awaited == {t \in tasks : t.gen = gen}

\* Mutant: the loop does not await its tasks.
GatherOver_NotAwaited == TRUE

GatherOver == raised \/ Awaited = {}

\* get_due_deliveries; the worker goes on to await a task per row.
Poll ==
    /\ GatherOver
    /\ due > 0
    /\ LET g == IF Awaited = {} THEN gen ELSE 1 - gen
           batch == ToSet(SubSeq(line, 1, IF due < Limit THEN due ELSE Limit))
       IN /\ \A t \in tasks : t.gen # g
          /\ gen' = g
          /\ tasks' = tasks \cup [gen: {g}, row: batch, at: {"polled"}]
    /\ raised' = FALSE
    /\ UNCHANGED <<queue, received, registry, crashes>>

Advance(t, at) == tasks' = (tasks \ {t}) \cup {[t EXCEPT !.at = at]}

\* _deliver_one up to the POST: the row of a subscriber that is not active
\* is left as it is, an undecryptable secret raises.
LookUp(t) ==
    /\ t.at = "polled"
    /\ Cardinality({u \in tasks : u.gen = t.gen /\ u.at # "polled"})
          < MaxConcurrent
    /\ \/ /\ Owner[t.row] \in unreadable
          /\ tasks' = tasks \ {t}
          /\ raised' = (raised \/ t.gen = gen)
       \/ /\ Owner[t.row] \notin unreadable \cup active
          /\ tasks' = tasks \ {t}
          /\ UNCHANGED raised
       \/ /\ Owner[t.row] \in active \ unreadable
          /\ Advance(t, "posting")
          /\ UNCHANGED raised
    /\ UNCHANGED <<queue, received, gen, registry, crashes>>

\* The POST reaches the subscriber.
Arrive(t) ==
    /\ t.at = "posting"
    /\ Advance(t, "arrived")
    /\ received' = received \cup {t.row}
    /\ UNCHANGED <<queue, gen, raised, registry, crashes>>

\* Mutant: any answer counts as an acknowledgement.
Acknowledge_AnyAnswer(t) ==
    /\ t.at \in {"posting", "arrived"}
    /\ tasks' = tasks \ {t}
    /\ MarkDelivered(t.row)
    /\ UNCHANGED <<received, gen, raised, registry, crashes>>

\* A 2xx answer.
Acknowledge(t) ==
    /\ t.at = "arrived"
    /\ tasks' = tasks \ {t}
    /\ MarkDelivered(t.row)
    /\ UNCHANGED <<received, gen, raised, registry, crashes>>

\* An error status, a timeout or a connection error, before or after the
\* POST reached the subscriber.
Fail(t) ==
    /\ t.at \in {"posting", "arrived"}
    /\ tasks' = tasks \ {t}
    /\ MarkFailed(t.row)
    /\ UNCHANGED <<received, gen, raised, registry, crashes>>

\* The worker process dies and is started again.
Restart ==
    /\ crashes < MaxCrashes
    /\ crashes' = crashes + 1
    /\ tasks' = {} /\ raised' = FALSE
    /\ UNCHANGED <<queue, received, gen, registry>>

-----------------------------------------------------------------------------
(* The registry.                                                           *)

Deactivate(s) ==
    /\ s \in active
    /\ active' = active \ {s}
    /\ UNCHANGED <<queue, received, worker, unreadable, crashes>>

\* The key that encrypted the secret of s is neither the current nor the
\* previous one any more.
LoseKey(s) ==
    /\ s \in Losable \ unreadable
    /\ unreadable' = unreadable \cup {s}
    /\ UNCHANGED <<queue, received, worker, active, crashes>>

TaskStep(t) == LookUp(t) \/ Arrive(t) \/ Acknowledge(t) \/ Fail(t)

Next ==
    \/ \E r \in Rows : Enqueue(r)
    \/ TimePasses
    \/ Poll
    \/ \E t \in tasks : TaskStep(t)
    \/ Restart
    \/ \E s \in Subscribers : Deactivate(s) \/ LoseKey(s)

Spec == Init /\ [][Next]_vars

\* Time passes, the loop keeps polling and every started task ends (a POST
\* by its timeout).
FairSpec ==
    /\ Spec
    /\ WF_vars(TimePasses) /\ WF_vars(Poll)
    /\ \A t \in Task : WF_vars(t \in tasks /\ TaskStep(t))

-----------------------------------------------------------------------------
(* A row is marked delivered only if its payload reached the subscriber:   *)
(* mark_delivered is behind raise_for_status.                              *)
DeliveredMeansReceived ==
    \A r \in Rows : status[r] = "delivered" => r \in received

\* What DurableJob sees of a row; an unreadable secret voids the promise.
Job(r) == IF unreadable # {} THEN "void"
          ELSE IF status[r] = "none" THEN "absent"
          ELSE IF status[r] = "pending" THEN "open"
          ELSE IF status[r] = "delivered" THEN "done" ELSE "dead"
Tries(r) == IF unreadable # {} THEN 0 ELSE attempts[r]

Durable == INSTANCE DurableJob WITH
    Jobs <- Rows, MaxFailures <- MaxAttempts,
    job <- [r \in Rows |-> Job(r)],
    tries <- [r \in Rows |-> Tries(r)]

(* "Items stay pending until acknowledged" (webhook_queue.py): however     *)
(* polls, failures and restarts interleave, a row goes through the life of *)
(* a durable job, delivered once or dead at attempt MAX_ATTEMPTS, as long  *)
(* as every secret can be read.  Once one cannot, gather returns early and *)
(* a row may be tried twice at a time.                                     *)
ImplementsDurableJob == Durable!Spec

(* The worker "delivers due webhooks", and a subscriber it cannot serve    *)
(* does not keep it from the others: a pending row of an active subscriber *)
(* whose secret can be read is delivered or dead in the end.               *)
AlertsSettle ==
    \A r \in Rows :
        status[r] = "pending"
            ~> \/ status[r] \in {"delivered", "dead"}
               \/ Owner[r] \notin active \ unreadable
=============================================================================
