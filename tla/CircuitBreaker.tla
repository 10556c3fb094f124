--------------------------- MODULE CircuitBreaker ---------------------------
(***************************************************************************)
(* utils/circuit_breaker.py: the thread-safe breaker that wraps Horizon,   *)
(* Redis and EVM calls.  Every method body runs under one lock, so a       *)
(* method is one action; the wrapped call itself runs outside the lock,    *)
(* between allow_request and record_success / record_failure.              *)
(*                                                                         *)
(* Time is the age of _opened_at: `age' counts time units since the        *)
(* circuit (re-)opened and stops at RecoveryTimeout, the only value it is  *)
(* ever compared with.  _failure_count is kept up to FailureThreshold for  *)
(* the same reason.                                                        *)
(***************************************************************************)
EXTENDS Integers

CONSTANTS Callers,            \* threads that share the breaker
          FailureThreshold,   \* consecutive failures that open the circuit
          RecoveryTimeout     \* time units spent OPEN before a probe

ASSUME BreakerAssumption ==
    /\ FailureThreshold \in Nat \ {0}
    /\ RecoveryTimeout \in Nat \ {0}

VARIABLES state,        \* self._state
          failureCount, \* self._failure_count
          age,          \* time.monotonic() - self._opened_at, or NotOpened
          calling       \* calling[c]: c is inside the wrapped function

vars == <<state, failureCount, age, calling>>

NotOpened == -1
CircuitState == {"closed", "open", "half_open"}

TypeOK ==
    /\ state \in CircuitState
    /\ failureCount \in 0..FailureThreshold
    /\ age \in {NotOpened} \cup 0..RecoveryTimeout
    /\ calling \in [Callers -> BOOLEAN]

Init ==
    /\ state = "closed"
    /\ failureCount = 0
    /\ age = NotOpened
    /\ calling = [c \in Callers |-> FALSE]

-----------------------------------------------------------------------------

\* _maybe_transition_to_half_open, as the state it leaves behind.
MaybeHalfOpen ==
    IF state = "open" /\ age # NotOpened /\ age >= RecoveryTimeout
      THEN "half_open"
      ELSE state

\* call(): allow_request says yes and the wrapped function starts.
CallAdmitted(c) ==
    /\ ~calling[c]
    /\ MaybeHalfOpen # "open"
    /\ state' = MaybeHalfOpen
    /\ calling' = [calling EXCEPT ![c] = TRUE]
    /\ UNCHANGED <<failureCount, age>>

\* The state property: inspecting the breaker applies the same transition.
Inspect ==
    /\ MaybeHalfOpen # state
    /\ state' = MaybeHalfOpen
    /\ UNCHANGED <<failureCount, age, calling>>

Close ==
    /\ state' = "closed"
    /\ age' = NotOpened
    /\ failureCount' = 0

\* Mutant: a circuit that re-opens after a failed probe keeps no timer.
Open_NoTimer ==
    /\ state' = "open"
    /\ age' = IF state = "half_open" THEN NotOpened ELSE 0

\* _open: also restarts the recovery timer of a circuit that is open already.
Open ==
    /\ state' = "open"
    /\ age' = 0

\* Mutant: only the half-open probe may close; a late success of an earlier
\* call clears the counter and the timer and leaves the circuit open.
RecordSuccess_ProbeOnly(c) ==
    /\ calling[c]
    /\ calling' = [calling EXCEPT ![c] = FALSE]
    /\ IF state = "half_open"
         THEN Close
         ELSE failureCount' = 0 /\ age' = NotOpened /\ UNCHANGED state

RecordSuccess(c) ==
    /\ calling[c]
    /\ calling' = [calling EXCEPT ![c] = FALSE]
    /\ IF state # "closed"
         THEN Close
         ELSE failureCount' = 0 /\ UNCHANGED <<state, age>>

Bumped == IF failureCount < FailureThreshold THEN failureCount + 1
                                             ELSE failureCount

RecordFailure(c) ==
    /\ calling[c]
    /\ calling' = [calling EXCEPT ![c] = FALSE]
    /\ failureCount' = Bumped
    /\ IF state = "half_open" \/ Bumped >= FailureThreshold
         THEN Open
         ELSE UNCHANGED <<state, age>>

Tick ==
    /\ age # NotOpened
    /\ age < RecoveryTimeout
    /\ age' = age + 1
    /\ UNCHANGED <<state, failureCount, calling>>

Next ==
    \/ \E c \in Callers : CallAdmitted(c) \/ RecordSuccess(c) \/ RecordFailure(c)
    \/ Inspect
    \/ Tick

Spec == Init /\ [][Next]_vars

\* Time passes, callers keep calling, and every wrapped call returns or
\* raises (each has a socket timeout).
Fairness ==
    /\ WF_vars(Tick)
    /\ \A c \in Callers : /\ WF_vars(CallAdmitted(c))
                          /\ WF_vars(RecordSuccess(c) \/ RecordFailure(c))

FairSpec == Spec /\ Fairness
-----------------------------------------------------------------------------
(* The state, the failure counter and the recovery timer never disagree,   *)
(* whatever late outcomes of calls admitted before the circuit opened are  *)
(* recorded: it is closed exactly while fewer than FailureThreshold        *)
(* consecutive failures are counted, and exactly then has no timer.        *)
BookkeepingAgrees ==
    /\ (state = "closed") <=> (failureCount < FailureThreshold)
    /\ (state = "closed") <=> (age = NotOpened)

(* An open circuit is eventually probed or closed: neither a lost timer    *)
(* nor late failures restarting it keep it open forever.                   *)
OpenIsLeft == (state = "open") ~> (state # "open")

(* No call starts inside the recovery window of an open circuit; while it  *)
(* is open, callers only drain.                                            *)
NoCallInsideWindow ==
    [][\A c \in Callers : ~calling[c] /\ calling'[c] =>
          ~(state = "open" /\ age < RecoveryTimeout)]_vars
=============================================================================
