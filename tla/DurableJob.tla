----------------------------- MODULE DurableJob ------------------------------
(***************************************************************************)
(* What the durable queues of the repository promise of one job, without   *)
(* workers, leases, clocks, polls or crashes: it is open from its          *)
(* submission on, ends once and for all as done, or as dead at failure     *)
(* number MaxFailures and at no other, and nothing else happens to it.     *)
(*                                                                         *)
(* "void" is the case each queue excludes from its promise; the mapping of *)
(* the implementing module says which it is.                               *)
(***************************************************************************)
EXTENDS Naturals

CONSTANTS Jobs, MaxFailures

VARIABLES job,      \* job[j]: "absent" | "open" | "done" | "dead" | "void"
          tries     \* tries[j]: failures of job j so far

vars == <<job, tries>>

Init == job = [j \in Jobs |-> "absent"] /\ tries = [j \in Jobs |-> 0]

Submit(j) == /\ job[j] = "absent"
             /\ job' = [job EXCEPT ![j] = "open"] /\ UNCHANGED tries

Finish(j) == /\ job[j] = "open"
             /\ job' = [job EXCEPT ![j] = "done"] /\ UNCHANGED tries

Fail(j) == /\ job[j] = "open" /\ tries[j] < MaxFailures
           /\ tries' = [tries EXCEPT ![j] = tries[j] + 1]
           /\ job' = IF tries[j] + 1 = MaxFailures THEN [job EXCEPT ![j] = "dead"] ELSE job

Void(S) == /\ job' = [j \in Jobs |-> IF j \in S THEN "void" ELSE job[j]]
           /\ tries' = [j \in Jobs |-> IF j \in S THEN 0 ELSE tries[j]]

Next == \/ \E j \in Jobs : Submit(j) \/ Finish(j) \/ Fail(j)
        \/ \E S \in SUBSET Jobs : Void(S)

Spec == Init /\ [][Next]_vars
=============================================================================
