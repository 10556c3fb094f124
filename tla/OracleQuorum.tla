---------------------------- MODULE OracleQuorum ----------------------------
(***************************************************************************)
(* detection/oracle_node.py and detection/oracle_coordinator.py: oracle    *)
(* nodes report a score, and each coordinator accepts a value that enough  *)
(* nodes report and slashes the others.  An honest node scores once per    *)
(* round (two may disagree: each has its own data); a faulty one tells     *)
(* every coordinator what it likes.  Reports are lost or late.             *)
(***************************************************************************)
EXTENDS Integers, FiniteSets

CONSTANTS Nodes,            \* the oracle set
          Faulty,           \* the nodes that lie
          Coordinators,     \* independent aggregators of the same round
          Values            \* scores

NoValue == 0

ASSUME OracleAssumption ==
    /\ IsFiniteSet(Nodes) /\ Faulty \subseteq Nodes
    /\ NoValue \notin Values

VARIABLES
    scored,     \* scored[n]: the score of honest node n, NoValue before it has one
    heard,      \* heard[c][n]: the report of n that reached c
    value,      \* value[c]: AggregationResult.value
    slashed     \* slashed[c]: slashed_nodes

vars == <<scored, heard, value, slashed>>

Honest == Nodes \ Faulty

TypeOK ==
    /\ scored \in [Nodes -> Values \cup {NoValue}]
    /\ heard \in [Coordinators -> [Nodes -> Values \cup {NoValue}]]
    /\ value \in [Coordinators -> Values \cup {NoValue}]
    /\ slashed \in [Coordinators -> SUBSET Nodes]

Init ==
    /\ scored = [n \in Nodes |-> NoValue]
    /\ heard = [c \in Coordinators |-> [n \in Nodes |-> NoValue]]
    /\ value = [c \in Coordinators |-> NoValue] /\ slashed = [c \in Coordinators |-> {}]

Score(n, v) ==
    /\ n \in Honest /\ scored[n] = NoValue /\ scored' = [scored EXCEPT ![n] = v]
    /\ UNCHANGED <<heard, value, slashed>>

\* A report reaches a coordinator that has not decided.
Report(c, n, v) ==
    /\ value[c] = NoValue /\ heard[c][n] = NoValue
    /\ n \in Honest => scored[n] = v
    /\ heard' = [heard EXCEPT ![c][n] = v]
    /\ UNCHANGED <<scored, value, slashed>>

\* f and 2f + 1 of OracleCoordinator.__init__ and BFTQuorumAggregator.__init__.
ToleratedFaults == (Cardinality(Nodes) - 1) \div 3

\* Mutant: one report short of a quorum.
RequiredQuorum_Short == 2 * ToleratedFaults

RequiredQuorum == 2 * ToleratedFaults + 1

Reporting(c, v) == {n \in Nodes : heard[c][n] = v}

\* aggregate_reports: the most common value first; a tie is broken by which
\* came first.  Without a winner nothing is slashed and more reports may come.
AggregateReports(c) ==
    /\ value[c] = NoValue
    /\ \E v \in Values :
         /\ Cardinality(Reporting(c, v)) >= RequiredQuorum
         /\ \A u \in Values : Cardinality(Reporting(c, u)) <= Cardinality(Reporting(c, v))
         /\ value' = [value EXCEPT ![c] = v]
         /\ slashed' = [slashed EXCEPT ![c] = {n \in Nodes : heard[c][n] \notin {v, NoValue}}]
    /\ UNCHANGED <<scored, heard>>

\* BFTQuorumAggregator.aggregate over the same reports: a strict majority of
\* the whole node set, so that there is at most one winner.
Majority == Cardinality(Nodes) \div 2 + 1
AggregatorWinners(c) == {v \in Values : Cardinality(Reporting(c, v)) >= Majority}

Next ==
    \/ \E n \in Nodes, v \in Values :
         Score(n, v) \/ \E c \in Coordinators : Report(c, n, v)
    \/ \E c \in Coordinators : AggregateReports(c)

Spec == Init /\ [][Next]_vars
-----------------------------------------------------------------------------
(* Quorums prevent "two conflicting values from both reaching quorum"      *)
(* while at most f nodes lie: coordinators that hear different reports     *)
(* never accept different values, neither by this rule nor by the strict   *)
(* majority of BFTQuorumAggregator, and an honest node is slashed only     *)
(* where more than f nodes disagree with it.                               *)
AcceptedAgree ==
    \A c, d \in Coordinators : NoValue \notin {value[c], value[d]} => value[c] = value[d]

MajoritiesAgree ==
    \A c, d \in Coordinators : Cardinality(AggregatorWinners(c) \cup AggregatorWinners(d)) <= 1

SlashedIsOutvoted ==
    \A c \in Coordinators, n \in Honest : n \in slashed[c] =>
        Cardinality({k \in Nodes : heard[c][k] \notin {scored[n], NoValue}}) > ToleratedFaults

QuorumsAgree ==
    Cardinality(Faulty) <= ToleratedFaults =>
        AcceptedAgree /\ MajoritiesAgree /\ SlashedIsOutvoted
=============================================================================
