--------------------------- MODULE CausalAnalysis ---------------------------
(*****************************************************************************)
(* Causal explanations: the table of a wallet's effects that requests share, *)
(* and the selection of features by conditional independence.                *)
(*****************************************************************************)
EXTENDS Naturals, FiniteSets, FiniteSetsExt

-----------------------------------------------------------------------------
(* GET /scores/{wallet}/causal-explanation (api/main.py) and CausalEngine    *)
(* (causal_engine.py): every process fits one engine behind a double-checked *)
(* lock; the table of effects is cached in SQLite in two tables, the values  *)
(* and how each was estimated, which are written and read one after the      *)
(* other; answers whose refutation tests fail too often are refused.         *)

CONSTANTS Procs, ThreadIds, EffectFeatures, MaxRequests, MaxFaults

VARIABLES
    enough,     \* CAUSAL_MIN_SAMPLE_SIZE scores are stored
    fitted,     \* per process: its _causal_engine is fitted
    fits,       \* how often it was fitted
    lock,       \* holders of _causal_engine_lock
    thread,     \* per thread: [pc, table, kinds, labels, hit]
    values,     \* causal_ate_cache: feature -> how the value was really made
    methods,    \* causal_ate_method_cache: feature -> the recorded method
    together,   \* two requests were inside the cached tables at the same time
    requests, faults,
    served      \* the last answer: [values, labels, failing, tests]

effectVars == <<enough, fitted, fits, lock, thread, values, methods, together, requests,
                faults, served>>

Threads == Procs \X ThreadIds
Kinds == {"causal", "fallback"}
NoTable == [f \in {} |-> "causal"]
Idle == [pc |-> "idle", values |-> NoTable, labels |-> NoTable]
NoAnswer == [values |-> NoTable, labels |-> NoTable, failing |-> 0, tests |-> 0]
\* Between its first look at the cached table and its last write to it.
Inside(t) == thread[t].pc \in {"methods", "estimate", "saveValues", "saveMethods"}

EffectTypeOK ==
    /\ \A t \in Threads : thread[t].pc \in
            {"idle", "lock", "fit", "values", "methods", "estimate", "saveValues",
             "saveMethods", "gate"}
    /\ lock \subseteq Threads
    /\ DOMAIN values \in {{}, EffectFeatures} /\ DOMAIN methods \in {{}, EffectFeatures}

EffectInit ==
          /\ enough = FALSE /\ fitted = [p \in Procs |-> FALSE] /\ fits = [p \in Procs |-> 0]
          /\ lock = {} /\ thread = [t \in Threads |-> Idle] /\ values = NoTable /\ methods = NoTable
          /\ together = FALSE /\ requests = 0 /\ faults = 0 /\ served = NoAnswer

Goto(t, pc) == thread' = [thread EXCEPT ![t].pc = pc]
Leave(t) == thread' = [thread EXCEPT ![t] = Idle]

----------------------------------------------------------------------------
ScoresArrive ==
    /\ ~enough /\ enough' = TRUE
    /\ UNCHANGED <<fitted, fits, lock, thread, values, methods, together, requests, faults, served>>

\* causal_explanation, once its rate limit, its checks of the address and of
\* the override and the search for a score let it through (none of them writes
\* anything); the first look at the engine takes no lock.
Request(t) ==
    /\ thread[t].pc = "idle" /\ requests < MaxRequests /\ requests' = requests + 1
    /\ Goto(t, IF fitted[t[1]] THEN "values" ELSE "lock")
    /\ UNCHANGED <<enough, fitted, fits, lock, values, methods, together, faults, served>>

\* The second look, with the lock held.
Recheck(t) == fitted[t[1]]

TakeLock(t) ==
    /\ thread[t].pc = "lock" /\ \A u \in lock : u[1] # t[1]
    /\ IF Recheck(t)
       THEN Goto(t, "values") /\ UNCHANGED lock
       ELSE Goto(t, "fit") /\ lock' = lock \cup {t}
    /\ UNCHANGED <<enough, fitted, fits, values, methods, together, requests, faults, served>>

\* The engine is fitted under the lock; too few scores, or any exception,
\* releases it and answers None: 503.
Fit(t) ==
    /\ thread[t].pc = "fit" /\ lock' = lock \ {t}
    /\ \/ /\ enough /\ Goto(t, "values")
          /\ fitted' = [fitted EXCEPT ![t[1]] = TRUE] /\ fits' = [fits EXCEPT ![t[1]] = @ + 1]
       \/ Leave(t) /\ UNCHANGED <<fitted, fits>>
    /\ UNCHANGED <<enough, values, methods, together, requests, faults, served>>

----------------------------------------------------------------------------
\* feature_ate_table_detailed, for the configured model version: a hit needs
\* both tables.
ReadValues(t) ==
    /\ thread[t].pc = "values"
    /\ thread' = [thread EXCEPT ![t].pc = "methods", ![t].values = values]
    /\ together' = (together \/ \E u \in Threads \ {t} : Inside(u))
    /\ UNCHANGED <<enough, fitted, fits, lock, values, methods, requests, faults, served>>

ReadMethods(t) ==
    /\ thread[t].pc = "methods"
    /\ IF thread[t].values # NoTable /\ methods # NoTable
       THEN thread' = [thread EXCEPT ![t].pc = "gate", ![t].labels = methods]
       ELSE Goto(t, "estimate")
    /\ UNCHANGED <<enough, fitted, fits, lock, values, methods, together, requests, faults, served>>

\* A table that cannot be read is computed again.
ReadFails(t) ==
    /\ thread[t].pc \in {"values", "methods"} /\ faults < MaxFaults
    /\ faults' = faults + 1 /\ thread' = [thread EXCEPT ![t].pc = "estimate", ![t].values = NoTable]
    /\ together' = (together \/ \E u \in Threads \ {t} : Inside(u))
    /\ UNCHANGED <<enough, fitted, fits, lock, values, methods, requests, served>>

\* _estimate_ate_detailed, feature by feature: the linear coefficient stands in
\* when DoWhy is missing, the effect unidentifiable or the estimation fails.
Estimate(t, table) ==
    /\ thread[t].pc = "estimate"
    /\ thread' = [thread EXCEPT ![t].pc = "saveValues", ![t].values = table, ![t].labels = table]
    /\ UNCHANGED <<enough, fitted, fits, lock, values, methods, together, requests, faults, served>>

SaveValues(t) ==
    /\ thread[t].pc = "saveValues"
    /\ values' = thread[t].values /\ Goto(t, "saveMethods")
    /\ UNCHANGED <<enough, fitted, fits, lock, methods, together, requests, faults, served>>

SaveMethods(t) ==
    /\ thread[t].pc = "saveMethods"
    /\ methods' = thread[t].labels /\ Goto(t, "gate")
    /\ UNCHANGED <<enough, fitted, fits, lock, values, together, requests, faults, served>>

\* A write that fails is logged; the answer is given all the same.
SaveFails(t) ==
    /\ thread[t].pc \in {"saveValues", "saveMethods"} /\ faults < MaxFaults
    /\ faults' = faults + 1 /\ Goto(t, "gate")
    /\ UNCHANGED <<enough, fitted, fits, lock, values, methods, together, requests, served>>

\* all_feature_refutation_tests: three tests for every feature labelled causal,
\* without those that are now re-estimated as a fallback; an exception is
\* logged and counts as no test at all.
Refutations(labels) ==
    LET causal == Cardinality({f \in DOMAIN labels : labels[f] = "causal"})
    IN {r \in [failing : 0 .. 3 * causal, tests : {3 * n : n \in 0 .. causal}] : r.failing <= r.tests}

\* More than a third of the tests fail: 503.  What the answer adds (the top
\* features, the counterfactual) is computed from the table.
Gate(t) ==
    /\ thread[t].pc = "gate"
    /\ \E r \in Refutations(thread[t].labels) :
        IF 3 * r.failing > r.tests
        THEN UNCHANGED served
        ELSE served' = [values |-> thread[t].values, labels |-> thread[t].labels,
                        failing |-> r.failing, tests |-> r.tests]
    /\ Leave(t)
    /\ UNCHANGED <<enough, fitted, fits, lock, values, methods, together, requests, faults>>

EffectCrash(p) ==
    /\ faults < MaxFaults /\ faults' = faults + 1
    /\ \E t \in Threads : t[1] = p /\ thread[t].pc # "idle"
    /\ thread' = [t \in Threads |-> IF t[1] = p THEN Idle ELSE thread[t]]
    /\ lock' = {t \in lock : t[1] # p}
    /\ fitted' = [fitted EXCEPT ![p] = FALSE] /\ fits' = [fits EXCEPT ![p] = 0]
    /\ UNCHANGED <<enough, values, methods, together, requests, served>>

EffectNext ==
          \/ ScoresArrive
          \/ \E t \in Threads :
              \/ Request(t) \/ TakeLock(t) \/ Fit(t) \/ ReadValues(t) \/ ReadMethods(t) \/ ReadFails(t)
              \/ \E table \in [EffectFeatures -> Kinds] : Estimate(t, table)
              \/ SaveValues(t) \/ SaveMethods(t) \/ SaveFails(t) \/ Gate(t)
          \/ \E p \in Procs : EffectCrash(p)

EffectSpec == EffectInit /\ [][EffectNext]_effectVars

----------------------------------------------------------------------------
FittedOnce == \A p \in Procs : fits[p] <= 1

\* A value is served under the wrong method only after two requests were
\* between reading and writing the tables at the same time, or after two faults:
\* a read that fails over a complete table, and the second write of the new one.
ConfusedOnlyTogether ==
    \A f \in DOMAIN served.values :
        served.values[f] # served.labels[f] => together \/ faults > 1

\* A process fits its engine once however many requests arrive before it is
\* ready (_get_or_fit_causal_engine, api/main.py), and an effect is served
\* under another method than the one that produced it only when two
\* computations of the table interleaved (causal_engine.py saves values and
\* methods in two commits and reads them in two queries); one crash, failed
\* read or failed write alone does not mix them.
ExplanationsAreHonest == FittedOnce /\ ConfusedOnlyTogether

-----------------------------------------------------------------------------
(* CausalFeatureSelector.fit (causal_engine.py): the skeleton phase of the PC *)
(* algorithm.  Features are the columns 1..P in their order; whether Fisher's *)
(* test calls a feature independent of the label given a set of others is an  *)
(* arbitrary relation, drawn before the fit.                                  *)

CONSTANTS
    P,              \* number of features
    MaxConditioning \* max_conditioning_size

VARIABLES
    indep,          \* the tests that say "independent": pairs <<i, S>>
    adj,            \* features still adjacent to the label
    sep,            \* separation_sets_: removed feature -> its set
    level, i,       \* the loops' counters l and i
    removed,        \* removed_this_round
    selectionPc

selectionVars == <<indep, adj, sep, level, i, removed, selectionPc>>

SelectionFeatures == 1 .. P
Tests == {t \in SelectionFeatures \X SUBSET SelectionFeatures : t[1] \notin t[2] /\ Cardinality(t[2]) <= MaxConditioning}

SelectionTypeOK ==
    /\ indep \subseteq Tests /\ adj \subseteq SelectionFeatures /\ DOMAIN sep \subseteq SelectionFeatures
    /\ level \in 0 .. MaxConditioning /\ i \in 1 .. P + 1 /\ removed \in BOOLEAN
    /\ selectionPc \in {"draw", "scan", "done"}

SelectionInit ==
             /\ indep = {} /\ adj = SelectionFeatures /\ sep = [f \in {} |-> {}]
             /\ level = 0 /\ i = 1 /\ removed = FALSE /\ selectionPc = "draw"

\* Fewer than ten rows: every feature is selected.
TooFew ==
    /\ selectionPc = "draw" /\ selectionPc' = "done"
    /\ UNCHANGED <<indep, adj, sep, level, i, removed>>

\* The data decide what every test will answer; with too few rows for a
\* conditioning set _fishers_z_test answers FALSE.
Draw(answers) ==
    /\ selectionPc = "draw" /\ selectionPc' = "scan" /\ indep' = answers
    /\ UNCHANGED <<adj, sep, level, i, removed>>

\* The features a conditioning set for f is taken from.
Candidates(f) == adj \ {f}

Separators(f) == {S \in SUBSET Candidates(f) : Cardinality(S) = level /\ <<f, S>> \in indep}

\* combinations() yields the sets in lexicographic order: of two sets of one
\* size the earlier holds the least feature they do not share.
Before(S, T) == S # T /\ Min((S \ T) \cup (T \ S)) \in S

\* One pass of the inner loop; the first set that separates is kept.
Scan ==
    /\ selectionPc = "scan" /\ i <= P
    /\ IF i \in adj /\ Separators(i) # {}
       THEN LET S == CHOOSE S \in Separators(i) : \A T \in Separators(i) \ {S} : Before(S, T)
            IN
            /\ adj' = adj \ {i} /\ removed' = TRUE
            /\ sep' = [f \in DOMAIN sep \cup {i} |-> IF f = i THEN S ELSE sep[f]]
       ELSE UNCHANGED <<adj, sep, removed>>
    /\ i' = i + 1
    /\ UNCHANGED <<indep, level, selectionPc>>

\* A level above 0 that removes nothing ends the search.
EndOfLevel ==
    /\ selectionPc = "scan" /\ i = P + 1
    /\ IF level = MaxConditioning \/ (~removed /\ level > 0)
       THEN selectionPc' = "done" /\ UNCHANGED <<level, i, removed>>
       ELSE level' = level + 1 /\ i' = 1 /\ removed' = FALSE /\ UNCHANGED selectionPc
    /\ UNCHANGED <<indep, adj, sep>>

SelectionDone == selectionPc = "done" /\ UNCHANGED selectionVars

SelectionNext == TooFew \/ (\E answers \in SUBSET Tests : Draw(answers)) \/ Scan \/ EndOfLevel \/ SelectionDone

SelectionSpec == SelectionInit /\ [][SelectionNext]_selectionVars

----------------------------------------------------------------------------
RemovedHaveAWitness ==
    /\ DOMAIN sep = SelectionFeatures \ adj
    /\ \A f \in DOMAIN sep : <<f, sep[f]>> \in indep /\ Cardinality(sep[f]) <= level

KeptSurvived ==
    selectionPc = "done" =>
                 \A f \in adj : \A S \in SUBSET (adj \ {f}) :
                     Cardinality(S) <= level => <<f, S>> \notin indep

\* Whatever the tests answer and whatever order the removals come in, every
\* pruned feature has a recorded set that separates it from the label, and
\* every selected feature was found dependent given every set of selected
\* features up to the last level searched: removing a feature in the middle of
\* a level never hides a test that the final selection needed
\* (CausalFeatureSelector.fit).
SelectionIsJustified == RemovedHaveAWitness /\ KeptSurvived

=============================================================================
