--------------------------- MODULE ChainContracts ---------------------------
(*****************************************************************************)
(* What contracts accept: threshold proofs of a score, and scores signed by  *)
(* oracle nodes.                                                             *)
(*****************************************************************************)
EXTENDS Integers, FiniteSets, FiniteSetsExt

-----------------------------------------------------------------------------
(***************************************************************************)
(* detection/zk_prover.py against contracts/zk_verifier/src/lib.rs: a      *)
(* score is committed on chain, and a proof made off chain shows that the  *)
(* committed score reaches a threshold.  A point x*G + y*H is the pair     *)
(* <<x, y>> modulo the order Q (CurvePoints has the coordinates), and the  *)
(* hash of the transcript is a table filled at its first query: a verifier *)
(* that asks for another transcript than the prover's rejects.  Proofs are *)
(* made in the prover's present format and in the one of the contract's    *)
(* test vectors (zk_test_vectors.txt).  Scores are published again and     *)
(* proofs reused at any time, for any wallet and threshold.                *)
(***************************************************************************)

CONSTANTS
    Q,            \* the order of the group
    NumBits,      \* NUM_BITS
    MaxScore,     \* MAX_SCORE
    Wallets, Callers,
    Hashes,       \* the challenges the hash may give
    MaxSubmits, MaxProofs

VARIABLES
    admin,        \* ADMIN of the contract, or "none"
    store,        \* "commitments": wallet -> [p, score], p = <<>> before the first
    oracle,       \* transcripts that were hashed: set of [q, c]
    proofs,       \* proofs that were made
    answers,      \* answers of verify_threshold: [proof, wallet, threshold, p, ok]
    submits

zkVars == <<admin, store, oracle, proofs, answers, submits>>

Zq == 0 .. Q - 1
Bits == 0 .. NumBits - 1
Plus(p, q) == <<(p[1] + q[1]) % Q, (p[2] + q[2]) % Q>>
ZkTimes(n, p) == <<(n * p[1]) % Q, (n * p[2]) % Q>>
Minus(p, q) == Plus(p, ZkTimes(Q - 1, q))
G == <<1, 0>>
H == <<0, 1>>
Commit(v, r) == Plus(ZkTimes(v % Q, G), ZkTimes(r, H))      \* pedersen_commit
BitOf(d, i) == (d \div 2 ^ i) % 2
Weighted(f) == FoldSet(LAMBDA i, acc : acc + 2 ^ i * f[i], 0, Bits) % Q

ZkTypeOK ==
    /\ admin \in Callers \cup {"none"} /\ submits \in 0 .. MaxSubmits
    /\ \A w \in Wallets : store[w].p = <<>> \/ store[w].p \in Zq \X Zq

ZkInit ==
      /\ admin = "none" /\ store = [w \in Wallets |-> [p |-> <<>>, score |-> 0]]
      /\ oracle = {} /\ proofs = {} /\ answers = {} /\ submits = 0

-----------------------------------------------------------------------------
(* The prover. *)

\* The context the prover hashes into every challenge; the present one has
\* the circuit version in it.
ProverContext(fmt, w, threshold, p) ==
    [wallet |-> w, threshold |-> threshold, p |-> p, circuit |-> IF fmt = "current" THEN 1 ELSE 0]

\* _prove_bit: one branch is real and the other simulated.  R0 and R1 with
\* the simulated challenge cf and response sf, and the nonce t.
Transcript(b, B, ctx, t, cf, sf) ==
    LET simulated(X) == Minus(ZkTimes(sf, H), ZkTimes(cf, X))
    IN  [r0 |-> IF b = 0 THEN ZkTimes(t, H) ELSE simulated(B),
         r1 |-> IF b = 0 THEN simulated(Minus(B, G)) ELSE ZkTimes(t, H),
         b |-> B, ctx |-> ctx]

BitProof(b, r, B, c, t, cf, sf) ==
    LET real == (c - cf + Q) % Q
        resp == (t + real * r) % Q
    IN  IF b = 0 THEN [commit |-> B, c0 |-> real, s0 |-> resp, c1 |-> cf, s1 |-> sf]
        ELSE [commit |-> B, c0 |-> cf, s0 |-> sf, c1 |-> real, s1 |-> resp]

\* generate_threshold_proof and serialize_proof_bytes; it refuses a score
\* below the threshold.  The hash answers c to the transcripts it has not
\* seen.  _rand_scalar never repeats itself, so the draws of the n-th proof
\* are its own; which ones does not matter.
GenerateProof(fmt, w, score, threshold, c) ==
    LET n == Cardinality(proofs) + 1
        r == [i \in Bits |-> n + i]
        t == n  cf == n + 1  sf == n
        d == score - threshold
        p == Commit(score, Weighted(r))
        ctx == ProverContext(fmt, w, threshold, p)
        B == [i \in Bits |-> Commit(BitOf(d, i), r[i])]
        q == [i \in Bits |-> Transcript(BitOf(d, i), B[i], ctx, t, cf, sf)]
        asked == {q[i] : i \in Bits}
        known(x) == {e.c : e \in {f \in oracle : f.q = x}}
        hash(x) == IF known(x) = {} THEN c ELSE CHOOSE k \in known(x) : TRUE
    IN  /\ Cardinality(proofs) < MaxProofs
        /\ score >= threshold
        /\ oracle' = oracle \cup {[q |-> x, c |-> hash(x)] : x \in asked}
        /\ proofs' = proofs \cup {[fmt |-> fmt, wallet |-> w, score |-> score, threshold |-> threshold,
                                   commit |-> p,
                                   bits |-> [i \in Bits |-> BitProof(BitOf(d, i), r[i], B[i], hash(q[i]), t, cf, sf)]]}
        /\ UNCHANGED <<admin, store, answers, submits>>

-----------------------------------------------------------------------------
(* The contract. *)

\* initialize panics the second time.
Initialize(caller) ==
    /\ admin = "none" /\ admin' = caller
    /\ UNCHANGED <<store, oracle, proofs, answers, submits>>

\* submit_score, with the admin's authority, of a bundle the publisher made.
SubmitScore(caller, pr) ==
    /\ admin # "none" /\ caller = admin /\ submits < MaxSubmits
    /\ store' = [store EXCEPT ![pr.wallet] = [p |-> pr.commit, score |-> pr.score]]
    /\ submits' = submits + 1
    /\ UNCHANGED <<admin, oracle, proofs, answers>>

\* deserialise_proof: the length counts one version byte and no circuit byte.
Deserialised(pr) == pr.fmt = "vectors"

\* proof_context
Context(w, threshold, p) == [wallet |-> w, threshold |-> threshold, p |-> p, circuit |-> 0]

\* The loop over the bits: the challenge of the recomputed transcript is
\* c0 + c1.
BitHolds(bp, ctx) ==
    LET q == [r0 |-> Minus(ZkTimes(bp.s0, H), ZkTimes(bp.c0, bp.commit)),
              r1 |-> Minus(ZkTimes(bp.s1, H), ZkTimes(bp.c1, Minus(bp.commit, G))),
              b |-> bp.commit, ctx |-> ctx]
    IN  \E e \in oracle : e.q = q /\ e.c = (bp.c0 + bp.c1) % Q

\* The weighted bit commitments add up to P - T*G.
SumHolds(pr, p, threshold) ==
    FoldSet(LAMBDA i, acc : Plus(acc, ZkTimes(2 ^ i, pr.bits[i].commit)), <<0, 0>>, Bits)
        = Minus(p, ZkTimes(threshold % Q, G))

VerifyThreshold(pr, w, threshold) ==
    LET p == store[w].p
        ok == /\ p # <<>>
              /\ Deserialised(pr)
              /\ pr.commit = p
              /\ \A i \in Bits : BitHolds(pr.bits[i], Context(w, threshold, p))
              /\ SumHolds(pr, p, threshold)
    IN  /\ answers' = {[proof |-> pr, wallet |-> w, threshold |-> threshold, p |-> p, ok |-> ok]}
        /\ UNCHANGED <<admin, store, oracle, proofs, submits>>

ZkNext ==
      \/ \E c \in Callers : Initialize(c)
      \/ \E fmt \in {"current", "vectors"}, w \in Wallets, s \in 0 .. MaxScore, th \in 0 .. MaxScore,
            c \in Hashes : GenerateProof(fmt, w, s, th, c)
      \/ \E c \in Callers, pr \in proofs : SubmitScore(c, pr)
      \/ \E pr \in proofs, w \in Wallets, th \in 0 .. MaxScore : VerifyThreshold(pr, w, th)
ZkSpec == ZkInit /\ [][ZkNext]_zkVars

-----------------------------------------------------------------------------
(***************************************************************************)
(* A proof the contract accepts was made for that wallet and threshold, it *)
(* belongs to the commitment that is on chain at that moment and not to an *)
(* earlier one, and the committed score reaches the threshold.  A proof in *)
(* the format of the test vectors is accepted whenever this is so.         *)
(***************************************************************************)
AcceptedIsBound ==
    \A a \in answers :
        LET mine == /\ a.p = a.proof.commit /\ a.wallet = a.proof.wallet
                    /\ a.threshold = a.proof.threshold
        IN  /\ a.ok => mine /\ a.proof.score >= a.threshold
            /\ (mine /\ a.proof.fmt = "vectors") => a.ok

(***************************************************************************)
(* lib.rs:28-31, "verify_threshold's proof argument is the fixed-layout    *)
(* encoding produced by detection/zk_prover.py::serialize_proof_bytes":    *)
(* the proof of the commitment that is on chain is accepted.               *)
(***************************************************************************)
HonestProofVerifies ==
    \A a \in answers : (/\ a.p = a.proof.commit /\ a.wallet = a.proof.wallet
                        /\ a.threshold = a.proof.threshold) => a.ok

-----------------------------------------------------------------------------
(***************************************************************************)
(* detection/oracle_node.py signing, detection/oracle_coordinator.py       *)
(* collecting, and contracts/oracle_aggregator checking the signatures of  *)
(* a score before it invokes the score contract.  A faulty node signs      *)
(* anything; anyone may call the contract, with any signatures, again.     *)
(*                                                                         *)
(* A message is its score and timestamp: the canonical message packs every *)
(* field at a fixed width, so two messages are equal when their fields     *)
(* are.  Signatures are unforgeable: `signed' holds the honest ones.       *)
(***************************************************************************)

CONSTANTS Nodes,            \* the keys the contract was initialized with
          Faulty,           \* the nodes that lie
          Values,           \* scores
          Threshold,        \* k of the k-of-n contract
          MaxAge,           \* MAX_TIMESTAMP_AGE_SECS
          MaxTime           \* bound: ledger time

NoValue == 0
OracleTimes == 0 .. MaxTime
Message == [score : Values, ts : OracleTimes]

VARIABLES
    scored,     \* scored[n]: the score of honest node n, NoValue before it has one
    time,       \* ledger timestamp
    signed,     \* {[node, msg]}: signatures handed out
    stored      \* {[msg, at]}: submit_score invocations of the score contract

oracleVars == <<scored, time, signed, stored>>

Honest == Nodes \ Faulty

OracleTypeOK ==
    /\ scored \in [Nodes -> Values \cup {NoValue}] /\ time \in OracleTimes
    /\ signed \subseteq [node : Honest, msg : Message] /\ stored \subseteq [msg : Message, at : OracleTimes]

OracleInit == scored = [n \in Nodes |-> NoValue] /\ time = 0 /\ signed = {} /\ stored = {}

OracleTick == time < MaxTime /\ time' = time + 1 /\ UNCHANGED <<scored, signed, stored>>

Score(n, v) ==
    /\ n \in Honest /\ scored[n] = NoValue /\ scored' = [scored EXCEPT ![n] = v]
    /\ UNCHANGED <<time, signed, stored>>

\* sign_score_submission; a faulty node has done so for everything.
Sign(n, m) ==
    /\ n \in Honest /\ m.score = scored[n] /\ m.ts <= time
    /\ signed' = signed \cup {[node |-> n, msg |-> m]}
    /\ UNCHANGED <<scored, time, stored>>

Signature(n, m) == n \in Faulty \/ [node |-> n, msg |-> m] \in signed

\* Mutant: a signature counts as often as it is given.
Counted_Twice(S) == IF S \cap Faulty # {} THEN Threshold ELSE Cardinality(S)

\* The loop of submit_with_quorum over authorised keys, each once.
Counted(S) == Cardinality(S)

\* The contract: too old is refused, a timestamp ahead of the ledger is not;
\* a bad signature of an authorised key traps; then submit_score is invoked,
\* every time the same call is made.
SubmitWithQuorum(m, S) ==
    /\ ~(time > m.ts /\ time - m.ts > MaxAge)
    /\ \A n \in S : Signature(n, m)
    /\ Counted(S) >= Threshold
    /\ stored' = stored \cup {[msg |-> m, at |-> time]}
    /\ UNCHANGED <<scored, time, signed>>

OracleNext ==
          \/ OracleTick
          \/ \E n \in Nodes, v \in Values : Score(n, v)
          \/ \E m \in Message : \/ \E n \in Nodes : Sign(n, m)
                                \/ \E S \in SUBSET Nodes : SubmitWithQuorum(m, S)

OracleSpec == OracleInit /\ [][OracleNext]_oracleVars
-----------------------------------------------------------------------------
(* What reaches the score contract was scored, and signed at that very     *)
(* timestamp, by at least Threshold less the faulty nodes, and not longer  *)
(* ago than the age the contract allows: replays and repeated signatures   *)
(* get no other score in.                                                  *)
ChainScoreIsHonest ==
    \A s \in stored :
      /\ Cardinality({n \in Honest : scored[n] = s.msg.score
                                      /\ [node |-> n, msg |-> s.msg] \in signed})
           >= Threshold - Cardinality(Faulty)
      /\ s.at <= s.msg.ts + MaxAge

=============================================================================
