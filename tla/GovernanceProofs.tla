-------------------------- MODULE GovernanceProofs --------------------------
(***************************************************************************)
(* Governance of any committee, any number of proposals and any number of  *)
(* concurrent callers of close_proposal.                                   *)
(*                                                                         *)
(* The sign-off chain is decided by MaySign and is never undone; the vote  *)
(* is decided by calls of close_proposal that may overlap, but only for a  *)
(* proposal whose voting has ended.  What execute_proposal checks under    *)
(* its exclusive lock still holds when it commits: while the lock is held  *)
(* nothing writes the rows it has read.                                    *)
(***************************************************************************)
EXTENDS Governance, TLAPS

\* Nobody signs a proposal before it is made.
UnsignedUntilMade ==
    \A p \in Proposals : status[p] = None => \A r \in AllRoles : signed[p][r] = Nobody

\* A role is signed by someone else than the proposer and every other role's signer.
SignersDiffer ==
    \A p \in Proposals, r \in AllRoles : signed[p][r] # Nobody =>
        /\ signed[p][r] # proposer[p]
        /\ \A q \in AllRoles : q # r => signed[p][q] # signed[p][r]

\* Only a proposal whose voting has ended is being closed, and closed one by one it
\* is still active.
ClosingIsEnded ==
    \A c \in Closers :
        /\ closing[c].outcome # None => closing[c].p # None
        /\ closing[c].p # None => closing[c].p \in ended /\ status[closing[c].p] # None

ClosedAlone ==
    \A c \in Closers : closing[c].p \notin contested \cup {None} =>
        /\ status[closing[c].p] = "active"
        /\ \A b \in Closers : closing[b].p = closing[c].p => b = c

PassedIsEnded == \A p \in Proposals : status[p] = "passed" => p \in ended

\* What is being executed is approved until it is unlocked.
LockedIsApproved == lock # None => Approved(lock)

\* What is live, or was executed, had every sign-off of its policy.
LiveWasSigned ==
    \A t \in Targets : live[t] # None =>
        /\ live[t] \in ended \cap evidence
        /\ status[live[t]] # None /\ kind[live[t]] = t
        /\ \A r \in Roles(live[t]) : signed[live[t]][r] # Nobody

ExecutedWasSigned ==
    \A p \in Proposals : status[p] = "executed" =>
        p \in records /\ \A r \in Roles(p) : signed[p][r] # Nobody

Chain == UnsignedUntilMade /\ SignersDiffer /\ LiveWasSigned /\ ExecutedWasSigned
Closing == ClosingIsEnded /\ ClosedAlone /\ PassedIsEnded

IInv == TypeOK /\ Chain /\ Closing /\ LockedIsApproved /\ RuntimeIsRecorded
-----------------------------------------------------------------------------
\* The policies name only the roles that exist.
LEMMA RolesAreRoles == ASSUME NEW p \in Proposals PROVE Roles(p) \subseteq AllRoles
  BY DEF Roles, AllRoles

LEMMA InitIInv == Init => IInv
<1> SUFFICES ASSUME Init PROVE IInv
  OBVIOUS
<1>1. TypeOK
  BY GovernanceAssumption DEF Init, TypeOK, NotClosing, Statuses, None, Nobody
<1>2. Chain
  BY DEF Init, Chain, UnsignedUntilMade, SignersDiffer, LiveWasSigned, ExecutedWasSigned,
         None, Nobody
<1>3. Closing
  BY DEF Init, Closing, ClosingIsEnded, ClosedAlone, PassedIsEnded, NotClosing, None
<1> QED
  BY <1>1, <1>2, <1>3 DEF Init, IInv, LockedIsApproved, RuntimeIsRecorded

\* The proposals a step changes nothing about keep their chain.
LEMMA ChainUnchanged ==
  ASSUME Chain,
         UNCHANGED <<kind, status, proposer, signed, evidence, live>>,
         ended \subseteq ended', records \subseteq records'
  PROVE  Chain'
  BY DEF Chain, UnsignedUntilMade, SignersDiffer, LiveWasSigned, ExecutedWasSigned, Roles

LEMMA ClosingUnchanged ==
  ASSUME Closing, UNCHANGED <<status, closing, contested>>, ended \subseteq ended'
  PROVE  Closing'
  BY DEF Closing, ClosingIsEnded, ClosedAlone, PassedIsEnded

LEMMA LockUnchanged ==
  ASSUME LockedIsApproved, UNCHANGED <<kind, status, signed, evidence, lock>>
  PROVE  LockedIsApproved'
  BY DEF LockedIsApproved, Approved, Roles

-----------------------------------------------------------------------------
(* Proposals, votes, sign-offs.                                            *)

LEMMA CreateProposalIInv ==
  ASSUME IInv, NEW p \in Proposals, NEW m \in Members, NEW k \in Kinds, CreateProposal(p, m, k)
  PROVE  IInv'
<1>1. /\ lock = None /\ status[p] = None
      /\ kind' = [kind EXCEPT ![p] = k] /\ status' = [status EXCEPT ![p] = "active"]
      /\ proposer' = [proposer EXCEPT ![p] = m]
      /\ UNCHANGED <<ended, votes, signed, evidence, closing, contested, lock, failing, live,
                     runtime, records>>
  BY DEF CreateProposal, execution
<1>2. TypeOK'
  <2>1. member' \in [Members -> {"absent", "active", "inactive"}]
    BY DEF CreateProposal, Joined, IInv, TypeOK
  <2> QED
    BY <1>1, <2>1 DEF IInv, TypeOK, Statuses
<1>3. Chain'
  <2>1. \A q \in Proposals : q # p =>
          status'[q] = status[q] /\ proposer'[q] = proposer[q] /\ kind'[q] = kind[q]
    BY <1>1 DEF IInv, TypeOK
  <2>2. UnsignedUntilMade' /\ SignersDiffer'
    BY <1>1, <2>1 DEF IInv, TypeOK, Chain, UnsignedUntilMade, SignersDiffer, Nobody, None
  <2>3. \A t \in Targets : live[t] # None => live[t] \in Proposals /\ live[t] # p
    BY <1>1 DEF IInv, TypeOK, Chain, LiveWasSigned
  <2>4. LiveWasSigned'
    BY <1>1, <2>1, <2>3 DEF IInv, Chain, LiveWasSigned, Roles
  <2>5. status'[p] # "executed"
    BY <1>1 DEF IInv, TypeOK
  <2>6. ExecutedWasSigned'
    BY <1>1, <2>1, <2>5 DEF IInv, Chain, ExecutedWasSigned, Roles
  <2> QED
    BY <2>2, <2>4, <2>6 DEF Chain
<1>4. Closing'
  <2>1. \A c \in Closers : closing[c].p # None => closing[c].p # p
    BY <1>1 DEF IInv, Closing, ClosingIsEnded
  <2>2. \A c \in Closers : closing[c].p # None => status'[closing[c].p] = status[closing[c].p]
    BY <1>1, <2>1 DEF IInv, TypeOK
  <2> QED
    BY <1>1, <2>2 DEF IInv, TypeOK, Closing, ClosingIsEnded, ClosedAlone, PassedIsEnded
<1> QED
  BY <1>1, <1>2, <1>3, <1>4 DEF IInv, LockedIsApproved, RuntimeIsRecorded

LEMMA VotingEndsIInv ==
  ASSUME IInv, NEW p \in Proposals, VotingEnds(p)
  PROVE  IInv'
<1>1. /\ ended' = ended \cup {p}
      /\ UNCHANGED <<member, kind, status, proposer, votes, signed, evidence, closing, contested,
                     lock, failing, live, runtime, records>>
  BY DEF VotingEnds, execution
<1>2. TypeOK'
  BY <1>1 DEF IInv, TypeOK
<1> QED
  BY <1>1, <1>2, ChainUnchanged, ClosingUnchanged, LockUnchanged DEF IInv, RuntimeIsRecorded

LEMMA CastVoteIInv ==
  ASSUME IInv, NEW p \in Proposals, NEW m \in Members, NEW d \in {"for", "other"},
         CastVote(p, m, d)
  PROVE  IInv'
<1>1. UNCHANGED <<kind, status, proposer, ended, signed, evidence, closing, contested, lock,
                  failing, live, runtime, records>>
  BY DEF CastVote, execution
<1>2. TypeOK'
  <2>1. member' \in [Members -> {"absent", "active", "inactive"}]
    BY DEF CastVote, Joined, IInv, TypeOK
  <2>2. votes' \in [Proposals -> [Members -> {None, "for", "other"}]]
    BY DEF CastVote, IInv, TypeOK
  <2> QED
    BY <1>1, <2>1, <2>2 DEF IInv, TypeOK
<1> QED
  BY <1>1, <1>2, ChainUnchanged, ClosingUnchanged, LockUnchanged DEF IInv, RuntimeIsRecorded

LEMMA RecordSignoffIInv ==
  ASSUME IInv, NEW p \in Proposals, NEW m \in Members, NEW r \in AllRoles, NEW e \in BOOLEAN,
         RecordSignoff(p, m, r, e)
  PROVE  IInv'
<1>1. /\ lock = None /\ signed[p][r] = Nobody /\ MaySign(p, m)
      /\ signed' = [signed EXCEPT ![p][r] = m]
      /\ evidence \subseteq evidence' /\ evidence' \subseteq evidence \cup {p}
      /\ UNCHANGED <<member, kind, status, proposer, ended, votes, closing, contested, lock,
                     failing, live, runtime, records>>
  BY DEF RecordSignoff, execution
<1>2. TypeOK'
  BY <1>1 DEF IInv, TypeOK
<1>3. m # Nobody /\ m # proposer[p] /\ status[p] # None /\ \A q \in AllRoles : signed[p][q] # m
  BY <1>1 DEF MaySign, None
<1>4. \A q \in Proposals, s \in AllRoles :
        signed'[q][s] = IF q = p /\ s = r THEN m ELSE signed[q][s]
  BY <1>1 DEF IInv, TypeOK
<1>5. Chain'
  <2>1. UnsignedUntilMade' /\ SignersDiffer'
    BY <1>1, <1>3, <1>4 DEF IInv, Chain, UnsignedUntilMade, SignersDiffer
  <2>2. \A q \in Proposals, s \in AllRoles : signed[q][s] # Nobody => signed'[q][s] # Nobody
    BY <1>3, <1>4
  <2>3. LiveWasSigned'
    BY <1>1, <2>2, RolesAreRoles DEF IInv, TypeOK, Chain, LiveWasSigned, Roles
  <2>4. ExecutedWasSigned'
    BY <1>1, <2>2, RolesAreRoles DEF IInv, Chain, ExecutedWasSigned, Roles
  <2> QED
    BY <2>1, <2>3, <2>4 DEF Chain
<1> QED
  BY <1>1, <1>2, <1>5, ClosingUnchanged DEF IInv, LockedIsApproved, RuntimeIsRecorded

-----------------------------------------------------------------------------
(* Closing.                                                                *)

LEMMA StartCloseIInv ==
  ASSUME IInv, NEW c \in Closers, NEW p \in Proposals, StartClose(c, p)
  PROVE  IInv'
<1>1. /\ lock = None /\ closing[c] = NotClosing /\ p \in ended /\ status[p] = "active"
      /\ closing' = [closing EXCEPT ![c].p = p]
      /\ contested' = IF \E b \in Closers : closing[b].p = p
                      THEN contested \cup {p} ELSE contested
      /\ UNCHANGED <<member, status, kind, proposer, ended, votes, signed, evidence, lock,
                     failing, live, runtime, records>>
  BY DEF StartClose, MayClose, ballot
<1>2. TypeOK'
  BY <1>1 DEF IInv, TypeOK
<1>3. /\ closing'[c].p = p /\ closing'[c].outcome = None
      /\ \A b \in Closers \ {c} : closing'[b] = closing[b]
  BY <1>1 DEF IInv, TypeOK, NotClosing
<1>4. Closing'
  <2>1. ClosingIsEnded' /\ PassedIsEnded'
    BY <1>1, <1>3 DEF IInv, Closing, ClosingIsEnded, PassedIsEnded, None
  <2>2. ClosedAlone'
    <3> SUFFICES ASSUME NEW b \in Closers, closing'[b].p \notin contested' \cup {None}
                 PROVE  /\ status[closing'[b].p] = "active"
                        /\ \A d \in Closers : closing'[d].p = closing'[b].p => d = b
      BY <1>1 DEF ClosedAlone
    <3>1. CASE \E d \in Closers : closing[d].p = p
      <4>1. contested' = contested \cup {p}
        BY <1>1, <3>1
      <4>2. b # c
        BY <1>3, <4>1
      <4> QED
        BY <1>3, <4>1, <4>2 DEF IInv, Closing, ClosedAlone
    <3>2. CASE ~\E d \in Closers : closing[d].p = p
      <4>1. contested' = contested
        BY <1>1, <3>2
      <4>2. CASE b = c
        BY <1>1, <1>3, <3>2, <4>2
      <4>3. CASE b # c
        BY <1>3, <3>2, <4>1, <4>3 DEF IInv, Closing, ClosedAlone
      <4> QED
        BY <4>2, <4>3
    <3> QED
      BY <3>1, <3>2
  <2> QED
    BY <2>1, <2>2 DEF Closing
<1> QED
  BY <1>1, <1>2, <1>4, ChainUnchanged DEF IInv, LockedIsApproved, RuntimeIsRecorded

LEMMA TallyIInv ==
  ASSUME IInv, NEW c \in Closers, Tally(c)
  PROVE  IInv'
<1>1. /\ lock = None /\ closing[c].p # None
      /\ closing' = [closing EXCEPT ![c].outcome = Outcome(closing[c].p)]
      /\ UNCHANGED <<member, status, kind, proposer, ended, votes, signed, evidence, contested,
                     lock, failing, live, runtime, records>>
  BY DEF Tally, ballot, execution
<1>2. Outcome(closing[c].p) \in {"passed", "rejected"}
  BY DEF Outcome
<1>3. TypeOK'
  BY <1>1, <1>2 DEF IInv, TypeOK
<1>4. \A b \in Closers : /\ closing'[b].p = closing[b].p
                         /\ b # c => closing'[b] = closing[b]
  BY <1>1 DEF IInv, TypeOK
<1>5. Closing'
  BY <1>1, <1>4 DEF IInv, Closing, ClosingIsEnded, ClosedAlone, PassedIsEnded
<1> QED
  BY <1>1, <1>3, <1>5, ChainUnchanged DEF IInv, LockedIsApproved, RuntimeIsRecorded

LEMMA UpdateStatusIInv ==
  ASSUME IInv, NEW c \in Closers, UpdateStatus(c)
  PROVE  IInv'
<1> DEFINE p == closing[c].p
<1>1. /\ lock = None /\ closing[c].outcome # None
      /\ status' = [status EXCEPT ![p] = closing[c].outcome]
      /\ closing' = [closing EXCEPT ![c] = NotClosing]
      /\ UNCHANGED <<member, kind, proposer, ended, votes, signed, evidence, contested, lock,
                     failing, live, runtime, records>>
  BY DEF UpdateStatus, ballot, execution
<1>2. p \in Proposals /\ p # None /\ p \in ended /\ closing[c].outcome \in {"passed", "rejected"}
  BY <1>1 DEF IInv, TypeOK, Closing, ClosingIsEnded
<1> HIDE DEF p
<1>3. TypeOK'
  BY <1>1, <1>2 DEF IInv, TypeOK, NotClosing, Statuses
<1>4. \A q \in Proposals : status'[q] = IF q = p THEN closing[c].outcome ELSE status[q]
  BY <1>1 DEF IInv, TypeOK
<1>5. Chain'
  BY <1>1, <1>2, <1>4 DEF IInv, TypeOK, Chain, UnsignedUntilMade, SignersDiffer, LiveWasSigned,
                          ExecutedWasSigned, Roles, None
<1>6. closing'[c].p = None /\ closing'[c].outcome = None
      /\ \A b \in Closers \ {c} : closing'[b] = closing[b]
  BY <1>1 DEF IInv, TypeOK, NotClosing
<1>7. Closing'
  <2>1. ClosingIsEnded' /\ PassedIsEnded'
    BY <1>1, <1>2, <1>4, <1>6
       DEF IInv, TypeOK, Closing, ClosingIsEnded, PassedIsEnded, None
  <2>2. ClosedAlone'
    BY <1>1, <1>2, <1>4, <1>6 DEF IInv, TypeOK, Closing, ClosedAlone, p
  <2> QED
    BY <2>1, <2>2 DEF Closing
<1> QED
  BY <1>1, <1>3, <1>5, <1>7 DEF IInv, LockedIsApproved, RuntimeIsRecorded
-----------------------------------------------------------------------------
(* Execution.                                                              *)

\* What Approved says is what LiveWasSigned needs of a policy with sign-offs.
LEMMA ApprovedIsSigned ==
  ASSUME IInv, NEW p \in Proposals, Approved(p)
  PROVE  /\ status[p] = "passed" /\ p \in ended
         /\ \A r \in Roles(p) : signed[p][r] # Nobody
         /\ kind[p] \in Targets => p \in evidence
  BY DEF IInv, Closing, PassedIsEnded, Approved, Roles, Targets

LEMMA ExecuteAppliesIInv ==
  ASSUME IInv, NEW p \in Proposals, ExecuteApplies(p)
  PROVE  IInv'
<1>1. /\ Approved(p) /\ lock' = p /\ failing' \in BOOLEAN
      /\ live' = IF kind[p] \in Targets THEN [live EXCEPT ![kind[p]] = p] ELSE live
      /\ UNCHANGED <<member, status, kind, proposer, ended, votes, signed, evidence, closing,
                     contested, runtime, records>>
  BY DEF ExecuteApplies, Apply, ballot
<1>2. TypeOK'
  BY <1>1 DEF IInv, TypeOK
<1>3. LiveWasSigned'
  BY <1>1, ApprovedIsSigned DEF IInv, TypeOK, Chain, LiveWasSigned, Roles, None
<1>4. Chain'
  BY <1>1, <1>3 DEF IInv, Chain, UnsignedUntilMade, SignersDiffer, ExecutedWasSigned, Roles
<1>5. LockedIsApproved'
  BY <1>1 DEF LockedIsApproved, Approved, Roles
<1> QED
  BY <1>1, <1>2, <1>4, <1>5, ClosingUnchanged DEF IInv, RuntimeIsRecorded

LEMMA ExecuteRaisesIInv ==
  ASSUME IInv, NEW p \in Proposals, ExecuteRaises(p)
  PROVE  IInv'
<1>1. /\ Approved(p) /\ lock' = p /\ failing' = TRUE
      /\ UNCHANGED <<member, status, kind, proposer, ended, votes, signed, evidence, closing,
                     contested, live, runtime, records>>
  BY DEF ExecuteRaises, ballot
<1>2. TypeOK'
  BY <1>1 DEF IInv, TypeOK
<1>3. LockedIsApproved'
  BY <1>1 DEF LockedIsApproved, Approved, Roles
<1> QED
  BY <1>1, <1>2, <1>3, ChainUnchanged, ClosingUnchanged DEF IInv, RuntimeIsRecorded

\* The commit ends a proposal that passed: only its row changes.
LEMMA CommitKeepsTheRest ==
  ASSUME IInv, lock # None, NEW s \in {"failed", "executed"},
         status' = [status EXCEPT ![lock] = s],
         s = "executed" => lock \in records', records \subseteq records',
         UNCHANGED <<kind, proposer, ended, signed, evidence, closing, contested, live>>
  PROVE  Chain' /\ Closing' /\ status' \in [Proposals -> Statuses]
<1>1. lock \in Proposals /\ Approved(lock) /\ status[lock] = "passed"
  BY DEF IInv, TypeOK, LockedIsApproved, Approved
<1>2. \A q \in Proposals : status'[q] = IF q = lock THEN s ELSE status[q]
  BY <1>1 DEF IInv, TypeOK
<1>3. UnsignedUntilMade' /\ SignersDiffer' /\ LiveWasSigned'
  BY <1>1, <1>2 DEF IInv, TypeOK, Chain, UnsignedUntilMade, SignersDiffer, LiveWasSigned, Roles,
                    None
<1>4. ExecutedWasSigned'
  BY <1>1, <1>2, ApprovedIsSigned DEF IInv, Chain, ExecutedWasSigned, Roles
<1>5. Closing'
  BY <1>1, <1>2 DEF IInv, TypeOK, Closing, ClosingIsEnded, ClosedAlone, PassedIsEnded, None
<1>6. status' \in [Proposals -> Statuses]
  BY <1>1 DEF IInv, TypeOK, Statuses
<1> QED
  BY <1>3, <1>4, <1>5, <1>6 DEF Chain

LEMMA MarkFailedIInv ==
  ASSUME IInv, MarkFailed
  PROVE  IInv'
<1>1. /\ lock # None /\ status' = [status EXCEPT ![lock] = "failed"]
      /\ lock' = None /\ failing' = FALSE
      /\ UNCHANGED <<member, kind, proposer, ended, votes, signed, evidence, closing, contested,
                     live, runtime, records>>
  BY DEF MarkFailed, Unlocked, ballot
<1>2. Chain' /\ Closing' /\ status' \in [Proposals -> Statuses]
  BY <1>1, CommitKeepsTheRest
<1> QED
  BY <1>1, <1>2 DEF IInv, TypeOK, LockedIsApproved, RuntimeIsRecorded

LEMMA MarkExecutedIInv ==
  ASSUME IInv, MarkExecuted
  PROVE  IInv'
<1>1. /\ lock # None /\ status' = [status EXCEPT ![lock] = "executed"]
      /\ records' = records \cup {lock} /\ runtime' \in {lock, runtime}
      /\ lock' = None /\ failing' = FALSE
      /\ UNCHANGED <<kind, proposer, ended, votes, signed, evidence, closing, contested, live>>
  BY DEF MarkExecuted, Unlocked, ballot
<1>2. Chain' /\ Closing' /\ status' \in [Proposals -> Statuses]
  BY <1>1, CommitKeepsTheRest
<1>3. member' \in [Members -> {"absent", "active", "inactive"}]
  BY GovernanceAssumption DEF MarkExecuted, IInv, TypeOK
<1>4. lock \in Proposals
  BY <1>1 DEF IInv, TypeOK
<1>5. TypeOK'
  BY <1>1, <1>2, <1>3, <1>4 DEF IInv, TypeOK
<1> QED
  BY <1>1, <1>2, <1>5 DEF IInv, LockedIsApproved, RuntimeIsRecorded

LEMMA ExecuteDiesIInv ==
  ASSUME IInv, ExecuteDies
  PROVE  IInv'
<1>1. /\ lock' = None /\ failing' = FALSE
      /\ UNCHANGED <<member, status, kind, proposer, ended, votes, signed, evidence, closing,
                     contested, live, runtime, records>>
  BY DEF ExecuteDies, Unlocked, ballot
<1>2. TypeOK'
  BY <1>1 DEF IInv, TypeOK
<1> QED
  BY <1>1, <1>2, ChainUnchanged, ClosingUnchanged DEF IInv, LockedIsApproved, RuntimeIsRecorded

LEMMA NextIInv == ASSUME IInv, [Next]_vars PROVE IInv'
<1>1. CASE UNCHANGED vars
  BY <1>1, ChainUnchanged, ClosingUnchanged, LockUnchanged
     DEF vars, IInv, TypeOK, RuntimeIsRecorded
<1>2. ASSUME NEW p \in Proposals, NEW m \in Members,
             \/ \E k \in Kinds : CreateProposal(p, m, k)
             \/ \E d \in {"for", "other"} : CastVote(p, m, d)
             \/ \E r \in AllRoles, e \in BOOLEAN : RecordSignoff(p, m, r, e)
      PROVE  IInv'
  BY <1>2, CreateProposalIInv, CastVoteIInv, RecordSignoffIInv
<1>3. ASSUME NEW p \in Proposals, VotingEnds(p) \/ ExecuteApplies(p) \/ ExecuteRaises(p)
      PROVE  IInv'
  BY <1>3, VotingEndsIInv, ExecuteAppliesIInv, ExecuteRaisesIInv
<1>4. ASSUME NEW c \in Closers, Close(c)
      PROVE  IInv'
  BY <1>4, StartCloseIInv, TallyIInv, UpdateStatusIInv DEF Close
<1> QED
  BY <1>1, <1>2, <1>3, <1>4, MarkFailedIInv, MarkExecutedIInv, ExecuteDiesIInv DEF Next

LEMMA AlwaysIInv == Spec => []IInv
<1>1. IInv /\ [Next]_vars => IInv'
  BY NextIInv
<1> QED
  BY <1>1, InitIInv, PTL DEF Spec
-----------------------------------------------------------------------------
(* What executed was approved: every role of the policy was signed, by      *)
(* different people and not by the proposer, and the chain is on record,    *)
(* however calls of close_proposal overlap and executions roll back.        *)
THEOREM GovernanceChain == Spec => []ExecutedWasApproved
<1>1. IInv => ExecutedWasApproved
  <2> SUFFICES ASSUME IInv, NEW p \in Proposals, status[p] = "executed"
               PROVE  /\ p \in records
                      /\ \A r \in Roles(p) : signed[p][r] \notin {Nobody, proposer[p]}
                      /\ \A r, q \in Roles(p) : r # q => signed[p][r] # signed[p][q]
    BY DEF ExecutedWasApproved
  <2> QED
    BY RolesAreRoles DEF IInv, Chain, ExecutedWasSigned, SignersDiffer
<1> QED
  BY <1>1, AlwaysIInv, PTL

(* "Every live change has a recorded, complete approval chain", but for the *)
(* record: what goes live had ended its vote and had evidence and every     *)
(* sign-off, also when the execution is rolled back afterwards.             *)
THEOREM GovernanceLive == Spec => []LiveWasApproved
<1>1. IInv => LiveWasApproved
  BY DEF IInv, Chain, LiveWasSigned, LiveWasApproved
<1> QED
  BY <1>1, AlwaysIInv, PTL

(* What every process reads from runtime_config has a recorded approval     *)
(* chain: the row is written in the executing transaction.                  *)
THEOREM GovernanceRuntime == Spec => []RuntimeIsRecorded
<1>1. IInv => RuntimeIsRecorded
  BY DEF IInv
<1> QED
  BY <1>1, AlwaysIInv, PTL

(* "Methods are idempotent after terminal states": only a proposal that two *)
(* calls of close_proposal were closing at once ever leaves one.            *)
THEOREM GovernanceTerminal == Spec => TerminalIsFinal
<1> DEFINE Final == \A p \in Proposals :
                      status[p] \in {"rejected", "executed", "failed"}
                        => status'[p] = status[p] \/ p \in contested
<1>1. IInv /\ [Next]_vars => [Final]_vars
  <2> SUFFICES ASSUME IInv, Next, NEW p \in Proposals,
                      status[p] \in {"rejected", "executed", "failed"}, p \notin contested
               PROVE  status'[p] = status[p]
    BY DEF Final
  <2>1. ASSUME NEW q \in Proposals, NEW m \in Members, NEW k \in Kinds, CreateProposal(q, m, k)
        PROVE  status'[p] = status[p]
    BY <2>1 DEF CreateProposal, IInv, TypeOK, None
  <2>2. ASSUME NEW c \in Closers, UpdateStatus(c)
        PROVE  status'[p] = status[p]
    <3>1. closing[c].p # p
      <4>1. closing[c].p # None
        BY <2>2 DEF UpdateStatus, IInv, Closing, ClosingIsEnded
      <4> QED
        BY <4>1 DEF IInv, Closing, ClosedAlone
    <3> QED
      BY <2>2, <3>1 DEF UpdateStatus, IInv, TypeOK
  <2>3. CASE MarkFailed \/ MarkExecuted
    <3>1. lock # p
      BY <2>3 DEF MarkFailed, MarkExecuted, IInv, LockedIsApproved, Approved
    <3> QED
      BY <2>3, <3>1 DEF MarkFailed, MarkExecuted, IInv, TypeOK
  <2>4. ASSUME NEW q \in Proposals, VotingEnds(q) \/ ExecuteApplies(q) \/ ExecuteRaises(q)
        PROVE  status'[p] = status[p]
    BY <2>4 DEF VotingEnds, ExecuteApplies, ExecuteRaises
  <2>5. ASSUME NEW q \in Proposals, NEW m \in Members,
               \/ \E d \in {"for", "other"} : CastVote(q, m, d)
               \/ \E r \in AllRoles, e \in BOOLEAN : RecordSignoff(q, m, r, e)
        PROVE  status'[p] = status[p]
    BY <2>5 DEF CastVote, RecordSignoff
  <2>6. ASSUME NEW c \in Closers, Tally(c) \/ \E q \in Proposals : StartClose(c, q)
        PROVE  status'[p] = status[p]
    BY <2>6 DEF Tally, StartClose
  <2>7. CASE ExecuteDies
    BY <2>7 DEF ExecuteDies
  <2> QED
    BY <2>1, <2>2, <2>3, <2>4, <2>5, <2>6, <2>7 DEF Next, Close
<1> QED
  BY <1>1, AlwaysIInv, PTL DEF Spec, TerminalIsFinal
=============================================================================
