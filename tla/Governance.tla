----------------------------- MODULE Governance -----------------------------
(***************************************************************************)
(* detection/governance.py: proposals, votes, sign-offs and execution.     *)
(*                                                                         *)
(* close_proposal reads, tallies and updates over three connections with   *)
(* no transaction around them.  execute_proposal holds BEGIN EXCLUSIVE,    *)
(* but the live settings, the .env file and the model pointer it writes    *)
(* are not in the database: a rollback does not undo them.  A vote against *)
(* and an abstention count alike, and are one value here.                  *)
(***************************************************************************)
EXTENDS Integers, FiniteSets

CONSTANTS Proposals,
          Kinds,     \* proposal types that are submitted
          Subject,   \* the member "add" and "remove" are about
          Members,   \* everyone who may show up
          Founders,  \* the committee at the start
          Closers,   \* callers of close_proposal
          Cron       \* the governance-close-expired job, one of them

ASSUME GovernanceAssumption ==
    /\ Kinds \subseteq {"config_change", "model_promotion", "add", "remove"}
    /\ Subject \in Members /\ Founders \subseteq Members
    /\ Cron \in Closers

VARIABLES member,   \* governance_committee: "absent", "active", "inactive"
          kind,     \* proposal_type; "add" and "remove" are the two
                    \* committee_update actions
          status, proposer, ended, votes, signed, evidence,
          closing,  \* closing[c]: the close_proposal call c is in
          contested,\* history: proposals two calls were closing at once
          lock,     \* the proposal being executed
          failing,  \* its execution raised
          live,     \* per target, the proposal whose value is live
          runtime,  \* the proposal whose value is in runtime_config
          records   \* governance_approval_records

vars == <<member, kind, status, proposer, ended, votes, signed, evidence, closing,
          contested, lock, failing, live, runtime, records>>
ballot == <<kind, proposer, ended, votes, signed, evidence>>
execution == <<contested, lock, failing, live, runtime, records>>

Nobody == "nobody"
None == "none"
Statuses == {None, "active", "passed", "rejected", "executed", "failed"}

\* APPROVAL_POLICIES
Roles(p) ==
    IF kind[p] = "config_change" THEN {"risk_owner", "compliance_officer"}
    ELSE IF kind[p] = "model_promotion"
      THEN {"model_owner", "independent_validator", "compliance_officer"}
    ELSE {}
AllRoles == {"risk_owner", "compliance_officer", "model_owner",
             "independent_validator"}
Targets == {"config_change", "model_promotion"}
NotClosing == [p |-> None, outcome |-> None]

TypeOK ==
    /\ member \in [Members -> {"absent", "active", "inactive"}]
    /\ kind \in [Proposals -> Kinds \cup {None}]
    /\ status \in [Proposals -> Statuses]
    /\ proposer \in [Proposals -> Members \cup {Nobody}]
    /\ ended \subseteq Proposals
    /\ votes \in [Proposals -> [Members -> {None, "for", "other"}]]
    /\ signed \in [Proposals -> [AllRoles -> Members \cup {Nobody}]]
    /\ evidence \subseteq Proposals
    /\ closing \in [Closers -> [p: Proposals \cup {None},
                               outcome: {None, "passed", "rejected"}]]
    /\ contested \subseteq Proposals
    /\ lock \in Proposals \cup {None} /\ failing \in BOOLEAN
    /\ live \in [Targets -> Proposals \cup {None}]
    /\ runtime \in Proposals \cup {None}
    /\ records \subseteq Proposals

Init ==
    /\ member = [m \in Members |-> IF m \in Founders THEN "active" ELSE "absent"]
    /\ kind = [p \in Proposals |-> None]
    /\ status = [p \in Proposals |-> None]
    /\ proposer = [p \in Proposals |-> Nobody]
    /\ ended = {}
    /\ votes = [p \in Proposals |-> [m \in Members |-> None]]
    /\ signed = [p \in Proposals |-> [r \in AllRoles |-> Nobody]]
    /\ evidence = {}
    /\ closing = [c \in Closers |-> NotClosing]
    /\ contested = {}
    /\ lock = None /\ failing = FALSE
    /\ live = [t \in Targets |-> None]
    /\ runtime = None /\ records = {}

-----------------------------------------------------------------------------
(* Proposals, votes, sign-offs.  The exclusive lock keeps them all out.    *)

Active == {m \in Members : member[m] = "active"}

\* The API's shims insert the caller as a member unless a row exists.
Joined(m) == [member EXCEPT ![m] = IF @ = "absent" THEN "active" ELSE @]

CreateProposal(p, m, k) ==
    /\ lock = None /\ status[p] = None
    /\ member' = Joined(m) /\ member'[m] = "active"
    /\ kind' = [kind EXCEPT ![p] = k]
    /\ status' = [status EXCEPT ![p] = "active"]
    /\ proposer' = [proposer EXCEPT ![p] = m]
    /\ UNCHANGED <<ended, votes, signed, evidence, closing, execution>>

VotingEnds(p) ==
    /\ status[p] # None /\ p \notin ended
    /\ ended' = ended \cup {p}
    /\ UNCHANGED <<member, kind, status, proposer, votes, signed, evidence, closing,
                   execution>>

\* cast_proposal_vote: the caller joins even when the vote is refused.
CastVote(p, m, d) ==
    /\ lock = None /\ status[p] # None
    /\ member' = Joined(m)
    /\ votes' = IF /\ member'[m] = "active" /\ status[p] = "active"
                   /\ p \notin ended /\ votes[p][m] = None
                THEN [votes EXCEPT ![p][m] = d] ELSE votes
    /\ UNCHANGED <<kind, status, proposer, ended, signed, evidence, closing, execution>>

\* Mutant: the proposer may sign.
MaySign_Proposer(p, m) ==
    /\ status[p] \in {"active", "passed"}
    /\ member[m] = "active"
    /\ \A r \in AllRoles : signed[p][r] # m

\* record_signoff's checks and UNIQUE(proposal_id, signer).
MaySign(p, m) ==
    /\ status[p] \in {"active", "passed"}
    /\ member[m] = "active" /\ m # proposer[p]
    /\ \A r \in AllRoles : signed[p][r] # m

RecordSignoff(p, m, r, withEvidence) ==
    /\ lock = None
    /\ r \in Roles(p) /\ signed[p][r] = Nobody
    /\ MaySign(p, m)
    /\ signed' = [signed EXCEPT ![p][r] = m]
    /\ evidence' = IF withEvidence THEN evidence \cup {p} ELSE evidence
    /\ UNCHANGED <<member, kind, status, proposer, ended, votes, closing, execution>>

-----------------------------------------------------------------------------
(* close_expired calls close_proposal for each expired active proposal.    *)

MayClose(p) == p \in ended /\ status[p] = "active"

StartClose(c, p) ==
    /\ lock = None /\ closing[c] = NotClosing
    /\ MayClose(p)
    /\ closing' = [closing EXCEPT ![c].p = p]
    /\ contested' = IF \E b \in Closers : closing[b].p = p
                    THEN contested \cup {p} ELSE contested
    /\ UNCHANGED <<member, status, ballot, lock, failing, live, runtime, records>>

ForCount(p) == Cardinality({m \in Members : votes[p][m] = "for"})

\* tally_proposal: every vote ever cast against today's committee.
Outcome(p) ==
    IF ForCount(p) >= Cardinality(Active) \div 2 + 1 THEN "passed" ELSE "rejected"

Tally(c) ==
    /\ lock = None
    /\ closing[c].p # None /\ closing[c].outcome = None
    /\ closing' = [closing EXCEPT ![c].outcome = Outcome(closing[c].p)]
    /\ UNCHANGED <<member, status, ballot, execution>>

\* Mutant: the row is left as it was.
UpdateStatus_Lost(c) ==
    /\ lock = None /\ closing[c].outcome # None
    /\ closing' = [closing EXCEPT ![c] = NotClosing]
    /\ UNCHANGED <<member, status, ballot, execution>>

\* UPDATE ... WHERE id = ?, whatever the status has become.
UpdateStatus(c) ==
    /\ lock = None /\ closing[c].outcome # None
    /\ status' = [status EXCEPT ![closing[c].p] = closing[c].outcome]
    /\ closing' = [closing EXCEPT ![c] = NotClosing]
    /\ UNCHANGED <<member, ballot, execution>>

-----------------------------------------------------------------------------
(* execute_proposal.                                                       *)

\* Mutant: the vote alone decides.
Approved_VoteOnly(p) == status[p] = "passed"

Approved(p) ==
    /\ status[p] = "passed"
    /\ \A r \in Roles(p) : signed[p][r] # Nobody
    /\ Roles(p) # {} => p \in evidence

\* SettingsReloader.apply or rollback_model, outside the database.
Apply(p) ==
    /\ live' = IF kind[p] \in Targets THEN [live EXCEPT ![kind[p]] = p] ELSE live
    /\ UNCHANGED runtime

ExecuteApplies(p) ==
    /\ lock = None /\ Approved(p)
    /\ lock' = p
    /\ Apply(p)
    /\ failing' \in (IF kind[p] = "config_change" THEN BOOLEAN ELSE {FALSE})
    /\ UNCHANGED <<member, status, ballot, closing, contested, records>>

\* The value cannot be parsed, or the model version is not registered.
ExecuteRaises(p) ==
    /\ lock = None /\ Approved(p)
    /\ kind[p] \in Targets
    /\ lock' = p /\ failing' = TRUE
    /\ UNCHANGED <<member, status, ballot, closing, contested, live, runtime, records>>

Unlocked == lock' = None /\ failing' = FALSE

MarkFailed ==
    /\ lock # None /\ failing
    /\ status' = [status EXCEPT ![lock] = "failed"]
    /\ Unlocked
    /\ UNCHANGED <<member, ballot, closing, contested, live, runtime, records>>

MarkExecuted ==
    /\ lock # None /\ ~failing /\ lock \notin records
    /\ status' = [status EXCEPT ![lock] = "executed"]
    /\ records' = records \cup {lock}
    /\ runtime' = IF kind[lock] = "config_change" THEN lock ELSE runtime
    /\ member' = IF kind[lock] = "add" THEN [member EXCEPT ![Subject] = "active"]
                 ELSE IF kind[lock] = "remove"
                   THEN [member EXCEPT ![Subject] = IF @ = "absent" THEN @ ELSE "inactive"]
                 ELSE member
    /\ Unlocked
    /\ UNCHANGED <<ballot, closing, contested, live>>

\* The transaction is rolled back: the process dies, or the insert of an
\* approval record that exists already raises.
ExecuteDies ==
    /\ lock # None
    /\ Unlocked
    /\ UNCHANGED <<member, status, ballot, closing, contested, live, runtime, records>>

Close(c) == Tally(c) \/ UpdateStatus(c) \/ \E p \in Proposals : StartClose(c, p)

Next ==
    \/ \E p \in Proposals :
          \/ VotingEnds(p) \/ ExecuteApplies(p) \/ ExecuteRaises(p)
          \/ \E m \in Members :
                \/ \E k \in Kinds : CreateProposal(p, m, k)
                \/ \E d \in {"for", "other"} : CastVote(p, m, d)
                \/ \E r \in AllRoles, e \in BOOLEAN : RecordSignoff(p, m, r, e)
    \/ \E c \in Closers : Close(c)
    \/ MarkFailed \/ MarkExecuted \/ ExecuteDies

Spec == Init /\ [][Next]_vars

\* close_expired runs from cron; an execution commits or is rolled back.  A
\* closer that finds the database locked tries again: it need not be
\* enabled all the time.
FairSpec ==
    /\ Spec
    /\ WF_vars(MarkFailed \/ MarkExecuted \/ ExecuteDies)
    /\ SF_vars(Close(Cron))

-----------------------------------------------------------------------------
(* What executed was approved: every role of the policy was signed by a    *)
(* different person, none by the proposer, and the chain is on record.     *)
ExecutedWasApproved ==
    \A p \in Proposals :
        status[p] = "executed" =>
            /\ p \in records
            /\ \A r \in Roles(p) : signed[p][r] \notin {Nobody, proposer[p]}
            /\ \A r, q \in Roles(p) : r # q => signed[p][r] # signed[p][q]

(* The value every process reads from runtime_config always has a recorded *)
(* approval chain: the row is written in the executing transaction.        *)
RuntimeIsRecorded == runtime # None => runtime \in records

(* "Methods are idempotent after terminal states": a proposal that was     *)
(* rejected, executed or failed stays that way, unless two calls of        *)
(* close_proposal overlapped on it (the UPDATE does not test the status).  *)
TerminalIsFinal ==
    [][\A p \in Proposals :
          status[p] \in {"rejected", "executed", "failed"}
              => status'[p] = status[p] \/ p \in contested]_vars

(* "Expired proposals are closed automatically".                           *)
ExpiredIsClosed ==
    \A p \in Proposals :
        (status[p] = "active" /\ p \in ended) ~> status[p] # "active"

(* "Every live change has a recorded, complete approval chain".  A rolled  *)
(* back execution leaves the live settings, .env and model pointer changed *)
(* without a record; but whatever goes live had every sign-off its policy  *)
(* asks for, by different people, with evidence.                           *)
LiveWasApproved ==
    \A t \in Targets : live[t] # None =>
        /\ live[t] \in evidence /\ live[t] \in ended
        /\ \A r \in Roles(live[t]) : signed[live[t]][r] # Nobody
=============================================================================
