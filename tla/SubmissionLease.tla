--------------------------- MODULE SubmissionLease ---------------------------
(***************************************************************************)
(* detection/soroban_lease.py: the Kubernetes Lease that is to let one     *)
(* region at a time publish scores.  The API server (external) stores one  *)
(* object and accepts a replace only for the resource version it has.      *)
(*                                                                         *)
(* acquire_submission_lease reads, then creates or replaces in a second    *)
(* request; _renew_lease repeats the replace with the version first read.  *)
(* The objects this code writes carry no renewTime.  `age' is the time     *)
(* since renewTime, up to just past the lease duration.                    *)
(***************************************************************************)
EXTENDS Integers, FiniteSets

CONSTANTS Regions,
          Renewers,     \* regions that renew without having acquired first
          Former,       \* a region that is gone and may have left a lease
          Duration,     \* lease_duration_seconds, in time units
          RenewLead,    \* soroban_lease_renew_lead_seconds
          MaxAttempts,  \* soroban_lease_max_renew_attempts
          MaxVersion    \* bound: no renewal of a later resource version

ASSUME LeaseAssumption ==
    /\ Renewers \subseteq Regions /\ Former \notin Regions
    /\ Duration \in Nat \ {0} /\ RenewLead \in Nat
    /\ MaxAttempts \in Nat \ {0} /\ MaxVersion \in Nat

VARIABLES exists, holder, version, age,  \* the Lease object
          pc,       \* a region's step
          read,     \* read[r]: resource_version r read
          tries,    \* tries[r]: replace requests r has left
          acquired, \* regions that were granted the lease
          dead      \* regions that crashed

vars == <<exists, holder, version, age, pc, read, tries, acquired, dead>>
lease == <<exists, holder, version, age>>

NoRenewTime == -1
NoHolder == "nobody"

TypeOK ==
    /\ exists \in BOOLEAN
    /\ holder \in Regions \cup {Former, NoHolder}
    /\ version \in Nat
    /\ age \in {NoRenewTime} \cup 0..(Duration + 1)
    /\ pc \in [Regions -> {"idle", "create", "claim", "renew", "publish"}]
    /\ read \in [Regions -> Nat]
    /\ tries \in [Regions -> 0..MaxAttempts]
    /\ acquired \subseteq Regions
    /\ dead \subseteq Regions

\* No object yet, an unclaimed one, or one a former region renewed by hand.
Init ==
    /\ \/ exists = FALSE /\ holder = NoHolder /\ age = NoRenewTime
       \/ exists = TRUE /\ holder = NoHolder /\ age = NoRenewTime
       \/ exists = TRUE /\ holder = Former /\ age = 0
    /\ version = 0
    /\ pc = [r \in Regions |-> "idle"]
    /\ read = [r \in Regions |-> 0]
    /\ tries = [r \in Regions |-> 0]
    /\ acquired = {}
    /\ dead = {}

-----------------------------------------------------------------------------

\* Mutant: only an unclaimed lease can be claimed.
Stale_Unclaimed == holder = NoHolder

Stale == holder = NoHolder \/ (age # NoRenewTime /\ age > Duration)

\* A region that is granted the lease goes on to publish.
Goto(r, to) ==
    /\ pc' = [pc EXCEPT ![r] = to]
    /\ acquired' = IF to = "publish" THEN acquired \cup {r} ELSE acquired

\* acquire_submission_lease up to its first request.
Acquire(r) ==
    /\ pc[r] = "idle" /\ r \notin dead
    /\ \/ /\ ~exists
          /\ Goto(r, "create")
          /\ UNCHANGED <<read, tries>>
       \/ /\ exists /\ ~Stale /\ holder = r
          /\ Goto(r, "publish")
          /\ UNCHANGED <<read, tries>>
       \/ /\ exists /\ Stale
          /\ Goto(r, "claim")
          /\ read' = [read EXCEPT ![r] = version]
          /\ tries' = [tries EXCEPT ![r] = MaxAttempts]
    /\ UNCHANGED <<lease, dead>>

\* create_namespaced_lease: fails if another region was first, or on error.
Create(r) ==
    /\ pc[r] = "create"
    /\ \/ /\ ~exists
          /\ exists' = TRUE /\ holder' = r
          /\ UNCHANGED <<version, age>>
          /\ Goto(r, "publish")
       \/ /\ UNCHANGED lease
          /\ Goto(r, "idle")
    /\ UNCHANGED <<read, tries, dead>>

\* Mutant: the body carries no resource_version, so the last write wins.
VersionMatches_Ignored(r) == TRUE

VersionMatches(r) == version = read[r]

\* One replace request of _renew_lease is accepted.
Replace(r) ==
    /\ pc[r] \in {"claim", "renew"}
    /\ tries[r] > 0
    /\ VersionMatches(r)
    /\ holder' = r
    /\ version' = version + 1
    /\ age' = NoRenewTime
    /\ Goto(r, IF pc[r] = "claim" THEN "publish" ELSE "idle")
    /\ tries' = [tries EXCEPT ![r] = 0]
    /\ UNCHANGED <<exists, read, dead>>

\* A replace request is refused or lost; after the last one the call fails.
ReplaceFails(r) ==
    /\ pc[r] \in {"claim", "renew"}
    /\ tries' = [tries EXCEPT ![r] = @ - 1]
    /\ IF tries[r] > 1 THEN UNCHANGED <<pc, acquired>> ELSE Goto(r, "idle")
    /\ UNCHANGED <<lease, read, dead>>

\* renew_submission_lease: reads the lease, whoever holds it.
Renew(r) ==
    /\ r \in Renewers \cup acquired /\ pc[r] = "idle" /\ r \notin dead
    /\ exists /\ version < MaxVersion
    /\ age = NoRenewTime \/ Duration - age <= RenewLead
    /\ Goto(r, "renew")
    /\ read' = [read EXCEPT ![r] = version]
    /\ tries' = [tries EXCEPT ![r] = MaxAttempts]
    /\ UNCHANGED <<lease, dead>>

\* submit_score is done with the lease.
Published(r) ==
    /\ pc[r] = "publish"
    /\ Goto(r, "idle")
    /\ UNCHANGED <<lease, read, tries, dead>>

Crash(r) ==
    /\ r \notin dead
    /\ dead' = dead \cup {r}
    /\ Goto(r, "idle")
    /\ UNCHANGED <<lease, read, tries>>

Tick ==
    /\ age \in 0..Duration
    /\ age' = age + 1
    /\ UNCHANGED <<exists, holder, version, pc, read, tries, acquired, dead>>

Region(r) == Acquire(r) \/ Create(r) \/ Replace(r) \/ ReplaceFails(r) \/ Renew(r)
             \/ Published(r)

Next ==
    \/ \E r \in Regions : Region(r) \/ Crash(r)
    \/ Tick

Spec == Init /\ [][Next]_vars

\* Live regions keep submitting and their requests get through now and then.
FairSpec ==
    /\ Spec /\ WF_vars(Tick)
    /\ \A r \in Regions : /\ WF_vars(Acquire(r)) /\ WF_vars(Create(r))
                          /\ SF_vars(Replace(r)) /\ WF_vars(ReplaceFails(r))
                          /\ WF_vars(Published(r))
-----------------------------------------------------------------------------
Publishing(r) == pc[r] = "publish"

(* The lease does its job: two regions never publish at the same time, and *)
(* the one that publishes is the holder on record.                         *)
OnePublisher ==
    /\ \A r, q \in Regions : Publishing(r) /\ Publishing(q) => r = q
    /\ \A r \in Regions : Publishing(r) => exists /\ holder = r

(* A lease is never taken from a region that still publishes, and never    *)
(* while it is fresh.                                                      *)
FreshLeaseKept ==
    [][holder # holder' /\ holder # NoHolder => age = Duration + 1]_vars

(* A lease its former holder let expire is taken over.                     *)
ExpiredIsTakenOver ==
    (holder = Former) ~> (holder # Former \/ dead = Regions)

(* soroban_lease.py:83-84: "If the lease is unclaimed or the renewTime is  *)
(* older than the lease_duration_seconds we try to claim it": a crashed    *)
(* holder does not keep the lease while another region is alive.           *)
DeadHolderReplaced ==
    \A r \in Regions : (r \in dead /\ holder = r) ~> (holder # r \/ dead = Regions)
=============================================================================
