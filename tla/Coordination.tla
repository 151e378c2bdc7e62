---------------------------- MODULE Coordination ----------------------------
(***************************************************************************)
(* The pure decisions of ingestion/coordination.py and of question_plan in *)
(* ingestion/refresh.py, shared by every module about refreshes.           *)
(*                                                                         *)
(* Time is relative.  A deadline is kept as the time left until it (0 when *)
(* it has passed or is NULL) and a heartbeat as its age, which stops       *)
(* growing once it is stale.  "lease_expires_at > now" is thus lease > 0.  *)
(* An expired deadline and a missing one are told apart by no decision     *)
(* below.                                                                  *)
(***************************************************************************)
EXTENDS Naturals

CONSTANTS
    LEASE,             \* lease_deadline(now) - now: ten minutes in the code
    HEARTBEAT_STALE    \* age up to which a heartbeat is fresh: two minutes

ASSUME DurationAssumption ==
    /\ LEASE \in Nat \ {0}
    /\ HEARTBEAT_STALE \in Nat

TimeLeft == 0..LEASE
HeartbeatAge == 0..(HEARTBEAT_STALE + 1)

\* One unit of time passes for a deadline and for a heartbeat.
Sooner(left) == IF left > 0 THEN left - 1 ELSE 0
Older(age) == IF age > HEARTBEAT_STALE THEN age ELSE age + 1

-----------------------------------------------------------------------------
\* True while an indexer is likely still running.
RefreshLeaseHeld(lease, heartbeat) ==
    /\ lease > 0
    /\ heartbeat <= HEARTBEAT_STALE

\* Whether a claim on a work tree, found by a worker of user, is another's; the
\* mutant takes the own for the other's.
ClaimHeldBySelf(lease, claimant, user) ==
    /\ lease > 0
    /\ claimant = user
ClaimHeldByOther(lease, claimant, user) ==
    /\ lease > 0
    /\ claimant # user

\* The check of activate_generation on the repository row its session holds; the
\* mutant does not compare the generation.
AnyMayActivate(row, generation, owner, epoch) ==
    /\ row.state = "running"
    /\ row.owner = owner
    /\ row.epoch = epoch
    /\ row.lease > 0
RefreshMayActivate(row, generation, owner, epoch) ==
    /\ row.state = "running"
    /\ row.gen = generation
    /\ row.owner = owner
    /\ row.epoch = epoch
    /\ row.lease > 0

\* What a worker that finds a "creating" tree does with what is on disk; the mutant
\* takes a creating path that is gone for a promotion.
PublishesWhatIsGone(publishExists, creatingExists, validationPassed) ==
    IF ~creatingExists THEN "publish" ELSE "discard"
CreationRecoveryAction(publishExists, creatingExists, validationPassed) ==
    IF publishExists /\ ~creatingExists /\ validationPassed
    THEN "publish" ELSE "discard"

\* question_plan for an authorized upstream: the build an index request starts.
BuildPlan(sameCommitServable, refreshState, leaseHeld) ==
    CASE sameCommitServable -> "serve"
      [] ~sameCommitServable /\ refreshState = "running" /\ leaseHeld -> "wait"
      [] ~sameCommitServable /\ refreshState = "running" /\ ~leaseHeld -> "adopt"
      [] OTHER -> "start"
=============================================================================
