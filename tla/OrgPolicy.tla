----------------------------- MODULE OrgPolicy -----------------------------
(***************************************************************************)
(* The workspace policy of the Org work queue (note-org/src/policy.rs) and *)
(* the pure decisions every workflow command takes from it: which state    *)
(* changes are allowed, what lifecycle event a change is, and what it does *)
(* to the lease and the attempt behind it.                                 *)
(*                                                                         *)
(* A policy is user data.  The constants below are its fields; what        *)
(* ValidPolicy does not say of them (validate_policy) is not assumed: the  *)
(* roles may share states and the transition table may have extra edges.   *)
(***************************************************************************)
EXTENDS Integers, FiniteSets

CONSTANTS
    States,                 \* workflow state names
    Transitions,            \* allowed <<from, to>> pairs
    InitialState, RunningState, ReviewState, FailedState, CancelledState,
    ReleaseState,           \* where a released item goes
    ReviewRejectionState,   \* where a rejected item goes
    RecoveryState,          \* lease_expiry_recovery_state
    BlockedState,           \* the literal "BLOCKED", which need not be in States
    ExecutableStates,       \* states an execution claim may start from
    SuccessfulStates,       \* successful_terminal_states
    ClaimPolicy,            \* "open", "assignment_restricted" or "dispatched"
    LeaseDuration, RetryLimit, ConcurrencyLimit

(* What validate_policy accepts, so all that a stored policy satisfies. *)
ValidPolicy ==
    /\ {InitialState, RunningState, ReviewState, FailedState, CancelledState,
        ReleaseState, ReviewRejectionState, RecoveryState} \subseteq States
    /\ ExecutableStates \subseteq States
    /\ SuccessfulStates \subseteq States
    /\ Transitions \subseteq States \X States
    /\ {ReleaseState, ReviewRejectionState, RecoveryState} \subseteq ExecutableStates
    /\ {<<RunningState, ReleaseState>>, <<ReviewState, ReviewRejectionState>>,
        <<RunningState, RecoveryState>>, <<FailedState, RunningState>>}
          \subseteq Transitions
    /\ \A s \in ExecutableStates : <<s, RunningState>> \in Transitions
    /\ ClaimPolicy \in {"open", "assignment_restricted", "dispatched"}
    /\ LeaseDuration \in Nat \ {0}
    /\ ConcurrencyLimit \in Nat \ {0}
    /\ RetryLimit \in Nat

ASSUME PolicyAssumption == ValidPolicy

(* Success has states of its own, which are entered from work in progress  *)
(* or under review.  validate_policy does not ask for it; the engineering  *)
(* default has it.                                                         *)
SuccessIsDistinct ==
    /\ SuccessfulStates \cap
          (ExecutableStates \cup {InitialState, RunningState, ReviewState,
                                 FailedState, CancelledState, BlockedState}) = {}
    /\ BlockedState \notin {RunningState, ReviewState}
    /\ \A from \in States, to \in SuccessfulStates :
          <<from, to>> \in Transitions => from \in {RunningState, ReviewState}

(* RetryLimit extra attempts after the first one. *)
MaxAttempts == RetryLimit + 1

-----------------------------------------------------------------------------
(* Mutant: review is asked for only of work that already is under review.   *)
ReviewForgottenBeforeReview(from, to, review, approved, depsDone) ==
    /\ <<from, to>> \in Transitions
    /\ to \in ExecutableStates \cup SuccessfulStates => depsDone
    /\ to \in SuccessfulStates /\ from = ReviewState => approved

(* validate_transition: may an item go from one state to another?          *)
(* review: the item or its type requires review; approved: the caller is   *)
(* an approval; depsDone: every prerequisite is in a successful state.     *)
TransitionAllowed(from, to, review, approved, depsDone) ==
    /\ <<from, to>> \in Transitions
    /\ to \in ExecutableStates \cup SuccessfulStates => depsDone
    /\ to \in SuccessfulStates =>
          IF from = ReviewState THEN approved ELSE ~review

(* classify_transition: the first clause that applies names the change. *)
Lifecycle(from, to) ==
    IF from = ReviewState /\ to \in SuccessfulStates THEN "approval"
    ELSE IF from = ReviewState /\ to = ReviewRejectionState THEN "rejection"
    ELSE IF to = CancelledState THEN "cancellation"
    ELSE IF from = RunningState /\ to = ReviewState THEN "review_request"
    ELSE IF to = FailedState THEN "failure"
    ELSE IF to = BlockedState THEN "block"
    ELSE IF from = BlockedState THEN "unblock"
    ELSE IF to \in SuccessfulStates THEN "completion"
    ELSE "transition"

(* closes_lease: every lifecycle but a plain move ends the lease behind it. *)
ClosesLease(lifecycle) == lifecycle \notin {"unblock", "transition"}

(* Work under review leaves it only by a review decision or cancellation. *)
ReviewExit(from, lifecycle) ==
    from = ReviewState => lifecycle \in {"approval", "rejection", "cancellation"}

(* lifecycle_attempt: the status the attempt behind the lease must have,   *)
(* and the one a closing lifecycle gives it.                               *)
AttemptBefore(lifecycle, fromReview) ==
    IF lifecycle \in {"approval", "rejection"}
          \/ (lifecycle = "cancellation" /\ fromReview)
    THEN "submitted" ELSE "running"

(* Mutant: a rejected attempt is recorded as cancelled.                     *)
RejectionIsCancellation(lifecycle) ==
    CASE lifecycle \in {"approval", "completion"} -> "completed"
      [] lifecycle \in {"cancellation", "block", "rejection"} -> "cancelled"
      [] lifecycle = "failure" -> "failed"
      [] lifecycle = "review_request" -> "submitted"

AttemptAfter(lifecycle) ==
    CASE lifecycle \in {"approval", "completion"}  -> "completed"
      [] lifecycle \in {"rejection", "failure"}    -> "failed"
      [] lifecycle \in {"cancellation", "block"}   -> "cancelled"
      [] lifecycle = "review_request"              -> "submitted"

(* add_assignment_blockers: may this actor claim an item assigned so? *)
MayClaim(assignee, actor, nobody) ==
    CASE ClaimPolicy = "open"                  -> TRUE
      [] ClaimPolicy = "assignment_restricted" -> assignee \in {nobody, actor}
      [] ClaimPolicy = "dispatched"            -> assignee = actor
=============================================================================
