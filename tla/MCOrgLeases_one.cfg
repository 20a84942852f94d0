SPECIFICATION Spec
CONSTANTS
    first = first
    second = second
    Items = {first}
    Actors = {a1, a2}
    Nobody = Nobody
    LeaseIds = {l1, l2, l3}
    NoLease = NoLease
    ReviewItems <- FirstReviewed
    Plans <- SchedulePlans
    MaxTime = 2
    States <- EngineeringStates
    Transitions <- EngineeringTransitions
    InitialState = "BACKLOG"
    RunningState = "RUNNING"
    ReviewState = "REVIEW"
    FailedState = "FAILED"
    CancelledState = "CANCELLED"
    ReleaseState = "READY"
    ReviewRejectionState = "READY"
    RecoveryState = "READY"
    BlockedState = "BLOCKED"
    ExecutableStates = {"READY"}
    SuccessfulStates = {"DONE"}
    ClaimPolicy = "assignment_restricted"
    LeaseDuration = 1
    RetryLimit = 1
    ConcurrencyLimit = 1
SYMMETRY Symmetry
INVARIANTS
    OwnershipConsistent
    RetryBudgetRespected
    ArchivedHoldsNothing
    ReasonMatchesOutcome
PROPERTIES
    OnlyTheHolderActs
    LapsedStaysLapsed
    AttemptHistoryIsFinal
    ImplementsFencedWork
CHECK_DEADLOCK FALSE
