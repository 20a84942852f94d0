SPECIFICATION StructuredSpec
CONSTANTS
    first = first
    second = second
    Items = {first, second}
    Actors = {a1}
    Nobody = Nobody
    LeaseIds = {l1, l2, l3}
    NoLease = NoLease
    ReviewItems <- FirstReviewed
    Plans <- DependencyPlans
    MaxTime = 2
    States <- EngineeringStates
    Transitions <- EngineeringTransitions
    InitialState = "BACKLOG"
    RunningState = "RUNNING"
    ReviewState = "REVIEW"
    FailedState = "FAILED"
    CancelledState = "CANCELLED"
    ReleaseState = "READY"
    ReviewRejectionState = "READY"
    RecoveryState = "READY"
    BlockedState = "BLOCKED"
    ExecutableStates = {"READY"}
    SuccessfulStates = {"DONE"}
    ClaimPolicy = "assignment_restricted"
    LeaseDuration = 2
    RetryLimit = 0
    ConcurrencyLimit = 1
SYMMETRY Symmetry
INVARIANTS
    CapacityRespected
    CompletionIsEarned
    SomeItemIsUnblocked
PROPERTIES
    ReviewIsNotBypassed
CHECK_DEADLOCK FALSE
