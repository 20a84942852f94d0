SPECIFICATION OpSpec
CONSTANTS
    first = first
    Items = {first}
    Actors = {a1}
    Nobody = Nobody
    LeaseIds = {l1, l2}
    NoLease = NoLease
    ReviewItems <- FirstReviewed
    Plans <- NoPlans
    MaxTime = 1
    States <- EngineeringStates
    Transitions <- EngineeringTransitions
    InitialState = "BACKLOG"
    RunningState = "RUNNING"
    ReviewState = "REVIEW"
    FailedState = "FAILED"
    CancelledState = "CANCELLED"
    ReleaseState = "READY"
    ReviewRejectionState = "READY"
    RecoveryState = "READY"
    BlockedState = "BLOCKED"
    ExecutableStates = {"READY"}
    SuccessfulStates = {"DONE"}
    ClaimPolicy = "assignment_restricted"
    LeaseDuration = 1
    RetryLimit = 1
    ConcurrencyLimit = 1
    Ops = {o1, o2, o3}
    MaxSent = 2
SYMMETRY Symmetry
INVARIANTS
    EveryLeaseIsAnswered
    AnswersAgree
    StaleIsFinal
    NoLostUpdate
CHECK_DEADLOCK FALSE
