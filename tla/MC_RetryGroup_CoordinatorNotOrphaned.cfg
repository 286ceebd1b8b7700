\* The coordinator may wait on a channel no goroutine will send to again:
\* expected violated (send happens before the deferred active decrement).
CONSTANTS
    MaxHedgesLimit = 2
    Policies <- MCPolicies
    OpOutcomes = {"Success", "Retryable", "NonRetryable", "Abort"}
    ExternalCancel = FALSE
SPECIFICATION Spec
INVARIANT CoordinatorNotOrphaned
