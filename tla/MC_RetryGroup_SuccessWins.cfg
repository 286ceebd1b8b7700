\* A group may return a failure while one of its attempts succeeds: expected
\* violated (a hedge launched after active read 0).
CONSTANTS
    MaxHedgesLimit = 2
    Policies <- MCPolicies
    OpOutcomes = {"Success", "Retryable", "NonRetryable", "Abort"}
    ExternalCancel = TRUE
SPECIFICATION Spec
INVARIANT SuccessWins
