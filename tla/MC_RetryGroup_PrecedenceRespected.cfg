\* A failing group returns the last failure, not the strongest: expected
\* violated.
CONSTANTS
    MaxHedgesLimit = 2
    Policies <- MCPolicies
    OpOutcomes = {"Success", "Retryable", "NonRetryable", "Abort"}
    ExternalCancel = TRUE
SPECIFICATION Spec
INVARIANT PrecedenceRespected
