\* A denied hedge may decide the group outcome: expected violated.
CONSTANTS
    MaxHedgesLimit = 2
    Policies <- MCPolicies
    OpOutcomes = {"Success", "Retryable", "NonRetryable", "Abort"}
    ExternalCancel = TRUE
SPECIFICATION Spec
INVARIANT HedgeDenialNeutral
