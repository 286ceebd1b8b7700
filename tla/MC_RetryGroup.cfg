\* Safety of one retry group under every hedge policy shape, with the
\* caller free to cancel at any point.
CONSTANTS
    MaxHedgesLimit = 2
    Policies <- MCPolicies
    OpOutcomes = {"Success", "Retryable", "NonRetryable", "Abort"}
    ExternalCancel = TRUE
SPECIFICATION Spec
INVARIANT TypeOK
INVARIANT NoBlockedSend
INVARIANT ReleaseExactlyOnce
INVARIANT GroupRecordsBounded
PROPERTY ContractHolds
