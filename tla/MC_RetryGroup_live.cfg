\* Progress of one retry group: releases and goroutine exit.
CONSTANTS
    MaxHedgesLimit = 2
    Policies <- MCPoliciesLive
    OpOutcomes = {"Success", "Retryable"}
    ExternalCancel = TRUE
SPECIFICATION FairSpec
PROPERTY ReleaseEventually
PROPERTY NoGoroutineLeak
