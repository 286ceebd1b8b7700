\* Spec section 3 caps MaxBackoff at 30s; checks every NewFromKey result
\* against that ceiling.
CONSTANTS
    MaxOptions = 1
    Counts <- MCCounts
    Durations <- MCDurations
    Multipliers <- MCMultipliers
    JitterArgs <- MCJitterArgs
    NameArgs <- MCNameArgs
    CostArgs <- MCCostArgs
SPECIFICATION Spec
INVARIANT BackoffCeiling
