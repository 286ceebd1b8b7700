\* HedgeMaxAttempts(n) is documented to set the maximum parallel attempts
\* per retry group; checks that the group then runs at most n at once.
CONSTANTS
    MaxOptions = 2
    Counts <- MCCounts
    Durations <- MCDurations
    Multipliers <- MCMultipliers
    JitterArgs <- MCJitterArgs
    NameArgs <- MCNameArgs
    CostArgs <- MCCostArgs
SPECIFICATION Spec
INVARIANT HedgeMaxAttemptsBoundsParallel
