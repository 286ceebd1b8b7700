\* Up to three options in any order, then Normalize with its fallback.
CONSTANTS
    MaxOptions = 3
    Counts <- MCCounts
    Durations <- MCDurations
    Multipliers <- MCMultipliers
    JitterArgs <- MCJitterArgs
    NameArgs <- MCNameArgs
    CostArgs <- MCCostArgs
SPECIFICATION Spec
 
INVARIANT ExplicitHedgeKept
