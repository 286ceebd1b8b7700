--------------------------- MODULE MC_PolicyOptions ---------------------------
(***************************************************************************)
(* Argument sets for NewFromKey: negative, zero, in-range and out-of-range *)
(* counts; a negative, a zero, a sub-millisecond, an ordinary and a 40s    *)
(* duration (in microseconds); a zero, a fractional (0.5) and an           *)
(* over-ceiling (11.0) multiplier (in tenths); a valid and an unknown      *)
(* jitter; an empty and a set name; a zero and a custom cost.              *)
(***************************************************************************)
EXTENDS PolicyOptions

MCCounts == {-1, 0, 1, 3, 11}

MCDurations == {-1, 0, 500, 5 * Ms, 40 * Second}

MCMultipliers == {0, 5, 110}

MCJitterArgs == {"full", "bogus"}

MCNameArgs == {"", "x"}

MCCostArgs == {-1, 0, 2}

=============================================================================
