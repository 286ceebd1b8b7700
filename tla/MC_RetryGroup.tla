--------------------------- MODULE MC_RetryGroup ---------------------------
(***************************************************************************)
(* Model-checking instance of RetryGroup: up to two hedges, every hedge    *)
(* policy shape that changes the control flow of doRetryGroup.             *)
(***************************************************************************)
EXTENDS RetryGroup

\* Hedging off; one hedge with the fixed-delay trigger; two hedges with a
\* registered trigger, with and without CancelOnFirstTerminal.
MCPolicies ==
    {[enabled |-> FALSE, maxHedges |-> 0, cancelOnFirstTerminal |-> FALSE,
      trigger |-> "fixed"]}
    \cup
    {[enabled |-> TRUE, maxHedges |-> 1, cancelOnFirstTerminal |-> c,
      trigger |-> "fixed"] : c \in BOOLEAN}
    \cup
    {[enabled |-> TRUE, maxHedges |-> 2, cancelOnFirstTerminal |-> c,
      trigger |-> "custom"] : c \in BOOLEAN}

\* For the liveness runs: hedging off, and two hedges with a registered
\* trigger (the fixed-delay trigger launches a subset of those behaviours).
MCPoliciesLive ==
    {[enabled |-> FALSE, maxHedges |-> 0, cancelOnFirstTerminal |-> FALSE,
      trigger |-> "fixed"]}
    \cup
    {[enabled |-> TRUE, maxHedges |-> 2, cancelOnFirstTerminal |-> c,
      trigger |-> "custom"] : c \in BOOLEAN}

=============================================================================
