------------------------- MODULE MC_BudgetRegistry -------------------------
(***************************************************************************)
(* Model-checking instance of BudgetRegistry: names with and without       *)
(* surrounding spaces, an all-space name, and budgets of every shape       *)
(* IsTypedNil tells apart.                                                 *)
(***************************************************************************)
EXTENDS BudgetRegistry

\* "", " ", "a", " a", "a ": two trim to the empty name, three to "a".
MCNames == {<<>>, <<" ">>, <<"a">>, <<" ", "a">>, <<"a", " ">>}

\* The nil interface, a typed nil pointer, a pointer budget and a struct
\* budget.
MCBudgets ==
    {NoBudget,
     [kind |-> "ptr", isNil |-> TRUE, id |-> 1],
     [kind |-> "ptr", isNil |-> FALSE, id |-> 1],
     [kind |-> "struct", isNil |-> FALSE, id |-> 2]}


=============================================================================
