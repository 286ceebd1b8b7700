---------------------------- MODULE BudgetValues ----------------------------
(***************************************************************************)
(* The data the budget registry works on: registry names, which            *)
(* RegisterE and Get pass through strings.TrimSpace, and Budget interface  *)
(* values, which internal.IsTypedNil inspects by reflection.               *)
(*                                                                         *)
(* A name is a sequence of characters; a Budget value is a record of its   *)
(* dynamic kind ("none" for the untyped nil interface), whether the        *)
(* pointer-like value it holds is nil, and an identity.                    *)
(***************************************************************************)
EXTENDS Naturals, Sequences

CONSTANTS
    Space,         \* the characters unicode.IsSpace accepts, in the model
    Names,         \* the names callers pass to RegisterE and Get
    BudgetIds      \* identities of distinct budget implementations

\* The reflect.Kind values IsTypedNil asks IsNil of.
NillableKinds == {"ptr", "map", "slice", "func", "interface", "chan"}

\* Dynamic kinds a Budget interface value may have; "none" is the nil
\* interface itself.
BudgetKinds == NillableKinds \cup {"none", "struct"}

Budgets == [kind : BudgetKinds, isNil : BOOLEAN, id : BudgetIds]

\* The nil interface value: what Get returns with ok = false.
NoBudget == [kind |-> "none", isNil |-> TRUE, id |-> CHOOSE i \in BudgetIds : TRUE]

ASSUME BudgetValuesAssumption ==
    /\ Names \subseteq Seq(STRING)
    /\ BudgetIds # {}

\* Mutation: a reflect.Ptr missing from the kinds IsTypedNil checks.
IsTypedNilNoPtr(x) ==
    \/ x.kind = "none"
    \/ x.kind \in NillableKinds \ {"ptr"} /\ x.isNil

\* internal.IsTypedNil: x == nil, or a nil pointer, map, slice, func,
\* interface or channel inside a non-nil interface.
IsTypedNil(x) ==
    \/ x.kind = "none"
    \/ x.kind \in NillableKinds /\ x.isNil

\* The interface comparison b != nil: false only for the nil interface.
IsNonNilInterface(x) == x.kind # "none"

\* Positions of the characters of s that are not spaces.
Kept(s) == {k \in DOMAIN s : s[k] \notin Space}

\* strings.TrimSpace: the part of s between its first and last non-space
\* character, or the empty string when s is all spaces.
TrimSpace(s) ==
    IF Kept(s) = {} THEN <<>>
    ELSE LET first == CHOOSE k \in Kept(s) : \A j \in Kept(s) : k <= j
             last  == CHOOSE k \in Kept(s) : \A j \in Kept(s) : j <= k
         IN  SubSeq(s, first, last)

\* The keys the registry's map can hold: trimmed, non-empty names.
Keys == {TrimSpace(n) : n \in Names} \ {<<>>}

\* The map slot of a key that was never stored (a record, so that it can
\* be compared with budgets).
Absent == [kind |-> "absent", isNil |-> TRUE, id |-> CHOOSE i \in BudgetIds : TRUE]

=============================================================================
