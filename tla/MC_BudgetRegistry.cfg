\* Two goroutines calling the registry: argument checks, typed nils, the
\* registry refining its atomic-map contract.
CONSTANTS
    Space = {" "}
    Names <- MCNames
    BudgetIds = {1, 2}
    Clients = {c1, c2}
    RegistryKind = "zero"
    CallBudgets <- MCBudgets
SPECIFICATION Spec
INVARIANT TypeOK
INVARIANT GetNeverTypedNil
PROPERTY ContractHolds
