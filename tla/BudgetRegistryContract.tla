----------------------- MODULE BudgetRegistryContract -----------------------
(***************************************************************************)
(* What budget.Registry promises its callers, from its doc comments: "a    *)
(* thread-safe name -> Budget map"; RegisterE refuses a nil registry, an   *)
(* empty name and a nil or typed-nil budget; MustRegister panics where     *)
(* RegisterE would fail; Get finds what the last registration of that      *)
(* name stored.  Every call takes effect at once, as if no other call ran  *)
(* at the same time.                                                       *)
(***************************************************************************)
EXTENDS BudgetValues

CONSTANTS
    Clients,        \* goroutines that call the registry
    RegistryKind    \* "nilptr" (a nil *Registry), "zero" (&Registry{}) or "made"

VARIABLES
    entries,        \* entries[k]: the budget stored under key k, or Absent
    res             \* res[c]: the result of client c's last call

contractVars == <<entries, res>>

\* Errors RegisterE returns ("ok" for nil), and "panicked" for a goroutine
\* that called MustRegister with bad arguments.
RegisterErrors == {"ok", "registry_nil", "empty_name", "nil_budget", "panicked"}

\* What a call returned: err for Register/RegisterE/MustRegister ("none"
\* for Get), and Get's budget and ok.
Results == [err : RegisterErrors \cup {"none"}, budget : Budgets, ok : BOOLEAN]

RegResult(v) == [err |-> v, budget |-> NoBudget, ok |-> v = "ok"]

GetResult(b, found) == [err |-> "none", budget |-> b, ok |-> found]

Panicked == RegResult("panicked")

NotFound == GetResult(NoBudget, FALSE)

\* The result of RegisterE(name, b), from the registry's state alone.
RegisterVerdict(n, b) ==
    CASE RegistryKind = "nilptr"   -> "registry_nil"
      [] TrimSpace(n) = <<>>       -> "empty_name"
      [] IsTypedNil(b)             -> "nil_budget"
      [] OTHER                     -> "ok"

ContractInit ==
    /\ entries = [k \in Keys |-> Absent]
    /\ res = [c \in Clients |-> RegResult("ok")]

\* Register or RegisterE (must = FALSE), or MustRegister (must = TRUE).
ContractRegister(c, n, b, must) ==
    /\ res[c] # Panicked
    /\ LET v == RegisterVerdict(n, b) IN
       /\ entries' = IF v = "ok" THEN [entries EXCEPT ![TrimSpace(n)] = b]
                                 ELSE entries
       /\ res' = [res EXCEPT ![c] =
                    IF must /\ v # "ok" THEN Panicked ELSE RegResult(v)]

ContractGet(c, n) ==
    /\ res[c] # Panicked
    /\ res' = [res EXCEPT ![c] =
                 IF RegistryKind = "nilptr" \/ TrimSpace(n) = <<>>
                    \/ entries[TrimSpace(n)] = Absent
                 THEN NotFound
                 ELSE GetResult(entries[TrimSpace(n)], TRUE)]
    /\ UNCHANGED entries

ContractNext ==
    \E c \in Clients, n \in Names :
        \/ \E b \in Budgets, must \in BOOLEAN : ContractRegister(c, n, b, must)
        \/ ContractGet(c, n)

ContractSpec == ContractInit /\ [][ContractNext]_contractVars

=============================================================================
