--------------------------- MODULE BudgetRegistry ---------------------------
(***************************************************************************)
(* budget.Registry (src/budget/registry.go) used by concurrent goroutines: *)
(* each client calls Register, RegisterE, MustRegister or Get again and    *)
(* again.  The argument checks run outside the lock; the map is written    *)
(* under mu.Lock() and read under mu.RLock().  sync.RWMutex is modelled    *)
(* with its writer preference: once a goroutine waits in Lock, new RLock   *)
(* calls block until it has had the lock, and the readers that blocked    *)
(* behind it get the lock when it unlocks, before the next writer.         *)
(***************************************************************************)
EXTENDS BudgetValues

CONSTANTS
    Clients,        \* goroutines that call the registry
    RegistryKind,   \* "nilptr" (a nil *Registry), "zero" (&Registry{}) or "made"
    CallBudgets     \* the Budget values callers register

NoClient == "noClient"

ASSUME BudgetRegistryAssumption ==
    /\ RegistryKind \in {"nilptr", "zero", "made"}
    /\ CallBudgets \subseteq Budgets
    /\ NoClient \notin Clients

VARIABLES
    m,          \* r.m: m[k] is the budget stored under k, or Absent
    pc,         \* pc[c]: where client c is in its current call
    key,        \* key[c]: the trimmed name of c's current call
    arg,        \* arg[c]: the budget c's current RegisterE stores
    ret,        \* ret[c]: what c's last call returned (or "panicked")
    writer,     \* the goroutine that owns mu's writer mutex (waiting for
                \* readers to leave, or holding mu), or NoClient
    readers     \* the goroutines holding mu for reading

vars == <<m, pc, key, arg, ret, writer, readers>>

\* Where a client may be.  idle: between calls; regLock: in mu.Lock(),
\* waiting for the writer mutex; regDrain: in mu.Lock(), waiting for the
\* readers to leave; regStore: holding mu; regUnlock: running the deferred
\* mu.Unlock(); getRLock: calling mu.RLock(); getRWait: blocked in RLock
\* behind a writer; getRead: holding the read lock; getRUnlock: releasing
\* it; panicked: the goroutine died in MustRegister.
ClientPCs == {"idle", "regLock", "regDrain", "regStore", "regUnlock",
              "getRLock", "getRWait", "getRead", "getRUnlock", "panicked"}

Contract == INSTANCE BudgetRegistryContract WITH entries <- m, res <- ret

-----------------------------------------------------------------------------
(* Helpers taken from registry.go.                                          *)

\* Mutation: the typed-nil check written as the interface comparison
\* b == nil.
RegisterCheckInterfaceNil(n, b) ==
    CASE RegistryKind = "nilptr"   -> "registry_nil"
      [] TrimSpace(n) = <<>>       -> "empty_name"
      [] ~IsNonNilInterface(b)     -> "nil_budget"
      [] OTHER                     -> "ok"

\* RegisterE's checks, in the order the code makes them: r == nil, the
\* trimmed name empty, IsTypedNil(b).
RegisterCheck(n, b) ==
    CASE RegistryKind = "nilptr"   -> "registry_nil"
      [] TrimSpace(n) = <<>>       -> "empty_name"
      [] IsTypedNil(b)             -> "nil_budget"
      [] OTHER                     -> "ok"

\* Get's early returns: r == nil, the trimmed name empty.
GetEarlyMiss(n) == RegistryKind = "nilptr" \/ TrimSpace(n) = <<>>

\* b, ok := r.m[name]; return b, ok && b != nil
Lookup(k) ==
    IF m[k] = Absent
    THEN Contract!NotFound
    ELSE Contract!GetResult(m[k], IsNonNilInterface(m[k]))


Init ==
    /\ m = [k \in Keys |-> Absent]
    /\ pc = [c \in Clients |-> "idle"]
    /\ key = [c \in Clients |-> <<>>]
    /\ arg = [c \in Clients |-> NoBudget]
    /\ ret = [c \in Clients |-> Contract!RegResult("ok")]
    /\ writer = NoClient
    /\ readers = {}

-----------------------------------------------------------------------------
(* RegisterE (Register ignores its error, MustRegister panics on it).       *)

\* A check fails: RegisterE returns its error without locking, and
\* MustRegister panics, which ends the calling goroutine.
RegisterRejected(c, n, b, must) ==
    /\ pc[c] = "idle"
    /\ RegisterCheck(n, b) # "ok"
    /\ ret' = [ret EXCEPT ![c] =
                 IF must THEN Contract!Panicked
                         ELSE Contract!RegResult(RegisterCheck(n, b))]
    /\ pc' = [pc EXCEPT ![c] = IF must THEN "panicked" ELSE "idle"]
    /\ UNCHANGED <<m, key, arg, writer, readers>>

\* Mutation: RegisterE stores under the name as given, untrimmed.
RegisterCallNoTrim(c, n, b) ==
    /\ pc[c] = "idle"
    /\ RegisterCheck(n, b) = "ok"
    /\ pc' = [pc EXCEPT ![c] = "regLock"]
    /\ key' = [key EXCEPT ![c] = n]
    /\ arg' = [arg EXCEPT ![c] = b]
    /\ UNCHANGED <<m, ret, writer, readers>>

\* The checks pass: name = strings.TrimSpace(name); then r.mu.Lock().
RegisterCall(c, n, b) ==
    /\ pc[c] = "idle"
    /\ RegisterCheck(n, b) = "ok"
    /\ pc' = [pc EXCEPT ![c] = "regLock"]
    /\ key' = [key EXCEPT ![c] = TrimSpace(n)]
    /\ arg' = [arg EXCEPT ![c] = b]
    /\ UNCHANGED <<m, ret, writer, readers>>

\* mu.Lock() takes the writer mutex and announces the writer: from now on
\* RLock blocks.
RegLock(c) ==
    /\ pc[c] = "regLock"
    /\ writer = NoClient
    /\ writer' = c
    /\ pc' = [pc EXCEPT ![c] = "regDrain"]
    /\ UNCHANGED <<m, key, arg, ret, readers>>

\* mu.Lock() returns once the readers that held mu have left.
RegDrain(c) ==
    /\ pc[c] = "regDrain"
    /\ readers = {}
    /\ pc' = [pc EXCEPT ![c] = "regStore"]
    /\ UNCHANGED <<m, key, arg, ret, writer, readers>>

\* if r.m == nil { r.m = make(...) }; r.m[name] = b; return nil.  A nil
\* map reads like an empty one, so the allocation changes nothing a lookup
\* can see.
RegStore(c) ==
    /\ pc[c] = "regStore"
    /\ m' = [m EXCEPT ![key[c]] = arg[c]]
    /\ ret' = [ret EXCEPT ![c] = Contract!RegResult("ok")]
    /\ pc' = [pc EXCEPT ![c] = "regUnlock"]
    /\ UNCHANGED <<key, arg, writer, readers>>

\* The readers blocked in RLock behind the writer.
BlockedReaders == {r \in Clients : pc[r] = "getRWait"}

\* The deferred mu.Unlock(): the blocked readers get the read lock, then
\* the writer mutex is released.
RegUnlock(c) ==
    /\ pc[c] = "regUnlock"
    /\ writer' = NoClient
    /\ readers' = readers \cup BlockedReaders
    /\ pc' = [r \in Clients |->
                IF r = c THEN "idle"
                ELSE IF r \in BlockedReaders THEN "getRead" ELSE pc[r]]
    /\ UNCHANGED <<m, key, arg, ret>>

-----------------------------------------------------------------------------
(* Get.                                                                     *)

\* r == nil or an empty trimmed name: return nil, false at once.
GetRejected(c, n) ==
    /\ pc[c] = "idle"
    /\ GetEarlyMiss(n)
    /\ ret' = [ret EXCEPT ![c] = Contract!NotFound]
    /\ UNCHANGED <<m, pc, key, arg, writer, readers>>

\* name = strings.TrimSpace(name); then r.mu.RLock().
GetCall(c, n) ==
    /\ pc[c] = "idle"
    /\ ~GetEarlyMiss(n)
    /\ pc' = [pc EXCEPT ![c] = "getRLock"]
    /\ key' = [key EXCEPT ![c] = TrimSpace(n)]
    /\ UNCHANGED <<m, arg, ret, writer, readers>>

\* mu.RLock(): the reader gets the lock at once unless a writer has
\* announced itself; then it blocks until that writer's Unlock.
GetRLock(c) ==
    /\ pc[c] = "getRLock"
    /\ \/ /\ writer = NoClient
          /\ readers' = readers \cup {c}
          /\ pc' = [pc EXCEPT ![c] = "getRead"]
       \/ /\ writer # NoClient
          /\ pc' = [pc EXCEPT ![c] = "getRWait"]
          /\ UNCHANGED readers
    /\ UNCHANGED <<m, key, arg, ret, writer>>

\* b, ok := r.m[name]; the result is fixed here, under the read lock.
GetRead(c) ==
    /\ pc[c] = "getRead"
    /\ ret' = [ret EXCEPT ![c] = Lookup(key[c])]
    /\ pc' = [pc EXCEPT ![c] = "getRUnlock"]
    /\ UNCHANGED <<m, key, arg, writer, readers>>

\* r.mu.RUnlock(); return b, ok && b != nil.
GetRUnlock(c) ==
    /\ pc[c] = "getRUnlock"
    /\ readers' = readers \ {c}
    /\ pc' = [pc EXCEPT ![c] = "idle"]
    /\ UNCHANGED <<m, key, arg, ret, writer>>

-----------------------------------------------------------------------------

\* The steps of client c once it has called.
Step(c) ==
    \/ RegLock(c) \/ RegDrain(c) \/ RegStore(c) \/ RegUnlock(c)
    \/ GetRLock(c) \/ GetRead(c) \/ GetRUnlock(c)

\* Client c starts a call.
Call(c) ==
    \E n \in Names :
        \/ \E b \in CallBudgets :
              \/ \E must \in BOOLEAN : RegisterRejected(c, n, b, must)
              \/ RegisterCall(c, n, b)
        \/ GetRejected(c, n)
        \/ GetCall(c, n)

\* An unrecovered panic in MustRegister ends the whole program.
Crashed == \E c \in Clients : pc[c] = "panicked"

Next ==
    \/ ~Crashed /\ \E c \in Clients : Call(c) \/ Step(c)
    \/ Crashed /\ UNCHANGED vars

Spec == Init /\ [][Next]_vars

-----------------------------------------------------------------------------
(* Properties.                                                              *)

TypeOK ==
    /\ m \in [Keys -> Budgets \cup {Absent}]
    /\ pc \in [Clients -> ClientPCs]
    /\ key \in [Clients -> Keys \cup {<<>>}]
    /\ arg \in [Clients -> Budgets]
    /\ ret \in [Clients -> Contract!Results]
    /\ writer \in Clients \cup {NoClient}
    /\ readers \subseteq Clients

\* Get never reports ok for a budget that is nil behind its interface: a
\* caller that checks only ok and calls AllowAttempt on the result never
\* dereferences a nil budget.  Get's own check is b != nil, which a typed
\* nil passes; it holds only because RegisterE refused the typed nil.
GetNeverTypedNil ==
    \A c \in Clients :
        ret[c].err = "none" /\ ret[c].ok =>
            /\ ret[c].budget.kind # "none"
            /\ ret[c].budget.kind \in NillableKinds => ~ret[c].budget.isNil

\* The registry implements its contract: with the map as the entries and
\* each call taking effect when it stores or reads under the lock, every
\* behaviour is one of the atomic map's.
ContractHolds == Contract!ContractSpec

=============================================================================
