------------------------- MODULE BudgetRegistryProofs -------------------------
(***************************************************************************)
(* Proofs about BudgetRegistry for every set of goroutines, names and      *)
(* budgets: the type invariant, that Get never hands out a nil budget as   *)
(* found, and that the locked registry implements the atomic map of its    *)
(* contract.                                                               *)
(***************************************************************************)
EXTENDS BudgetRegistry, TLAPS

-----------------------------------------------------------------------------
(* The inductive invariant.                                                *)

\* The client pcs inside a call, between the trim and the return.
InCallPCs == {"regLock", "regDrain", "regStore", "regUnlock",
              "getRLock", "getRWait", "getRead", "getRUnlock"}

\* A goroutine inside a call passed the early checks: the registry is not
\* a nil pointer and its trimmed name is a key.
InCallChecked ==
    \A c \in Clients :
        pc[c] \in InCallPCs => RegistryKind # "nilptr" /\ key[c] \in Keys

\* A Register on its way to the store carries a budget IsTypedNil refused.
PendingNotNil ==
    \A c \in Clients :
        pc[c] \in {"regLock", "regDrain", "regStore"} => ~IsTypedNil(arg[c])

\* The map never holds a nil or typed-nil budget.
StoredNotNil == \A k \in Keys : ~IsTypedNil(m[k])

\* Only a goroutine that died in MustRegister has the panicked result.
PanicOnlyCrashed ==
    \A c \in Clients : ret[c] = Contract!Panicked => pc[c] = "panicked"

IInv ==
    /\ TypeOK
    /\ InCallChecked
    /\ PendingNotNil
    /\ StoredNotNil
    /\ PanicOnlyCrashed
    /\ GetNeverTypedNil

-----------------------------------------------------------------------------
(* Facts about the values.                                                 *)

\* The nil interface is a budget value, and IsTypedNil holds of it; the
\* empty map slot is no budget, and IsTypedNil does not hold of it.
LEMMA ValueFacts ==
    /\ NoBudget \in Budgets
    /\ IsTypedNil(NoBudget)
    /\ Absent \notin Budgets
    /\ ~IsTypedNil(Absent)
BY BudgetValuesAssumption
   DEF NoBudget, Budgets, BudgetKinds, NillableKinds, IsTypedNil, Absent

\* The instance of the contract sees the same budget values.
LEMMA SameValues ==
    /\ Contract!Budgets = Budgets
    /\ Contract!NoBudget = NoBudget
BY DEF Contract!Budgets, Contract!BudgetKinds, Contract!NillableKinds,
       Contract!NoBudget, Budgets, BudgetKinds, NillableKinds, NoBudget

\* ... and the same names, keys and predicates.
LEMMA SameNames ==
    /\ Contract!Keys = Keys
    /\ Contract!Absent = Absent
    /\ \A n : Contract!TrimSpace(n) = TrimSpace(n)
    /\ \A x : Contract!IsTypedNil(x) = IsTypedNil(x)
BY DEF Contract!Keys, Contract!TrimSpace, Contract!Kept, Contract!Absent,
       Contract!IsTypedNil, Contract!NillableKinds,
       Keys, TrimSpace, Kept, Absent, IsTypedNil, NillableKinds

\* Every result a call can return is one of Results.
LEMMA ResultFacts ==
    /\ \A v \in Contract!RegisterErrors : Contract!RegResult(v) \in Contract!Results
    /\ \A b \in Budgets, f \in BOOLEAN : Contract!GetResult(b, f) \in Contract!Results
    /\ Contract!NotFound \in Contract!Results
    /\ Contract!Panicked \in Contract!Results
BY ValueFacts, SameValues
   DEF Contract!RegResult, Contract!GetResult, Contract!Results,
       Contract!NotFound, Contract!Panicked, Contract!RegisterErrors

\* RegisterE's verdict is one of its errors.
LEMMA CheckFacts ==
    ASSUME NEW n, NEW b
    PROVE  RegisterCheck(n, b) \in Contract!RegisterErrors \ {"panicked"}
BY DEF RegisterCheck, Contract!RegisterErrors

\* A trimmed name that is not empty is a key.
LEMMA TrimIsKey ==
    ASSUME NEW n \in Names, TrimSpace(n) # <<>>
    PROVE  TrimSpace(n) \in Keys
BY DEF Keys

-----------------------------------------------------------------------------
(* The invariant holds initially and is kept by every step.                *)

LEMMA InitIInv == Init => IInv
<1> SUFFICES ASSUME Init PROVE IInv
    OBVIOUS
<1>1. Contract!RegResult("ok") \in Contract!Results
    BY ResultFacts DEF Contract!RegisterErrors
<1>2. Contract!RegResult("ok") # Contract!Panicked
    BY DEF Contract!RegResult, Contract!Panicked
<1>3. Contract!RegResult("ok").err # "none"
    BY DEF Contract!RegResult
<1>4. QED
    BY <1>1, <1>2, <1>3, ValueFacts, BudgetRegistryAssumption
    DEF Init, IInv, TypeOK, ClientPCs, InCallChecked, InCallPCs, PendingNotNil,
        StoredNotNil, PanicOnlyCrashed, GetNeverTypedNil

LEMMA IInvStep == IInv /\ [Next]_vars => IInv'
<1> SUFFICES ASSUME IInv, [Next]_vars PROVE IInv'
    OBVIOUS
<1> USE BudgetValuesAssumption, BudgetRegistryAssumption, ValueFacts, ResultFacts
<1> USE DEF IInv, TypeOK, ClientPCs, InCallChecked, InCallPCs, PendingNotNil,
            StoredNotNil, PanicOnlyCrashed, GetNeverTypedNil
<1>1. ASSUME NEW c \in Clients, NEW n \in Names, NEW b \in CallBudgets,
             NEW must \in BOOLEAN, RegisterRejected(c, n, b, must)
      PROVE  IInv'
    <2>1. Contract!RegResult(RegisterCheck(n, b)) # Contract!Panicked
        BY CheckFacts DEF Contract!RegResult, Contract!Panicked
    <2>2. Contract!RegResult(RegisterCheck(n, b)).err # "none"
        BY CheckFacts DEF Contract!RegResult, Contract!RegisterErrors
    <2>3. QED
        BY <1>1, <2>1, <2>2, CheckFacts
        DEF RegisterRejected, Contract!Panicked, Contract!RegResult
<1>2. ASSUME NEW c \in Clients, NEW n \in Names, NEW b \in CallBudgets,
             RegisterCall(c, n, b)
      PROVE  IInv'
    <2>1. TrimSpace(n) \in Keys /\ RegistryKind # "nilptr" /\ ~IsTypedNil(b)
        BY <1>2, TrimIsKey DEF RegisterCall, RegisterCheck
    <2>2. QED
        BY <1>2, <2>1 DEF RegisterCall
<1>3. ASSUME NEW c \in Clients, RegLock(c) PROVE IInv'
    BY <1>3 DEF RegLock
<1>4. ASSUME NEW c \in Clients, RegDrain(c) PROVE IInv'
    BY <1>4 DEF RegDrain
<1>5. ASSUME NEW c \in Clients, RegStore(c) PROVE IInv'
    <2>1. key[c] \in Keys /\ ~IsTypedNil(arg[c])
        BY <1>5 DEF RegStore
    <2>2. /\ Contract!RegResult("ok") \in Contract!Results
          /\ Contract!RegResult("ok") # Contract!Panicked
          /\ Contract!RegResult("ok").err # "none"
        BY DEF Contract!RegisterErrors, Contract!RegResult, Contract!Panicked
    <2>3. QED
        BY <1>5, <2>1, <2>2 DEF RegStore
<1>6. ASSUME NEW c \in Clients, RegUnlock(c) PROVE IInv'
    BY <1>6 DEF RegUnlock, BlockedReaders
<1>7. ASSUME NEW c \in Clients, NEW n \in Names, GetRejected(c, n)
      PROVE  IInv'
    BY <1>7 DEF GetRejected, Contract!NotFound, Contract!GetResult,
                Contract!Panicked, Contract!RegResult
<1>8. ASSUME NEW c \in Clients, NEW n \in Names, GetCall(c, n)
      PROVE  IInv'
    <2>1. TrimSpace(n) \in Keys /\ RegistryKind # "nilptr"
        BY <1>8, TrimIsKey DEF GetCall, GetEarlyMiss
    <2>2. QED
        BY <1>8, <2>1 DEF GetCall
<1>9. ASSUME NEW c \in Clients, GetRLock(c) PROVE IInv'
    BY <1>9 DEF GetRLock
<1>10. ASSUME NEW c \in Clients, GetRead(c) PROVE IInv'
    <2> DEFINE k == key[c]
    <2>1. k \in Keys /\ ~IsTypedNil(m[k])
        BY <1>10 DEF GetRead
    <2>2. Lookup(k) \in Contract!Results
        <3>1. CASE m[k] = Absent
            BY <3>1 DEF Lookup
        <3>2. CASE m[k] # Absent
            <4>1. m[k] \in Budgets
                BY <2>1, <3>2
            <4>2. QED
                BY <3>2, <4>1 DEF Lookup, IsNonNilInterface
        <3>3. QED
            BY <3>1, <3>2
    <2>3. Lookup(k) # Contract!Panicked
        <3>1. Lookup(k).err = "none"
            BY DEF Lookup, Contract!NotFound, Contract!GetResult
        <3>2. Contract!Panicked.err = "panicked"
            BY DEF Contract!Panicked, Contract!RegResult
        <3>3. QED
            BY <3>1, <3>2
    <2>4. Lookup(k).err = "none" /\ Lookup(k).ok =>
            /\ Lookup(k).budget.kind # "none"
            /\ Lookup(k).budget.kind \in NillableKinds => ~Lookup(k).budget.isNil
        BY <2>1, SameValues
        DEF Lookup, Contract!NotFound, Contract!GetResult, IsNonNilInterface,
            IsTypedNil, NoBudget
    <2>5. QED
        BY <1>10, <2>2, <2>3, <2>4 DEF GetRead
<1>11. ASSUME NEW c \in Clients, GetRUnlock(c) PROVE IInv'
    BY <1>11 DEF GetRUnlock
<1>12. CASE UNCHANGED vars
    BY <1>12 DEF vars
<1>13. QED
    BY <1>1, <1>2, <1>3, <1>4, <1>5, <1>6, <1>7, <1>8, <1>9, <1>10, <1>11,
       <1>12 DEF Next, Call, Step

-----------------------------------------------------------------------------
(* The registry refines its contract.                                      *)

\* Each key of the map is the trim of a name some caller passes.
LEMMA KeyHasName ==
    ASSUME NEW k \in Keys
    PROVE  \E n \in Names : TrimSpace(n) = k /\ TrimSpace(n) # <<>>
BY DEF Keys

\* RegisterE's checks are the contract's verdict.
LEMMA SameVerdict ==
    ASSUME NEW n, NEW b
    PROVE  Contract!RegisterVerdict(n, b) = RegisterCheck(n, b)
BY SameNames DEF Contract!RegisterVerdict, RegisterCheck

LEMMA InitRefines == Init => Contract!ContractInit
BY SameNames DEF Init, Contract!ContractInit

\* A step of the registry is a step of the atomic map, or leaves the map
\* and the results alone.
LEMMA StepRefines ==
    IInv /\ [Next]_vars => [Contract!ContractNext]_Contract!contractVars
<1> SUFFICES ASSUME IInv, [Next]_vars
             PROVE  [Contract!ContractNext]_Contract!contractVars
    OBVIOUS
<1> USE BudgetRegistryAssumption, SameNames, SameValues
<1> USE DEF IInv, TypeOK, InCallChecked, InCallPCs, PendingNotNil,
            StoredNotNil, PanicOnlyCrashed, Contract!contractVars
<1>1. ASSUME NEW c \in Clients, NEW n \in Names, NEW b \in CallBudgets,
             NEW must \in BOOLEAN, RegisterRejected(c, n, b, must)
      PROVE  Contract!ContractRegister(c, n, b, must)
    <2>1. ret[c] # Contract!Panicked
        BY <1>1 DEF RegisterRejected
    <2>2. QED
        BY <1>1, <2>1, SameVerdict DEF RegisterRejected, Contract!ContractRegister
<1>2. ASSUME NEW c \in Clients, RegStore(c)
      PROVE  Contract!ContractNext
    <2>1. PICK n \in Names : TrimSpace(n) = key[c] /\ TrimSpace(n) # <<>>
        BY <1>2, KeyHasName DEF RegStore
    <2>2. RegisterCheck(n, arg[c]) = "ok"
        BY <1>2, <2>1 DEF RegStore, RegisterCheck
    <2>3. ret[c] # Contract!Panicked
        BY <1>2 DEF RegStore
    <2>4. Contract!ContractRegister(c, n, arg[c], FALSE)
        BY <1>2, <2>1, <2>2, <2>3, SameVerdict
        DEF RegStore, Contract!ContractRegister
    <2>5. QED
        BY <2>4 DEF Contract!ContractNext
<1>3. ASSUME NEW c \in Clients, NEW n \in Names, GetRejected(c, n)
      PROVE  Contract!ContractGet(c, n)
    BY <1>3 DEF GetRejected, GetEarlyMiss, Contract!ContractGet
<1>4. ASSUME NEW c \in Clients, GetRead(c)
      PROVE  Contract!ContractNext
    <2>1. PICK n \in Names : TrimSpace(n) = key[c] /\ TrimSpace(n) # <<>>
        BY <1>4, KeyHasName DEF GetRead
    <2>2. m[key[c]] # Absent => IsNonNilInterface(m[key[c]])
        BY <1>4 DEF GetRead, IsTypedNil, IsNonNilInterface
    <2>3. ret[c] # Contract!Panicked
        BY <1>4 DEF GetRead
    <2>4. Contract!ContractGet(c, n)
        BY <1>4, <2>1, <2>2, <2>3 DEF GetRead, Lookup, Contract!ContractGet
    <2>5. QED
        BY <2>4 DEF Contract!ContractNext
<1>5. ASSUME NEW c \in Clients,
             \/ \E n \in Names, b \in CallBudgets : RegisterCall(c, n, b)
             \/ \E n \in Names : GetCall(c, n)
             \/ RegLock(c) \/ RegDrain(c) \/ RegUnlock(c)
             \/ GetRLock(c) \/ GetRUnlock(c)
      PROVE  UNCHANGED Contract!contractVars
    BY <1>5 DEF RegisterCall, GetCall, RegLock, RegDrain, RegUnlock, GetRLock,
                GetRUnlock
<1>6. QED
    BY <1>1, <1>2, <1>3, <1>4, <1>5
    DEF Next, Call, Step, vars, Contract!ContractNext

-----------------------------------------------------------------------------
(* Theorems.                                                               *)

LEMMA Invariance == Spec => []IInv
BY InitIInv, IInvStep, PTL DEF Spec

\* For every set of goroutines, names and budgets, every reachable state of
\* concurrent Register/RegisterE/MustRegister/Get calls is well typed; in
\* particular the map is only ever written under trimmed, non-empty keys.
THEOREM TypeCorrect == Spec => []TypeOK
BY Invariance, PTL DEF IInv

\* Get never reports ok for a nil or typed-nil budget, whatever goroutines
\* register concurrently: RegisterE's IsTypedNil guard keeps the map free
\* of them, which Get's own b != nil check could not.
THEOREM NoTypedNilFound == Spec => []GetNeverTypedNil
BY Invariance, PTL DEF IInv

\* The registry with its RWMutex implements the atomic map of its doc
\* comments: each Register takes effect at its store and each Get at its
\* read, with the contract's result.
THEOREM Refinement == Spec => ContractHolds
<1>1. []IInv /\ [][Next]_vars => [][Contract!ContractNext]_Contract!contractVars
    BY StepRefines, PTL
<1>2. QED
    BY <1>1, Invariance, InitRefines, PTL DEF Spec, ContractHolds, Contract!ContractSpec

=============================================================================
