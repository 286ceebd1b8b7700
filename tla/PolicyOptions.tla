---------------------------- MODULE PolicyOptions ----------------------------
(***************************************************************************)
(* policy.NewFromKey (src/policy/options.go): start from                   *)
(* DefaultPolicyFor(key), apply the caller's Option closures in order,     *)
(* then Normalize; if Normalize fails, fall back to the normalized default *)
(* and drop every option.  DefaultPolicyFor and Normalize are in           *)
(* src/unnamed/part_013.                                                   *)
(*                                                                         *)
(* A step applies one option closure to the policy being built; the last   *)
(* step normalizes.  A time.Duration is a signed count of microseconds     *)
(* (every floor, ceiling and default of Normalize is a whole number of     *)
(* them) and the float64 backoff multiplier a signed count of tenths.      *)
(* The circuit policy is left out: DefaultPolicyFor disables it and no     *)
(* option enables it, so Normalize always returns before its circuit part. *)
(* Normalize's Meta.Normalization bookkeeping is left out too.             *)
(***************************************************************************)
EXTENDS Integers

CONSTANTS
    MaxOptions,     \* the most options one call passes
    Counts,         \* arguments of MaxAttempts and HedgeMaxAttempts
    Durations,      \* time.Duration arguments, in microseconds
    Multipliers,    \* BackoffMultiplier arguments, in tenths
    JitterArgs,     \* JitterKind arguments, valid or not
    NameArgs,       \* name and ID arguments
    CostArgs        \* BudgetWithCost costs

ASSUME PolicyOptionsAssumption ==
    /\ MaxOptions \in Nat
    /\ Counts \subseteq Int /\ Durations \subseteq Int
    /\ Multipliers \subseteq Int /\ CostArgs \subseteq Int

\* time.Millisecond and time.Second in microseconds; a multiplier of 1.0.
Ms == 1000
Second == 1000 * Ms
Unit == 10

\* The JitterKind constants; any other string fails Normalize.
JitterKinds == {"none", "full", "equal"}

\* BudgetRef{Name, Cost}.
BudgetRef(name, cost) == [name |-> name, cost |-> cost]

\* The names a policy can hold: an argument, "" or the HTTP classifier.
Names == NameArgs \cup {"", "http"}

\* RetryPolicy and HedgePolicy as records; EffectivePolicy adds the ID.
\* The key is fixed for one call and left out.
Policies ==
    [id : NameArgs \cup {""},
     retry : [maxAttempts : Int, initialBackoff : Int, maxBackoff : Int,
              multiplier : Int, jitter : JitterArgs \cup JitterKinds \cup {""},
              perAttempt : Int, overall : Int, classifier : Names,
              budget : [name : Names, cost : Int]],
     hedge : [enabled : BOOLEAN, maxHedges : Int, delay : Int,
              trigger : Names, budget : [name : Names, cost : Int],
              cancel : BOOLEAN]]

\* DefaultPolicyFor(key): three attempts, 10ms initial backoff doubling up
\* to 250ms, no timeouts, no jitter, budget cost 1, hedging disabled.
DefaultPolicyFor ==
    [id |-> "",
     retry |-> [maxAttempts |-> 3, initialBackoff |-> 10 * Ms,
                maxBackoff |-> 250 * Ms, multiplier |-> 2 * Unit,
                jitter |-> "none", perAttempt |-> 0, overall |-> 0,
                classifier |-> "", budget |-> BudgetRef("", 1)],
     hedge |-> [enabled |-> FALSE, maxHedges |-> 0, delay |-> 0,
                trigger |-> "", budget |-> BudgetRef("", 1), cancel |-> FALSE]]

-----------------------------------------------------------------------------
(* Normalize: each field gets its default when unset, then its floor and   *)
(* ceiling, in the code's order.                                           *)

maxRetryAttempts == 10
maxHedges == 3
minBackoffFloor == 1 * Ms
minHedgeDelayFloor == 10 * Ms
maxBackoffCeiling == 30 * Second
minTimeoutFloor == 1 * Ms
maxBackoffMultiplier == 10 * Unit

Clamp(x, lo, hi) == IF x < lo THEN lo ELSE IF x > hi THEN hi ELSE x

AtLeast(x, lo) == IF x < lo THEN lo ELSE x

AtMost(x, hi) == IF x > hi THEN hi ELSE x

\* "if x == 0 { x = d }" and "if x <= 0 { x = d }".
UnsetZero(x, d) == IF x = 0 THEN d ELSE x

UnsetNonPositive(x, d) == IF x <= 0 THEN d ELSE x

NormMaxAttempts(n) == Clamp(UnsetZero(n, 3), 1, maxRetryAttempts)

NormInitialBackoff(d) == AtLeast(UnsetNonPositive(d, 10 * Ms), minBackoffFloor)

\* The ceiling is applied before the raise to InitialBackoff.
NormMaxBackoff(d, init) ==
    AtLeast(AtMost(UnsetNonPositive(d, 250 * Ms), maxBackoffCeiling), init)

NormMultiplier(x) == Clamp(UnsetZero(x, 2 * Unit), Unit, maxBackoffMultiplier)

\* A negative timeout is none; a positive one is at least 1ms.
NormTimeout(d) ==
    LET t == AtLeast(d, 0)
    IN  IF t > 0 /\ t < minTimeoutFloor THEN minTimeoutFloor ELSE t

NormCost(c) == AtLeast(UnsetZero(c, 1), 1)

\* The hedge limit and delay Normalize gives an enabled hedge policy.
NormHedges(n) == Clamp(UnsetZero(n, 2), 1, maxHedges)

NormDelay(d) == AtLeast(UnsetNonPositive(d, 200 * Ms), minHedgeDelayFloor)

\* Normalize fails only on an unknown jitter kind; "" becomes "none".
NormalizeFails(p) == p.retry.jitter \notin JitterKinds \cup {""}

NormJitter(j) == IF j = "" THEN "none" ELSE j

\* The retry fields and both budget costs.
NormalizeRetry(r) ==
    LET init == NormInitialBackoff(r.initialBackoff)
    IN  [maxAttempts    |-> NormMaxAttempts(r.maxAttempts),
         initialBackoff |-> init,
         maxBackoff     |-> NormMaxBackoff(r.maxBackoff, init),
         multiplier     |-> NormMultiplier(r.multiplier),
         jitter         |-> NormJitter(r.jitter),
         perAttempt     |-> NormTimeout(r.perAttempt),
         overall        |-> NormTimeout(r.overall),
         classifier     |-> r.classifier,
         budget         |-> BudgetRef(r.budget.name, NormCost(r.budget.cost))]

\* The hedge cost always; the limit and delay only for an enabled policy
\* (the early return when Hedge.Enabled is false).
NormalizeHedge(h) ==
    [enabled   |-> h.enabled,
     maxHedges |-> IF h.enabled THEN NormHedges(h.maxHedges) ELSE h.maxHedges,
     delay     |-> IF h.enabled THEN NormDelay(h.delay) ELSE h.delay,
     trigger   |-> h.trigger,
     budget    |-> BudgetRef(h.budget.name, NormCost(h.budget.cost)),
     cancel    |-> h.cancel]

\* The normalized policy, for a policy with NormalizeFails(p) false.
Normalize(p) ==
    [id |-> p.id, retry |-> NormalizeRetry(p.retry), hedge |-> NormalizeHedge(p.hedge)]

-----------------------------------------------------------------------------
(* The Option closures, each as the policy it leaves behind.               *)

SetMaxAttempts(n, p) == [p EXCEPT !.retry.maxAttempts = n]

SetInitialBackoff(d, p) == [p EXCEPT !.retry.initialBackoff = d]

SetMaxBackoff(d, p) == [p EXCEPT !.retry.maxBackoff = d]

SetBackoffMultiplier(x, p) == [p EXCEPT !.retry.multiplier = x]

SetJitter(j, p) == [p EXCEPT !.retry.jitter = j]

SetPerAttemptTimeout(d, p) == [p EXCEPT !.retry.perAttempt = d]

SetOverallTimeout(d, p) == [p EXCEPT !.retry.overall = d]

SetClassifier(name, p) == [p EXCEPT !.retry.classifier = name]

SetBudgetWithCost(name, cost, p) == [p EXCEPT !.retry.budget = BudgetRef(name, cost)]

SetBudget(name, p) == SetBudgetWithCost(name, 1, p)

SetPolicyID(id, p) == [p EXCEPT !.id = id]

\* Backoff assigns the three fields in order.
SetBackoff(init, max, x, p) ==
    SetBackoffMultiplier(x, SetMaxBackoff(max, SetInitialBackoff(init, p)))

\* The single assignments to p.Hedge the hedge options are made of.
AssignHedgeEnabled(p) == [p EXCEPT !.hedge.enabled = TRUE]

AssignMaxHedges(n, p) == [p EXCEPT !.hedge.maxHedges = n]

AssignHedgeDelay(d, p) == [p EXCEPT !.hedge.delay = d]

AssignHedgeTrigger(name, p) == [p EXCEPT !.hedge.trigger = name]

SetHedgeBudget(name, p) == [p EXCEPT !.hedge.budget = BudgetRef(name, 1)]

SetHedgeCancelOnTerminal(b, p) == [p EXCEPT !.hedge.cancel = b]

\* Mutation: EnableHedging that always installs its defaults.
SetEnableHedgingUnconditional(p) ==
    AssignHedgeDelay(200 * Ms, AssignMaxHedges(2, AssignHedgeEnabled(p)))

\* EnableHedging: on, and the defaults only where the field is still zero.
SetEnableHedging(p) ==
    LET on == AssignHedgeEnabled(p)
        hs == IF on.hedge.maxHedges = 0 THEN AssignMaxHedges(2, on) ELSE on
    IN  IF hs.hedge.delay = 0 THEN AssignHedgeDelay(200 * Ms, hs) ELSE hs

SetHedgeMaxAttempts(n, p) == AssignMaxHedges(n, AssignHedgeEnabled(p))

SetHedgeDelay(d, p) == AssignHedgeDelay(d, AssignHedgeEnabled(p))

SetHedgeTrigger(name, p) == AssignHedgeTrigger(name, AssignHedgeEnabled(p))

\* The presets assign the fields they name, in the code's order, and keep
\* the others.
SetExponentialBackoff(init, max, p) ==
    SetJitter("equal", SetBackoffMultiplier(2 * Unit, SetMaxBackoff(max, SetInitialBackoff(init, p))))

SetConstantBackoff(d, p) ==
    SetJitter("none", SetBackoffMultiplier(Unit, SetMaxBackoff(d, SetInitialBackoff(d, p))))

\* The retry fields every preset but ConstantBackoff assigns first.
RetryPreset(n, init, max, j, p) ==
    SetJitter(j, SetBackoffMultiplier(2 * Unit, SetMaxBackoff(max,
        SetInitialBackoff(init, SetMaxAttempts(n, p)))))

SetHTTPDefaults(p) ==
    SetClassifier("http", SetOverallTimeout(30 * Second,
        SetPerAttemptTimeout(10 * Second,
            RetryPreset(3, 100 * Ms, 2 * Second, "full", p))))

SetDatabaseDefaults(p) ==
    SetOverallTimeout(60 * Second,
        SetPerAttemptTimeout(30 * Second,
            RetryPreset(3, 100 * Ms, 5 * Second, "equal", p)))

\* No per-attempt timeout is set: an earlier one is kept.
SetBackgroundJobDefaults(p) ==
    SetOverallTimeout(300 * Second,
        RetryPreset(5, 1 * Second, 30 * Second, "full", p))

SetLowLatencyDefaults(p) ==
    AssignHedgeDelay(100 * Ms, AssignMaxHedges(2, AssignHedgeEnabled(
        SetOverallTimeout(1 * Second, SetPerAttemptTimeout(500 * Ms,
            RetryPreset(2, 10 * Ms, 50 * Ms, "equal", p))))))

-----------------------------------------------------------------------------
(* NewFromKey.                                                              *)

VARIABLES
    p,              \* the policy the options are applied to
    applied,        \* how many options have been applied
    phase,          \* "apply" while options run, "returned" after
    result,         \* what NewFromKey returned
    explicitHedges, \* {} or the last explicit hedge limit: [n, by]
    explicitDelay   \* {} or the last explicit hedge delay

vars == <<p, applied, phase, result, explicitHedges, explicitDelay>>

ghosts == <<explicitHedges, explicitDelay>>

\* p := DefaultPolicyFor(key)
Init ==
    /\ p = DefaultPolicyFor
    /\ applied = 0
    /\ phase = "apply"
    /\ result = DefaultPolicyFor
    /\ explicitHedges = {}
    /\ explicitDelay = {}

\* for _, opt := range opts { opt(&p) }: the next option leaves q.
Apply(q) ==
    /\ phase = "apply"
    /\ applied < MaxOptions
    /\ p' = q
    /\ applied' = applied + 1
    /\ UNCHANGED <<phase, result>>

\* An option that sets no hedge limit or delay.
ApplyPlain(q) == Apply(q) /\ UNCHANGED ghosts

\* The options with arguments, one disjunct per Option constructor.
ApplyOption ==
    \/ \E n \in Counts : ApplyPlain(SetMaxAttempts(n, p))
    \/ \E d \in Durations : ApplyPlain(SetInitialBackoff(d, p))
    \/ \E d \in Durations : ApplyPlain(SetMaxBackoff(d, p))
    \/ \E x \in Multipliers : ApplyPlain(SetBackoffMultiplier(x, p))
    \/ \E i, m \in Durations, x \in Multipliers : ApplyPlain(SetBackoff(i, m, x, p))
    \/ \E j \in JitterArgs : ApplyPlain(SetJitter(j, p))
    \/ \E d \in Durations : ApplyPlain(SetPerAttemptTimeout(d, p))
    \/ \E d \in Durations : ApplyPlain(SetOverallTimeout(d, p))
    \/ \E nm \in NameArgs : ApplyPlain(SetClassifier(nm, p))
    \/ \E nm \in NameArgs : ApplyPlain(SetBudget(nm, p))
    \/ \E nm \in NameArgs, c \in CostArgs : ApplyPlain(SetBudgetWithCost(nm, c, p))
    \/ \E nm \in NameArgs : ApplyPlain(SetPolicyID(nm, p))
    \/ ApplyPlain(SetEnableHedging(p))
    \/ \E n \in Counts :
          /\ Apply(SetHedgeMaxAttempts(n, p))
          /\ explicitHedges' = {[n |-> n, by |-> "HedgeMaxAttempts"]}
          /\ UNCHANGED explicitDelay
    \/ \E d \in Durations :
          /\ Apply(SetHedgeDelay(d, p))
          /\ explicitDelay' = {d}
          /\ UNCHANGED explicitHedges
    \/ \E nm \in NameArgs : ApplyPlain(SetHedgeTrigger(nm, p))
    \/ \E nm \in NameArgs : ApplyPlain(SetHedgeBudget(nm, p))
    \/ \E b \in BOOLEAN : ApplyPlain(SetHedgeCancelOnTerminal(b, p))
    \/ \E i, m \in Durations : ApplyPlain(SetExponentialBackoff(i, m, p))
    \/ \E d \in Durations : ApplyPlain(SetConstantBackoff(d, p))
    \/ ApplyPlain(SetHTTPDefaults(p))
    \/ ApplyPlain(SetDatabaseDefaults(p))
    \/ ApplyPlain(SetBackgroundJobDefaults(p))
    \/ /\ Apply(SetLowLatencyDefaults(p))
       /\ explicitHedges' = {[n |-> 2, by |-> "LowLatencyDefaults"]}
       /\ explicitDelay' = {100 * Ms}

\* Mutation: the options' policy returned without normalizing it.
ReturnUnnormalized ==
    /\ phase = "apply"
    /\ phase' = "returned"
    /\ IF NormalizeFails(p)
       THEN p' = DefaultPolicyFor /\ result' = Normalize(DefaultPolicyFor)
       ELSE p' = p /\ result' = p
    /\ UNCHANGED <<applied, explicitHedges, explicitDelay>>

\* normalized, err := p.Normalize(); on error p = DefaultPolicyFor(key) and
\* its normalization is returned instead.
Return ==
    /\ phase = "apply"
    /\ phase' = "returned"
    /\ IF NormalizeFails(p)
       THEN p' = DefaultPolicyFor /\ result' = Normalize(DefaultPolicyFor)
       ELSE p' = p /\ result' = Normalize(p)
    /\ UNCHANGED <<applied, explicitHedges, explicitDelay>>

\* NewFromKey has returned.
Returned == phase = "returned" /\ UNCHANGED vars

Next == ApplyOption \/ Return \/ Returned

Spec == Init /\ [][Next]_vars

-----------------------------------------------------------------------------
(* Properties.                                                              *)

\* The guardrails Normalize enforces.  The backoff ceiling gives way to
\* InitialBackoff, which has no ceiling of its own.
WithinGuardrails(q) ==
    /\ q.retry.maxAttempts \in 1..maxRetryAttempts
    /\ q.retry.initialBackoff >= minBackoffFloor
    /\ q.retry.maxBackoff >= q.retry.initialBackoff
    /\ q.retry.maxBackoff <= maxBackoffCeiling
       \/ q.retry.maxBackoff = q.retry.initialBackoff
    /\ q.retry.multiplier \in Unit..maxBackoffMultiplier
    /\ q.retry.jitter \in JitterKinds
    /\ \A t \in {q.retry.perAttempt, q.retry.overall} : t = 0 \/ t >= minTimeoutFloor
    /\ q.retry.budget.cost >= 1 /\ q.hedge.budget.cost >= 1
    /\ q.hedge.enabled =>
          q.hedge.maxHedges \in 1..maxHedges /\ q.hedge.delay >= minHedgeDelayFloor

\* Whatever options a caller passes, in whatever order, NewFromKey returns
\* a policy inside Normalize's guardrails that the executor's own
\* Normalize leaves unchanged, as spec section 4.2 requires of double
\* normalization: the fallback path included.
ResultNormalized ==
    phase = "returned" => WithinGuardrails(result) /\ Normalize(result) = result

\* Spec section 3: MaxBackoff is at most 30s, whatever the options.
BackoffCeiling ==
    phase = "returned" => result.retry.maxBackoff <= maxBackoffCeiling

\* EnableHedging fills in a hedge limit and delay only where none was set,
\* so an explicit HedgeMaxAttempts, HedgeDelay or LowLatencyDefaults
\* decides them whether it comes before or after EnableHedging: the result
\* holds the normalization of the last explicit value.
ExplicitHedgeKept ==
    phase = "returned" /\ result.hedge.enabled =>
        /\ \A e \in explicitHedges : result.hedge.maxHedges = NormHedges(e.n)
        /\ \A d \in explicitDelay : result.hedge.delay = NormDelay(d)

\* HedgeMaxAttempts(n)'s doc comment: it "sets the maximum parallel attempts
\* per retry group".  doRetryGroup runs the primary and up to MaxHedges
\* hedges at once.
HedgeMaxAttemptsBoundsParallel ==
    phase = "returned" /\ result.hedge.enabled =>
        \A e \in explicitHedges :
            e.by = "HedgeMaxAttempts" /\ e.n >= 1 => 1 + result.hedge.maxHedges <= e.n

=============================================================================
