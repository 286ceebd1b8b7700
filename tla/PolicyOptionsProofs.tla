------------------------- MODULE PolicyOptionsProofs -------------------------
(***************************************************************************)
(* Proofs about NewFromKey for every option list up to MaxOptions and      *)
(* every argument set: the policy it returns is inside the guardrails and  *)
(* a fixed point of Normalize, and an explicit hedge limit or delay        *)
(* survives EnableHedging in either order.                                 *)
(***************************************************************************)
EXTENDS PolicyOptions, TLAPS

\* The policy under construction is a well-formed EffectivePolicy.
TypeOK ==
    /\ p \in Policies
    /\ applied \in Nat
    /\ phase \in {"apply", "returned"}
    /\ explicitHedges \subseteq [n : Int, by : {"HedgeMaxAttempts", "LowLatencyDefaults"}]
    /\ explicitDelay \subseteq Int

\* Once NewFromKey has returned, its result is the normalization of a
\* policy Normalize accepts: the options' own, or DefaultPolicyFor.
ReturnedNormalized ==
    phase = "returned" => ~NormalizeFails(p) /\ result = Normalize(p)

\* While options run, the last explicit hedge limit and delay decide what
\* Normalize will make of the policy's fields: EnableHedging's defaults
\* 2 and 200 normalize as the zero they replace.
HedgeTracked ==
    phase = "apply" =>
        /\ \A e \in explicitHedges : NormHedges(p.hedge.maxHedges) = NormHedges(e.n)
        /\ \A d \in explicitDelay : NormDelay(p.hedge.delay) = NormDelay(d)

-----------------------------------------------------------------------------
(* Normalize.                                                              *)

\* Normalize's numeric steps, one per field: where each lands, and that a
\* second pass leaves its result alone.
LEMMA NormFields ==
    ASSUME NEW x \in Int
    PROVE  /\ NormMaxAttempts(x) \in 1..maxRetryAttempts
           /\ NormMaxAttempts(NormMaxAttempts(x)) = NormMaxAttempts(x)
           /\ NormInitialBackoff(x) \in Int
           /\ NormInitialBackoff(x) >= minBackoffFloor
           /\ NormInitialBackoff(NormInitialBackoff(x)) = NormInitialBackoff(x)
           /\ NormMultiplier(x) \in Unit..maxBackoffMultiplier
           /\ NormMultiplier(NormMultiplier(x)) = NormMultiplier(x)
           /\ NormTimeout(x) \in Int
           /\ NormTimeout(x) = 0 \/ NormTimeout(x) >= minTimeoutFloor
           /\ NormTimeout(NormTimeout(x)) = NormTimeout(x)
           /\ NormCost(x) \in Int /\ NormCost(x) >= 1
           /\ NormCost(NormCost(x)) = NormCost(x)
           /\ NormHedges(x) \in 1..maxHedges
           /\ NormHedges(NormHedges(x)) = NormHedges(x)
           /\ NormDelay(x) \in Int /\ NormDelay(x) >= minHedgeDelayFloor
           /\ NormDelay(NormDelay(x)) = NormDelay(x)
BY DEF NormMaxAttempts, NormInitialBackoff, NormMultiplier, NormTimeout,
       NormCost, NormHedges, NormDelay, Clamp, AtLeast, UnsetZero,
       UnsetNonPositive, maxRetryAttempts, minBackoffFloor, Unit,
       maxBackoffMultiplier, minTimeoutFloor, maxHedges, minHedgeDelayFloor, Ms

\* MaxBackoff lands at or above InitialBackoff, and at or below the 30s
\* ceiling unless InitialBackoff itself is above it; a second pass with the
\* same InitialBackoff leaves it alone.
LEMMA NormBackoffCeiling ==
    ASSUME NEW m \in Int, NEW i \in Int, i >= minBackoffFloor
    PROVE  /\ NormMaxBackoff(m, i) \in Int
           /\ NormMaxBackoff(m, i) >= i
           /\ NormMaxBackoff(m, i) <= maxBackoffCeiling \/ NormMaxBackoff(m, i) = i
           /\ NormMaxBackoff(NormMaxBackoff(m, i), i) = NormMaxBackoff(m, i)
BY DEF NormMaxBackoff, AtLeast, AtMost, UnsetNonPositive, maxBackoffCeiling,
       minBackoffFloor, Ms, Second

\* Normalize accepts DefaultPolicyFor: the fallback cannot fail again.
LEMMA DefaultAccepted ==
    DefaultPolicyFor \in Policies /\ ~NormalizeFails(DefaultPolicyFor)
<1>1. {10 * Ms, 250 * Ms, 2 * Unit} \subseteq Int
    BY DEF Ms, Unit
<1>2. DefaultPolicyFor.retry \in [maxAttempts : Int, initialBackoff : Int, maxBackoff : Int,
              multiplier : Int, jitter : JitterArgs \cup JitterKinds \cup {""},
              perAttempt : Int, overall : Int, classifier : Names,
              budget : [name : Names, cost : Int]]
    BY <1>1 DEF DefaultPolicyFor, Names, BudgetRef, JitterKinds
<1>3. DefaultPolicyFor.hedge \in [enabled : BOOLEAN, maxHedges : Int, delay : Int,
              trigger : Names, budget : [name : Names, cost : Int],
              cancel : BOOLEAN]
    BY DEF DefaultPolicyFor, Names, BudgetRef
<1>4. DefaultPolicyFor \in Policies
    BY <1>2, <1>3 DEF DefaultPolicyFor, Policies
<1>5. QED
    BY <1>4 DEF DefaultPolicyFor, NormalizeFails, JitterKinds

\* An empty jitter kind becomes "none"; a known kind is kept.
LEMMA JitterDefaulted ==
    ASSUME NEW j \in JitterKinds \cup {""}
    PROVE  /\ NormJitter(j) \in JitterKinds
           /\ j \in JitterKinds => NormJitter(j) = j
BY Zenon DEF JitterKinds, NormJitter

\* NormalizeRetry builds a retry record field by field.
LEMMA NormalizeRetryRecord ==
    ASSUME NEW r
    PROVE  LET n == NormalizeRetry(r)
           IN  n = [maxAttempts |-> n.maxAttempts, initialBackoff |-> n.initialBackoff,
                    maxBackoff |-> n.maxBackoff, multiplier |-> n.multiplier,
                    jitter |-> n.jitter, perAttempt |-> n.perAttempt,
                    overall |-> n.overall, classifier |-> n.classifier,
                    budget |-> BudgetRef(n.budget.name, n.budget.cost)]
BY DEF NormalizeRetry, BudgetRef

\* The retry half of a normalized policy: every field is what Normalize
\* makes of itself.
RetryNormal(r) ==
    /\ r.maxAttempts \in Int /\ NormMaxAttempts(r.maxAttempts) = r.maxAttempts
    /\ r.initialBackoff \in Int /\ r.initialBackoff >= minBackoffFloor
    /\ NormInitialBackoff(r.initialBackoff) = r.initialBackoff
    /\ r.maxBackoff \in Int
    /\ NormMaxBackoff(r.maxBackoff, r.initialBackoff) = r.maxBackoff
    /\ r.multiplier \in Int /\ NormMultiplier(r.multiplier) = r.multiplier
    /\ r.jitter \in JitterKinds
    /\ r.perAttempt \in Int /\ NormTimeout(r.perAttempt) = r.perAttempt
    /\ r.overall \in Int /\ NormTimeout(r.overall) = r.overall
    /\ r.budget.cost \in Int /\ NormCost(r.budget.cost) = r.budget.cost

\* NormalizeRetry leaves a normalized retry half unchanged.
LEMMA NormalizeRetryFixed ==
    ASSUME NEW r, RetryNormal(r),
           r = [maxAttempts |-> r.maxAttempts, initialBackoff |-> r.initialBackoff,
                maxBackoff |-> r.maxBackoff, multiplier |-> r.multiplier,
                jitter |-> r.jitter, perAttempt |-> r.perAttempt,
                overall |-> r.overall, classifier |-> r.classifier,
                budget |-> BudgetRef(r.budget.name, r.budget.cost)]
    PROVE  NormalizeRetry(r) = r
<1>1. NormJitter(r.jitter) = r.jitter
    BY JitterDefaulted DEF RetryNormal
<1>2. QED
    BY <1>1 DEF NormalizeRetry, RetryNormal

\* A retry half that Normalize accepts comes out normalized and inside the
\* guardrails.
LEMMA NormalizeRetryNormal ==
    ASSUME NEW q \in Policies, ~NormalizeFails(q)
    PROVE  LET n == NormalizeRetry(q.retry)
           IN  /\ RetryNormal(n)
               /\ n.maxAttempts \in 1..maxRetryAttempts
               /\ n.maxBackoff <= maxBackoffCeiling \/ n.maxBackoff = n.initialBackoff
               /\ n.multiplier \in Unit..maxBackoffMultiplier
               /\ n.perAttempt = 0 \/ n.perAttempt >= minTimeoutFloor
               /\ n.overall = 0 \/ n.overall >= minTimeoutFloor
               /\ n.budget.cost >= 1
<1>1. /\ q.retry.maxAttempts \in Int
      /\ q.retry.initialBackoff \in Int
      /\ q.retry.maxBackoff \in Int
      /\ q.retry.multiplier \in Int
      /\ q.retry.perAttempt \in Int
      /\ q.retry.overall \in Int
      /\ q.retry.budget.cost \in Int
    BY DEF Policies
<1>2. q.retry.jitter \in JitterKinds \cup {""}
    BY DEF NormalizeFails
<1> DEFINE n == NormalizeRetry(q.retry)
<1>3. /\ n.maxAttempts = NormMaxAttempts(q.retry.maxAttempts)
      /\ n.initialBackoff = NormInitialBackoff(q.retry.initialBackoff)
      /\ n.maxBackoff = NormMaxBackoff(q.retry.maxBackoff, n.initialBackoff)
      /\ n.multiplier = NormMultiplier(q.retry.multiplier)
      /\ n.jitter = NormJitter(q.retry.jitter)
      /\ n.perAttempt = NormTimeout(q.retry.perAttempt)
      /\ n.overall = NormTimeout(q.retry.overall)
      /\ n.budget.cost = NormCost(q.retry.budget.cost)
    BY DEF n, NormalizeRetry, BudgetRef
<1>4. /\ n.initialBackoff \in Int /\ n.initialBackoff >= minBackoffFloor
      /\ NormInitialBackoff(n.initialBackoff) = n.initialBackoff
    BY <1>1, <1>3, NormFields
<1>5. /\ n.maxBackoff \in Int
      /\ NormMaxBackoff(n.maxBackoff, n.initialBackoff) = n.maxBackoff
      /\ n.maxBackoff <= maxBackoffCeiling \/ n.maxBackoff = n.initialBackoff
    BY <1>1, <1>3, <1>4, NormBackoffCeiling
<1>6. n.jitter \in JitterKinds
    BY <1>2, <1>3, JitterDefaulted
<1>7. /\ n.maxAttempts \in Int /\ NormMaxAttempts(n.maxAttempts) = n.maxAttempts
      /\ n.maxAttempts \in 1..maxRetryAttempts
      /\ n.multiplier \in Int /\ NormMultiplier(n.multiplier) = n.multiplier
      /\ n.multiplier \in Unit..maxBackoffMultiplier
      /\ n.perAttempt \in Int /\ NormTimeout(n.perAttempt) = n.perAttempt
      /\ n.perAttempt = 0 \/ n.perAttempt >= minTimeoutFloor
      /\ n.overall \in Int /\ NormTimeout(n.overall) = n.overall
      /\ n.overall = 0 \/ n.overall >= minTimeoutFloor
      /\ n.budget.cost \in Int /\ NormCost(n.budget.cost) = n.budget.cost
      /\ n.budget.cost >= 1
    <2>1. /\ n.maxAttempts \in Int /\ NormMaxAttempts(n.maxAttempts) = n.maxAttempts
          /\ n.maxAttempts \in 1..maxRetryAttempts
        <3>1. /\ NormMaxAttempts(q.retry.maxAttempts) \in 1..maxRetryAttempts
              /\ NormMaxAttempts(NormMaxAttempts(q.retry.maxAttempts))
                   = NormMaxAttempts(q.retry.maxAttempts)
            BY <1>1, NormFields
        <3>2. QED
            BY <1>3, <3>1 DEF maxRetryAttempts
    <2>2. /\ n.multiplier \in Int /\ NormMultiplier(n.multiplier) = n.multiplier
          /\ n.multiplier \in Unit..maxBackoffMultiplier
        <3>1. /\ NormMultiplier(q.retry.multiplier) \in Unit..maxBackoffMultiplier
              /\ NormMultiplier(NormMultiplier(q.retry.multiplier))
                   = NormMultiplier(q.retry.multiplier)
            BY <1>1, NormFields
        <3>2. QED
            BY <1>3, <3>1 DEF Unit, maxBackoffMultiplier
    <2>3. /\ n.perAttempt \in Int /\ NormTimeout(n.perAttempt) = n.perAttempt
          /\ n.perAttempt = 0 \/ n.perAttempt >= minTimeoutFloor
        BY <1>1, <1>3, NormFields
    <2>4. /\ n.overall \in Int /\ NormTimeout(n.overall) = n.overall
          /\ n.overall = 0 \/ n.overall >= minTimeoutFloor
        BY <1>1, <1>3, NormFields
    <2>5. n.budget.cost \in Int /\ NormCost(n.budget.cost) = n.budget.cost /\ n.budget.cost >= 1
        BY <1>1, <1>3, NormFields
    <2>6. QED
        BY <2>1, <2>2, <2>3, <2>4, <2>5
<1>8. QED
    BY <1>4, <1>5, <1>6, <1>7 DEF RetryNormal, n

\* NormalizeHedge builds a hedge record field by field.
LEMMA NormalizeHedgeRecord ==
    ASSUME NEW h
    PROVE  LET n == NormalizeHedge(h)
           IN  n = [enabled |-> n.enabled, maxHedges |-> n.maxHedges,
                    delay |-> n.delay, trigger |-> n.trigger,
                    budget |-> BudgetRef(n.budget.name, n.budget.cost),
                    cancel |-> n.cancel]
BY DEF NormalizeHedge, BudgetRef

\* The hedge half of a normalized policy.
HedgeNormal(h) ==
    /\ h.enabled \in BOOLEAN
    /\ h.budget.cost \in Int /\ NormCost(h.budget.cost) = h.budget.cost
    /\ h.budget.cost >= 1
    /\ h.enabled => /\ h.maxHedges \in 1..maxHedges
                    /\ NormHedges(h.maxHedges) = h.maxHedges
                    /\ h.delay \in Int /\ h.delay >= minHedgeDelayFloor
                    /\ NormDelay(h.delay) = h.delay

\* NormalizeHedge leaves a normalized hedge half unchanged.
LEMMA NormalizeHedgeFixed ==
    ASSUME NEW h, HedgeNormal(h),
           h = [enabled |-> h.enabled, maxHedges |-> h.maxHedges,
                delay |-> h.delay, trigger |-> h.trigger,
                budget |-> BudgetRef(h.budget.name, h.budget.cost),
                cancel |-> h.cancel]
    PROVE  NormalizeHedge(h) = h
BY DEF NormalizeHedge, HedgeNormal

\* Normalize turns every hedge half normalized, enabled or not.
LEMMA NormalizeHedgeNormal ==
    ASSUME NEW q \in Policies
    PROVE  /\ HedgeNormal(NormalizeHedge(q.hedge))
           /\ NormalizeHedge(q.hedge).enabled = q.hedge.enabled
<1>1. /\ q.hedge.enabled \in BOOLEAN
      /\ q.hedge.maxHedges \in Int
      /\ q.hedge.delay \in Int
      /\ q.hedge.budget.cost \in Int
    BY DEF Policies
<1> DEFINE n == NormalizeHedge(q.hedge)
<1>2. /\ n.enabled = q.hedge.enabled
      /\ n.budget.cost = NormCost(q.hedge.budget.cost)
      /\ q.hedge.enabled => /\ n.maxHedges = NormHedges(q.hedge.maxHedges)
                            /\ n.delay = NormDelay(q.hedge.delay)
    BY DEF n, NormalizeHedge, BudgetRef
<1>3. QED
    BY <1>1, <1>2, NormFields DEF HedgeNormal, n

\* What NewFromKey returns is inside the guardrails and a fixed point of
\* Normalize, for every policy Normalize accepts.
LEMMA NormalizeSound ==
    ASSUME NEW q \in Policies, ~NormalizeFails(q)
    PROVE  WithinGuardrails(Normalize(q)) /\ Normalize(Normalize(q)) = Normalize(q)
<1> DEFINE r == NormalizeRetry(q.retry)
           h == NormalizeHedge(q.hedge)
<1>1. /\ RetryNormal(r)
      /\ r.maxAttempts \in 1..maxRetryAttempts
      /\ r.maxBackoff <= maxBackoffCeiling \/ r.maxBackoff = r.initialBackoff
      /\ r.multiplier \in Unit..maxBackoffMultiplier
      /\ r.perAttempt = 0 \/ r.perAttempt >= minTimeoutFloor
      /\ r.overall = 0 \/ r.overall >= minTimeoutFloor
      /\ r.budget.cost >= 1
    BY NormalizeRetryNormal DEF r
<1>2. HedgeNormal(h)
    BY NormalizeHedgeNormal DEF h
<1>3. r.maxBackoff >= r.initialBackoff
    BY <1>1, NormBackoffCeiling DEF RetryNormal
<1>4. NormalizeRetry(r) = r /\ NormalizeHedge(h) = h
    BY <1>1, <1>2, NormalizeRetryFixed, NormalizeRetryRecord, NormalizeHedgeFixed,
       NormalizeHedgeRecord DEF r, h
<1>5. Normalize(q) = [id |-> q.id, retry |-> r, hedge |-> h]
    BY DEF Normalize, r, h
<1>6. WithinGuardrails(Normalize(q))
    BY <1>1, <1>2, <1>3, <1>5 DEF WithinGuardrails, RetryNormal, HedgeNormal
<1>7. Normalize(Normalize(q)) = Normalize(q)
    BY <1>4, <1>5 DEF Normalize
<1>8. QED
    BY <1>6, <1>7


-----------------------------------------------------------------------------
(* The option closures: each assignment keeps the policy well formed, and  *)
(* only the hedge assignments touch the hedge limit or delay.              *)

JitterValues == JitterArgs \cup JitterKinds \cup {""}

\* q2 has q's hedge limit and delay.
SameHedgeLimits(q2, q) ==
    q2.hedge.maxHedges = q.hedge.maxHedges /\ q2.hedge.delay = q.hedge.delay

LEMMA AssignMaxAttempts ==
    ASSUME NEW q \in Policies, NEW n \in Int
    PROVE  SetMaxAttempts(n, q) \in Policies /\ SameHedgeLimits(SetMaxAttempts(n, q), q)
BY Zenon DEF SetMaxAttempts, Policies, SameHedgeLimits

LEMMA AssignInitialBackoff ==
    ASSUME NEW q \in Policies, NEW d \in Int
    PROVE  SetInitialBackoff(d, q) \in Policies /\ SameHedgeLimits(SetInitialBackoff(d, q), q)
BY Zenon DEF SetInitialBackoff, Policies, SameHedgeLimits

LEMMA AssignMaxBackoff ==
    ASSUME NEW q \in Policies, NEW d \in Int
    PROVE  SetMaxBackoff(d, q) \in Policies /\ SameHedgeLimits(SetMaxBackoff(d, q), q)
BY Zenon DEF SetMaxBackoff, Policies, SameHedgeLimits

LEMMA AssignMultiplier ==
    ASSUME NEW q \in Policies, NEW x \in Int
    PROVE  SetBackoffMultiplier(x, q) \in Policies
           /\ SameHedgeLimits(SetBackoffMultiplier(x, q), q)
BY Zenon DEF SetBackoffMultiplier, Policies, SameHedgeLimits

LEMMA AssignJitter ==
    ASSUME NEW q \in Policies, NEW j \in JitterValues
    PROVE  SetJitter(j, q) \in Policies /\ SameHedgeLimits(SetJitter(j, q), q)
BY Zenon DEF SetJitter, Policies, SameHedgeLimits, JitterValues

LEMMA AssignPerAttempt ==
    ASSUME NEW q \in Policies, NEW d \in Int
    PROVE  SetPerAttemptTimeout(d, q) \in Policies
           /\ SameHedgeLimits(SetPerAttemptTimeout(d, q), q)
BY Zenon DEF SetPerAttemptTimeout, Policies, SameHedgeLimits

LEMMA AssignOverall ==
    ASSUME NEW q \in Policies, NEW d \in Int
    PROVE  SetOverallTimeout(d, q) \in Policies /\ SameHedgeLimits(SetOverallTimeout(d, q), q)
BY Zenon DEF SetOverallTimeout, Policies, SameHedgeLimits

LEMMA AssignClassifier ==
    ASSUME NEW q \in Policies, NEW nm \in Names
    PROVE  SetClassifier(nm, q) \in Policies /\ SameHedgeLimits(SetClassifier(nm, q), q)
BY Zenon DEF SetClassifier, Policies, SameHedgeLimits

LEMMA AssignBudget ==
    ASSUME NEW q \in Policies, NEW nm \in Names, NEW c \in Int
    PROVE  SetBudgetWithCost(nm, c, q) \in Policies
           /\ SameHedgeLimits(SetBudgetWithCost(nm, c, q), q)
BY Zenon DEF SetBudgetWithCost, BudgetRef, Policies, SameHedgeLimits

LEMMA AssignPolicyID ==
    ASSUME NEW q \in Policies, NEW nm \in NameArgs \cup {""}
    PROVE  SetPolicyID(nm, q) \in Policies /\ SameHedgeLimits(SetPolicyID(nm, q), q)
BY Zenon DEF SetPolicyID, Policies, SameHedgeLimits

LEMMA AssignEnabled ==
    ASSUME NEW q \in Policies
    PROVE  /\ AssignHedgeEnabled(q) \in Policies
           /\ SameHedgeLimits(AssignHedgeEnabled(q), q)
BY Zenon DEF AssignHedgeEnabled, Policies, SameHedgeLimits

LEMMA AssignHedgeLimit ==
    ASSUME NEW q \in Policies, NEW n \in Int
    PROVE  /\ AssignMaxHedges(n, q) \in Policies
           /\ AssignMaxHedges(n, q).hedge.maxHedges = n
           /\ AssignMaxHedges(n, q).hedge.delay = q.hedge.delay
BY Zenon DEF AssignMaxHedges, Policies

LEMMA AssignDelay ==
    ASSUME NEW q \in Policies, NEW d \in Int
    PROVE  /\ AssignHedgeDelay(d, q) \in Policies
           /\ AssignHedgeDelay(d, q).hedge.delay = d
           /\ AssignHedgeDelay(d, q).hedge.maxHedges = q.hedge.maxHedges
BY Zenon DEF AssignHedgeDelay, Policies

LEMMA AssignTrigger ==
    ASSUME NEW q \in Policies, NEW nm \in Names
    PROVE  AssignHedgeTrigger(nm, q) \in Policies
           /\ SameHedgeLimits(AssignHedgeTrigger(nm, q), q)
BY Zenon DEF AssignHedgeTrigger, Policies, SameHedgeLimits

LEMMA AssignHedgeBudget ==
    ASSUME NEW q \in Policies, NEW nm \in Names
    PROVE  SetHedgeBudget(nm, q) \in Policies /\ SameHedgeLimits(SetHedgeBudget(nm, q), q)
<1>1. 1 \in Int
    OBVIOUS
<1>2. QED
    BY <1>1, Zenon DEF SetHedgeBudget, BudgetRef, Policies, SameHedgeLimits

LEMMA AssignCancel ==
    ASSUME NEW q \in Policies, NEW b \in BOOLEAN
    PROVE  SetHedgeCancelOnTerminal(b, q) \in Policies
           /\ SameHedgeLimits(SetHedgeCancelOnTerminal(b, q), q)
BY Zenon DEF SetHedgeCancelOnTerminal, Policies, SameHedgeLimits

\* The literals the presets assign are values of their fields.
LEMMA PresetLiterals ==
    /\ {"none", "full", "equal"} \subseteq JitterValues
    /\ "http" \in Names
BY Zenon DEF JitterValues, JitterKinds, Names

\* Keeping the hedge limit and delay composes along a chain of assignments.
LEMMA SameHedgeLimitsTrans ==
    ASSUME NEW a, NEW b, NEW c, SameHedgeLimits(a, b), SameHedgeLimits(b, c)
    PROVE  SameHedgeLimits(a, c)
BY DEF SameHedgeLimits

\* Backoff assigns retry fields only.
LEMMA BackoffOption ==
    ASSUME NEW q \in Policies, NEW i \in Int, NEW m \in Int, NEW x \in Int
    PROVE  SetBackoff(i, m, x, q) \in Policies /\ SameHedgeLimits(SetBackoff(i, m, x, q), q)
<1>1. SetInitialBackoff(i, q) \in Policies /\ SameHedgeLimits(SetInitialBackoff(i, q), q)
    BY AssignInitialBackoff
<1>2. SetMaxBackoff(m, SetInitialBackoff(i, q)) \in Policies
      /\ SameHedgeLimits(SetMaxBackoff(m, SetInitialBackoff(i, q)), q)
    BY <1>1, AssignMaxBackoff, SameHedgeLimitsTrans
<1>3. QED
    BY <1>2, AssignMultiplier, SameHedgeLimitsTrans DEF SetBackoff

\* Backoff followed by a jitter kind, the shape of every backoff preset.
LEMMA JitteredBackoff ==
    ASSUME NEW q \in Policies, NEW i \in Int, NEW m \in Int, NEW x \in Int,
           NEW j \in JitterValues
    PROVE  /\ SetJitter(j, SetBackoff(i, m, x, q)) \in Policies
           /\ SameHedgeLimits(SetJitter(j, SetBackoff(i, m, x, q)), q)
BY BackoffOption, AssignJitter, SameHedgeLimitsTrans

\* ExponentialBackoff and ConstantBackoff assign retry fields only.
LEMMA BackoffPresets ==
    ASSUME NEW q \in Policies
    PROVE  /\ \A i, m \in Int :
                 /\ SetExponentialBackoff(i, m, q) \in Policies
                 /\ SameHedgeLimits(SetExponentialBackoff(i, m, q), q)
           /\ \A d \in Int :
                 SetConstantBackoff(d, q) \in Policies /\ SameHedgeLimits(SetConstantBackoff(d, q), q)
<1>1. ASSUME NEW i \in Int, NEW m \in Int
      PROVE  SetExponentialBackoff(i, m, q) = SetJitter("equal", SetBackoff(i, m, 2 * Unit, q))
    BY DEF SetExponentialBackoff, SetBackoff
<1>2. ASSUME NEW d \in Int
      PROVE  SetConstantBackoff(d, q) = SetJitter("none", SetBackoff(d, d, Unit, q))
    BY DEF SetConstantBackoff, SetBackoff
<1>3. Unit \in Int /\ 2 * Unit \in Int
    BY DEF Unit
<1>5. "equal" \in JitterValues /\ "none" \in JitterValues
    BY PresetLiterals
<1>4. QED
    BY <1>1, <1>2, <1>3, <1>5, JitteredBackoff

\* The retry fields the other presets assign first.
LEMMA RetryPresetOption ==
    ASSUME NEW q \in Policies, NEW n \in Int, NEW i \in Int, NEW m \in Int,
           NEW j \in JitterValues
    PROVE  RetryPreset(n, i, m, j, q) \in Policies
           /\ SameHedgeLimits(RetryPreset(n, i, m, j, q), q)
<1>1. SetMaxAttempts(n, q) \in Policies /\ SameHedgeLimits(SetMaxAttempts(n, q), q)
    BY AssignMaxAttempts
<1>2. RetryPreset(n, i, m, j, q) = SetJitter(j, SetBackoff(i, m, 2 * Unit, SetMaxAttempts(n, q)))
    BY DEF RetryPreset, SetBackoff
<1>3. 2 * Unit \in Int
    BY DEF Unit
<1>4. QED
    BY <1>1, <1>2, <1>3, JitteredBackoff, SameHedgeLimitsTrans

\* The HTTP, database and background-job presets assign retry fields only.
LEMMA RetryPresets ==
    ASSUME NEW q \in Policies
    PROVE  /\ SetHTTPDefaults(q) \in Policies
           /\ SameHedgeLimits(SetHTTPDefaults(q), q)
           /\ SetDatabaseDefaults(q) \in Policies
           /\ SameHedgeLimits(SetDatabaseDefaults(q), q)
           /\ SetBackgroundJobDefaults(q) \in Policies
           /\ SameHedgeLimits(SetBackgroundJobDefaults(q), q)
<1>1. /\ {100 * Ms, 1 * Second, 2 * Second, 5 * Second, 10 * Second} \subseteq Int
      /\ {30 * Second, 60 * Second, 300 * Second} \subseteq Int
    BY DEF Ms, Second
<1>2. "full" \in JitterValues /\ "equal" \in JitterValues /\ "http" \in Names
    BY PresetLiterals
<1> DEFINE http == RetryPreset(3, 100 * Ms, 2 * Second, "full", q)
           db == RetryPreset(3, 100 * Ms, 5 * Second, "equal", q)
           bg == RetryPreset(5, 1 * Second, 30 * Second, "full", q)
<1>3. 3 \in Int /\ 5 \in Int
    OBVIOUS
<1>4. /\ http \in Policies /\ SameHedgeLimits(http, q)
      /\ db \in Policies /\ SameHedgeLimits(db, q)
      /\ bg \in Policies /\ SameHedgeLimits(bg, q)
    <2>1. http \in Policies /\ SameHedgeLimits(http, q)
        BY <1>1, <1>2, <1>3, RetryPresetOption DEF http
    <2>2. db \in Policies /\ SameHedgeLimits(db, q)
        BY <1>1, <1>2, <1>3, RetryPresetOption DEF db
    <2>3. bg \in Policies /\ SameHedgeLimits(bg, q)
        BY <1>1, <1>2, <1>3, RetryPresetOption DEF bg
    <2>4. QED
        BY <2>1, <2>2, <2>3
<1>5. SetHTTPDefaults(q) \in Policies /\ SameHedgeLimits(SetHTTPDefaults(q), q)
    <2> DEFINE t1 == SetPerAttemptTimeout(10 * Second, http)
               t2 == SetOverallTimeout(30 * Second, t1)
    <2>1. t1 \in Policies /\ SameHedgeLimits(t1, q)
        BY <1>1, <1>4, AssignPerAttempt, SameHedgeLimitsTrans DEF t1
    <2>2. t2 \in Policies /\ SameHedgeLimits(t2, q)
        BY <1>1, <2>1, AssignOverall, SameHedgeLimitsTrans DEF t2
    <2>3. QED
        BY <1>2, <2>2, AssignClassifier, SameHedgeLimitsTrans DEF SetHTTPDefaults, http, t1, t2
<1>6. SetDatabaseDefaults(q) \in Policies /\ SameHedgeLimits(SetDatabaseDefaults(q), q)
    <2> DEFINE t1 == SetPerAttemptTimeout(30 * Second, db)
    <2>1. t1 \in Policies /\ SameHedgeLimits(t1, q)
        BY <1>1, <1>4, AssignPerAttempt, SameHedgeLimitsTrans DEF t1
    <2>2. QED
        BY <1>1, <2>1, AssignOverall, SameHedgeLimitsTrans DEF SetDatabaseDefaults, db, t1
<1>7. SetBackgroundJobDefaults(q) \in Policies
      /\ SameHedgeLimits(SetBackgroundJobDefaults(q), q)
    BY <1>1, <1>4, AssignOverall, SameHedgeLimitsTrans DEF SetBackgroundJobDefaults, bg
<1>8. QED
    BY <1>5, <1>6, <1>7

\* The hedge options: what each leaves in the hedge limit and delay.
LEMMA HedgeOptions ==
    ASSUME NEW q \in Policies
    PROVE  /\ \A n \in Int :
                 /\ SetHedgeMaxAttempts(n, q) \in Policies
                 /\ SetHedgeMaxAttempts(n, q).hedge.maxHedges = n
                 /\ SetHedgeMaxAttempts(n, q).hedge.delay = q.hedge.delay
           /\ \A d \in Int :
                 /\ SetHedgeDelay(d, q) \in Policies
                 /\ SetHedgeDelay(d, q).hedge.delay = d
                 /\ SetHedgeDelay(d, q).hedge.maxHedges = q.hedge.maxHedges
           /\ \A nm \in Names :
                 SetHedgeTrigger(nm, q) \in Policies /\ SameHedgeLimits(SetHedgeTrigger(nm, q), q)
BY AssignEnabled, AssignHedgeLimit, AssignDelay, AssignTrigger
DEF SetHedgeMaxAttempts, SetHedgeDelay, SetHedgeTrigger, SameHedgeLimits

\* LowLatencyDefaults ends with a hedge limit of 2 and a delay of 100ms.
LEMMA LowLatencyOption ==
    ASSUME NEW q \in Policies
    PROVE  /\ SetLowLatencyDefaults(q) \in Policies
           /\ SetLowLatencyDefaults(q).hedge.maxHedges = 2
           /\ SetLowLatencyDefaults(q).hedge.delay = 100 * Ms
<1> DEFINE r0 == RetryPreset(2, 10 * Ms, 50 * Ms, "equal", q)
           r1 == SetPerAttemptTimeout(500 * Ms, r0)
           r2 == SetOverallTimeout(1 * Second, r1)
           r3 == AssignHedgeEnabled(r2)
           r4 == AssignMaxHedges(2, r3)
<1>1. {2, 10 * Ms, 50 * Ms, 100 * Ms, 500 * Ms, 1 * Second} \subseteq Int
    BY DEF Ms, Second
<1>2. r0 \in Policies
    BY <1>1, PresetLiterals, RetryPresetOption, Zenon DEF r0
<1>3. r2 \in Policies
    BY <1>1, <1>2, AssignPerAttempt, AssignOverall DEF r1, r2
<1>4. r4 \in Policies /\ r4.hedge.maxHedges = 2
    <2>1. r3 \in Policies
        BY <1>3, AssignEnabled DEF r3
    <2>2. QED
        BY <1>1, <2>1, AssignHedgeLimit DEF r4
<1>5. /\ AssignHedgeDelay(100 * Ms, r4) \in Policies
      /\ AssignHedgeDelay(100 * Ms, r4).hedge.maxHedges = 2
      /\ AssignHedgeDelay(100 * Ms, r4).hedge.delay = 100 * Ms
    <2>1. 100 * Ms \in Int
        BY <1>1
    <2>2. \A x \in Policies :
             /\ AssignHedgeDelay(100 * Ms, x) \in Policies
             /\ AssignHedgeDelay(100 * Ms, x).hedge.delay = 100 * Ms
             /\ AssignHedgeDelay(100 * Ms, x).hedge.maxHedges = x.hedge.maxHedges
        BY <2>1, AssignDelay
    <2>3. QED
        BY <1>4, <2>2
<1>6. SetLowLatencyDefaults(q) = AssignHedgeDelay(100 * Ms, r4)
    BY DEF SetLowLatencyDefaults, r0, r1, r2, r3, r4
<1>7. QED
    BY <1>5, <1>6

\* EnableHedging's defaults 2 and 200ms normalize as the zero they
\* replace, and a limit or delay already set is kept.
LEMMA EnableHedgingOption ==
    ASSUME NEW q \in Policies
    PROVE  /\ SetEnableHedging(q) \in Policies
           /\ NormHedges(SetEnableHedging(q).hedge.maxHedges) = NormHedges(q.hedge.maxHedges)
           /\ NormDelay(SetEnableHedging(q).hedge.delay) = NormDelay(q.hedge.delay)
<1> DEFINE on == AssignHedgeEnabled(q)
           hs == IF on.hedge.maxHedges = 0 THEN AssignMaxHedges(2, on) ELSE on
<1>1. on \in Policies /\ SameHedgeLimits(on, q)
    BY AssignEnabled DEF on
<1>2. /\ hs \in Policies
      /\ NormHedges(hs.hedge.maxHedges) = NormHedges(q.hedge.maxHedges)
      /\ hs.hedge.delay = q.hedge.delay
    <2>1. NormHedges(2) = NormHedges(0)
        BY DEF NormHedges, Clamp, UnsetZero, maxHedges
    <2>2. QED
        BY <1>1, <2>1, AssignHedgeLimit DEF hs, SameHedgeLimits
<1>3. NormDelay(200 * Ms) = NormDelay(0) /\ 200 * Ms \in Int
    BY DEF NormDelay, AtLeast, UnsetNonPositive, minHedgeDelayFloor, Ms
<1>4. CASE hs.hedge.delay = 0
    <2>1. SetEnableHedging(q) = AssignHedgeDelay(200 * Ms, hs)
        BY <1>4 DEF SetEnableHedging, on, hs
    <2>2. \A x \in Policies :
             /\ AssignHedgeDelay(200 * Ms, x) \in Policies
             /\ AssignHedgeDelay(200 * Ms, x).hedge.delay = 200 * Ms
             /\ AssignHedgeDelay(200 * Ms, x).hedge.maxHedges = x.hedge.maxHedges
        BY <1>3, AssignDelay
    <2>3. QED
        BY <1>2, <1>3, <1>4, <2>1, <2>2
<1>5. CASE hs.hedge.delay # 0
    <2>1. SetEnableHedging(q) = hs
        BY <1>5 DEF SetEnableHedging, on, hs
    <2>2. QED
        BY <1>2, <2>1
<1>6. QED
    BY <1>4, <1>5

\* The inductive invariant behind ResultNormalized and ExplicitHedgeKept.
IInv == TypeOK /\ ReturnedNormalized /\ HedgeTracked /\ ExplicitHedgeKept

-----------------------------------------------------------------------------
(* The invariant is inductive.                                             *)

\* q2 leaves Normalize's hedge limit and delay as they were for q.
KeepsHedge(q2, q) ==
    /\ q2 \in Policies
    /\ NormHedges(q2.hedge.maxHedges) = NormHedges(q.hedge.maxHedges)
    /\ NormDelay(q2.hedge.delay) = NormDelay(q.hedge.delay)

LEMMA SameKeeps ==
    ASSUME NEW q2, NEW q, q2 \in Policies, SameHedgeLimits(q2, q)
    PROVE  KeepsHedge(q2, q)
BY DEF KeepsHedge, SameHedgeLimits

\* While options run, nothing has been returned.
LEMMA ApplyKeepsPhase ==
    ASSUME NEW q, Apply(q)
    PROVE  /\ phase' = "apply"
           /\ ~(phase' = "returned")
           /\ ReturnedNormalized'
           /\ ExplicitHedgeKept'
<1>1. phase' = "apply"
    BY DEF Apply
<1>2. ~(phase' = "returned")
    BY <1>1
<1>3. QED
    BY <1>1, <1>2 DEF ReturnedNormalized, ExplicitHedgeKept

\* An option that leaves the normalized hedge limit and delay alone.
LEMMA PlainStep ==
    ASSUME IInv, NEW q, KeepsHedge(q, p), ApplyPlain(q)
    PROVE  IInv'
<1>1. TypeOK'
    BY DEF IInv, TypeOK, KeepsHedge, ApplyPlain, Apply, ghosts
<1>2. HedgeTracked'
    BY DEF IInv, HedgeTracked, KeepsHedge, ApplyPlain, Apply, ghosts
<1>3. QED
    BY <1>1, <1>2, ApplyKeepsPhase DEF IInv, ApplyPlain

\* HedgeMaxAttempts(n) makes n the tracked limit.
LEMMA HedgeStep ==
    ASSUME IInv, NEW n \in Int, NEW q \in Policies,
           q.hedge.maxHedges = n, q.hedge.delay = p.hedge.delay,
           Apply(q), explicitHedges' = {[n |-> n, by |-> "HedgeMaxAttempts"]},
           UNCHANGED explicitDelay
    PROVE  IInv'
<1>1. [n |-> n, by |-> "HedgeMaxAttempts"]
        \in [n : Int, by : {"HedgeMaxAttempts", "LowLatencyDefaults"}]
    BY Zenon
<1>2. TypeOK'
    BY <1>1 DEF IInv, TypeOK, Apply
<1>3. HedgeTracked'
    BY DEF IInv, HedgeTracked, Apply
<1>4. QED
    BY <1>2, <1>3, ApplyKeepsPhase DEF IInv

\* HedgeDelay(d) makes d the tracked delay.
LEMMA DelayStep ==
    ASSUME IInv, NEW d \in Int, NEW q \in Policies,
           q.hedge.delay = d, q.hedge.maxHedges = p.hedge.maxHedges,
           Apply(q), explicitDelay' = {d}, UNCHANGED explicitHedges
    PROVE  IInv'
<1>1. TypeOK'
    BY DEF IInv, TypeOK, Apply
<1>2. HedgeTracked'
    BY DEF IInv, HedgeTracked, Apply
<1>3. QED
    BY <1>1, <1>2, ApplyKeepsPhase DEF IInv

\* LowLatencyDefaults tracks its limit 2 and delay 100ms.
LEMMA LowLatencyStep ==
    ASSUME IInv, NEW q \in Policies, q.hedge.maxHedges = 2, q.hedge.delay = 100 * Ms,
           Apply(q), explicitHedges' = {[n |-> 2, by |-> "LowLatencyDefaults"]},
           explicitDelay' = {100 * Ms}
    PROVE  IInv'
<1>1. [n |-> 2, by |-> "LowLatencyDefaults"]
        \in [n : Int, by : {"HedgeMaxAttempts", "LowLatencyDefaults"}]
    <2>1. 2 \in Int
        OBVIOUS
    <2>2. QED
        BY <2>1, Zenon
<1>2. 100 * Ms \in Int
    BY DEF Ms
<1>3. TypeOK'
    BY <1>1, <1>2 DEF IInv, TypeOK, Apply
<1>4. HedgeTracked'
    BY DEF IInv, HedgeTracked, Apply
<1>5. QED
    BY <1>3, <1>4, ApplyKeepsPhase DEF IInv

\* Every option keeps the invariant.
LEMMA ApplyOptionStep ==
    ASSUME IInv, ApplyOption
    PROVE  IInv'
<1>1. p \in Policies
    BY DEF IInv, TypeOK
<1>2. CASE \E n \in Counts : ApplyPlain(SetMaxAttempts(n, p))
    <2>1. PICK n \in Counts : ApplyPlain(SetMaxAttempts(n, p))
        BY <1>2
    <2>2. n \in Int
        BY <2>1, PolicyOptionsAssumption DEF Names, JitterValues
    <2>3. KeepsHedge(SetMaxAttempts(n, p), p)
        BY <1>1, <2>2, AssignMaxAttempts, SameKeeps
    <2>4. QED
        BY <2>1, <2>3, PlainStep
<1>3. CASE \E d \in Durations : ApplyPlain(SetInitialBackoff(d, p))
    <2>1. PICK d \in Durations : ApplyPlain(SetInitialBackoff(d, p))
        BY <1>3
    <2>2. d \in Int
        BY <2>1, PolicyOptionsAssumption DEF Names, JitterValues
    <2>3. KeepsHedge(SetInitialBackoff(d, p), p)
        BY <1>1, <2>2, AssignInitialBackoff, SameKeeps
    <2>4. QED
        BY <2>1, <2>3, PlainStep
<1>4. CASE \E d \in Durations : ApplyPlain(SetMaxBackoff(d, p))
    <2>1. PICK d \in Durations : ApplyPlain(SetMaxBackoff(d, p))
        BY <1>4
    <2>2. d \in Int
        BY <2>1, PolicyOptionsAssumption DEF Names, JitterValues
    <2>3. KeepsHedge(SetMaxBackoff(d, p), p)
        BY <1>1, <2>2, AssignMaxBackoff, SameKeeps
    <2>4. QED
        BY <2>1, <2>3, PlainStep
<1>5. CASE \E x \in Multipliers : ApplyPlain(SetBackoffMultiplier(x, p))
    <2>1. PICK x \in Multipliers : ApplyPlain(SetBackoffMultiplier(x, p))
        BY <1>5
    <2>2. x \in Int
        BY <2>1, PolicyOptionsAssumption DEF Names, JitterValues
    <2>3. KeepsHedge(SetBackoffMultiplier(x, p), p)
        BY <1>1, <2>2, AssignMultiplier, SameKeeps
    <2>4. QED
        BY <2>1, <2>3, PlainStep
<1>6. CASE \E i, m \in Durations, x \in Multipliers : ApplyPlain(SetBackoff(i, m, x, p))
    <2>1. PICK i, m \in Durations, x \in Multipliers : ApplyPlain(SetBackoff(i, m, x, p))
        BY <1>6
    <2>2. i \in Int /\ m \in Int /\ x \in Int
        BY <2>1, PolicyOptionsAssumption DEF Names, JitterValues
    <2>3. KeepsHedge(SetBackoff(i, m, x, p), p)
        BY <1>1, <2>2, BackoffOption, SameKeeps
    <2>4. QED
        BY <2>1, <2>3, PlainStep
<1>7. CASE \E j \in JitterArgs : ApplyPlain(SetJitter(j, p))
    <2>1. PICK j \in JitterArgs : ApplyPlain(SetJitter(j, p))
        BY <1>7
    <2>2. j \in JitterValues
        BY <2>1, PolicyOptionsAssumption DEF Names, JitterValues
    <2>3. KeepsHedge(SetJitter(j, p), p)
        BY <1>1, <2>2, AssignJitter, SameKeeps
    <2>4. QED
        BY <2>1, <2>3, PlainStep
<1>8. CASE \E d \in Durations : ApplyPlain(SetPerAttemptTimeout(d, p))
    <2>1. PICK d \in Durations : ApplyPlain(SetPerAttemptTimeout(d, p))
        BY <1>8
    <2>2. d \in Int
        BY <2>1, PolicyOptionsAssumption DEF Names, JitterValues
    <2>3. KeepsHedge(SetPerAttemptTimeout(d, p), p)
        BY <1>1, <2>2, AssignPerAttempt, SameKeeps
    <2>4. QED
        BY <2>1, <2>3, PlainStep
<1>9. CASE \E d \in Durations : ApplyPlain(SetOverallTimeout(d, p))
    <2>1. PICK d \in Durations : ApplyPlain(SetOverallTimeout(d, p))
        BY <1>9
    <2>2. d \in Int
        BY <2>1, PolicyOptionsAssumption DEF Names, JitterValues
    <2>3. KeepsHedge(SetOverallTimeout(d, p), p)
        BY <1>1, <2>2, AssignOverall, SameKeeps
    <2>4. QED
        BY <2>1, <2>3, PlainStep
<1>10. CASE \E nm \in NameArgs : ApplyPlain(SetClassifier(nm, p))
    <2>1. PICK nm \in NameArgs : ApplyPlain(SetClassifier(nm, p))
        BY <1>10
    <2>2. nm \in Names
        BY <2>1, PolicyOptionsAssumption DEF Names, JitterValues
    <2>3. KeepsHedge(SetClassifier(nm, p), p)
        BY <1>1, <2>2, AssignClassifier, SameKeeps
    <2>4. QED
        BY <2>1, <2>3, PlainStep
<1>11. CASE \E nm \in NameArgs : ApplyPlain(SetBudget(nm, p))
    <2>1. PICK nm \in NameArgs : ApplyPlain(SetBudget(nm, p))
        BY <1>11
    <2>2. nm \in Names /\ 1 \in Int
        <3>1. nm \in Names
            BY <2>1 DEF Names
        <3>2. QED
            BY <3>1
    <2>3. KeepsHedge(SetBudget(nm, p), p)
        BY <1>1, <2>2, AssignBudget, SameKeeps DEF SetBudget
    <2>4. QED
        BY <2>1, <2>3, PlainStep
<1>12. CASE \E nm \in NameArgs, c \in CostArgs : ApplyPlain(SetBudgetWithCost(nm, c, p))
    <2>1. PICK nm \in NameArgs, c \in CostArgs : ApplyPlain(SetBudgetWithCost(nm, c, p))
        BY <1>12
    <2>2. nm \in Names /\ c \in Int
        BY <2>1, PolicyOptionsAssumption DEF Names, JitterValues
    <2>3. KeepsHedge(SetBudgetWithCost(nm, c, p), p)
        BY <1>1, <2>2, AssignBudget, SameKeeps
    <2>4. QED
        BY <2>1, <2>3, PlainStep
<1>13. CASE \E nm \in NameArgs : ApplyPlain(SetPolicyID(nm, p))
    <2>1. PICK nm \in NameArgs : ApplyPlain(SetPolicyID(nm, p))
        BY <1>13
    <2>2. nm \in NameArgs \cup {""}
        BY <2>1, PolicyOptionsAssumption DEF Names, JitterValues
    <2>3. KeepsHedge(SetPolicyID(nm, p), p)
        BY <1>1, <2>2, AssignPolicyID, SameKeeps
    <2>4. QED
        BY <2>1, <2>3, PlainStep
<1>14. CASE ApplyPlain(SetEnableHedging(p))
    <2>1. KeepsHedge(SetEnableHedging(p), p)
        BY <1>1, EnableHedgingOption DEF KeepsHedge
    <2>2. QED
        BY <1>14, <2>1, PlainStep
<1>15. CASE \E n \in Counts :
            /\ Apply(SetHedgeMaxAttempts(n, p))
            /\ explicitHedges' = {[n |-> n, by |-> "HedgeMaxAttempts"]}
            /\ UNCHANGED explicitDelay
    <2>1. PICK n \in Counts :
            /\ Apply(SetHedgeMaxAttempts(n, p))
            /\ explicitHedges' = {[n |-> n, by |-> "HedgeMaxAttempts"]}
            /\ UNCHANGED explicitDelay
        BY <1>15
    <2>2. n \in Int
        BY PolicyOptionsAssumption
    <2>3. /\ SetHedgeMaxAttempts(n, p) \in Policies
          /\ SetHedgeMaxAttempts(n, p).hedge.maxHedges = n
          /\ SetHedgeMaxAttempts(n, p).hedge.delay = p.hedge.delay
        BY <1>1, <2>2, HedgeOptions
    <2>4. QED
        BY <2>1, <2>2, <2>3, HedgeStep
<1>16. CASE \E d \in Durations :
            /\ Apply(SetHedgeDelay(d, p))
            /\ explicitDelay' = {d}
            /\ UNCHANGED explicitHedges
    <2>1. PICK d \in Durations :
            /\ Apply(SetHedgeDelay(d, p))
            /\ explicitDelay' = {d}
            /\ UNCHANGED explicitHedges
        BY <1>16
    <2>2. d \in Int
        BY PolicyOptionsAssumption
    <2>3. /\ SetHedgeDelay(d, p) \in Policies
          /\ SetHedgeDelay(d, p).hedge.delay = d
          /\ SetHedgeDelay(d, p).hedge.maxHedges = p.hedge.maxHedges
        BY <1>1, <2>2, HedgeOptions
    <2>4. QED
        BY <2>1, <2>2, <2>3, DelayStep
<1>17. CASE \E nm \in NameArgs : ApplyPlain(SetHedgeTrigger(nm, p))
    <2>1. PICK nm \in NameArgs : ApplyPlain(SetHedgeTrigger(nm, p))
        BY <1>17
    <2>2. nm \in Names
        BY <2>1, PolicyOptionsAssumption DEF Names, JitterValues
    <2>3. KeepsHedge(SetHedgeTrigger(nm, p), p)
        BY <1>1, <2>2, HedgeOptions, SameKeeps
    <2>4. QED
        BY <2>1, <2>3, PlainStep
<1>18. CASE \E nm \in NameArgs : ApplyPlain(SetHedgeBudget(nm, p))
    <2>1. PICK nm \in NameArgs : ApplyPlain(SetHedgeBudget(nm, p))
        BY <1>18
    <2>2. nm \in Names
        BY <2>1, PolicyOptionsAssumption DEF Names, JitterValues
    <2>3. KeepsHedge(SetHedgeBudget(nm, p), p)
        BY <1>1, <2>2, AssignHedgeBudget, SameKeeps
    <2>4. QED
        BY <2>1, <2>3, PlainStep
<1>19. CASE \E b \in BOOLEAN : ApplyPlain(SetHedgeCancelOnTerminal(b, p))
    <2>1. PICK b \in BOOLEAN : ApplyPlain(SetHedgeCancelOnTerminal(b, p))
        BY <1>19
    <2>3. KeepsHedge(SetHedgeCancelOnTerminal(b, p), p)
        BY <1>1, AssignCancel, SameKeeps
    <2>4. QED
        BY <2>1, <2>3, PlainStep
<1>20. CASE \E i, m \in Durations : ApplyPlain(SetExponentialBackoff(i, m, p))
    <2>1. PICK i, m \in Durations : ApplyPlain(SetExponentialBackoff(i, m, p))
        BY <1>20
    <2>2. i \in Int /\ m \in Int
        BY <2>1, PolicyOptionsAssumption DEF Names, JitterValues
    <2>3. KeepsHedge(SetExponentialBackoff(i, m, p), p)
        BY <1>1, <2>2, BackoffPresets, SameKeeps
    <2>4. QED
        BY <2>1, <2>3, PlainStep
<1>21. CASE \E d \in Durations : ApplyPlain(SetConstantBackoff(d, p))
    <2>1. PICK d \in Durations : ApplyPlain(SetConstantBackoff(d, p))
        BY <1>21
    <2>2. d \in Int
        BY <2>1, PolicyOptionsAssumption DEF Names, JitterValues
    <2>3. KeepsHedge(SetConstantBackoff(d, p), p)
        BY <1>1, <2>2, BackoffPresets, SameKeeps
    <2>4. QED
        BY <2>1, <2>3, PlainStep
<1>22. CASE ApplyPlain(SetHTTPDefaults(p))
    <2>1. KeepsHedge(SetHTTPDefaults(p), p)
        BY <1>1, RetryPresets, SameKeeps
    <2>2. QED
        BY <1>22, <2>1, PlainStep
<1>23. CASE ApplyPlain(SetDatabaseDefaults(p))
    <2>1. KeepsHedge(SetDatabaseDefaults(p), p)
        BY <1>1, RetryPresets, SameKeeps
    <2>2. QED
        BY <1>23, <2>1, PlainStep
<1>24. CASE ApplyPlain(SetBackgroundJobDefaults(p))
    <2>1. KeepsHedge(SetBackgroundJobDefaults(p), p)
        BY <1>1, RetryPresets, SameKeeps
    <2>2. QED
        BY <1>24, <2>1, PlainStep
<1>25. CASE /\ Apply(SetLowLatencyDefaults(p))
            /\ explicitHedges' = {[n |-> 2, by |-> "LowLatencyDefaults"]}
            /\ explicitDelay' = {100 * Ms}
    <2>1. /\ SetLowLatencyDefaults(p) \in Policies
          /\ SetLowLatencyDefaults(p).hedge.maxHedges = 2
          /\ SetLowLatencyDefaults(p).hedge.delay = 100 * Ms
        BY <1>1, LowLatencyOption
    <2>2. QED
        BY <1>25, <2>1, LowLatencyStep
<1>26. QED
    BY <1>2, <1>3, <1>4, <1>5, <1>6, <1>7, <1>8, <1>9, <1>10, <1>11, <1>12, <1>13, <1>14, <1>15, <1>16, <1>17, <1>18, <1>19, <1>20, <1>21, <1>22, <1>23, <1>24, <1>25 DEF ApplyOption


\* Return hands back Normalize(p), or the normalized default when
\* Normalize fails; the explicit hedge settings survive normalization.
LEMMA ReturnStep ==
    ASSUME IInv, Return
    PROVE  IInv'
<1>1. p \in Policies /\ phase = "apply"
    BY DEF IInv, TypeOK, Return
<1>2. phase' = "returned" /\ ~(phase' = "apply")
    BY DEF Return
<1>3. HedgeTracked'
    BY <1>2 DEF HedgeTracked
<1>4. UNCHANGED <<applied, explicitHedges, explicitDelay>>
    BY DEF Return
<1>5. CASE NormalizeFails(p)
    <2>1. p' = DefaultPolicyFor /\ result' = Normalize(DefaultPolicyFor)
        BY <1>5 DEF Return
    <2>2. TypeOK'
        BY <1>2, <1>4, <2>1, DefaultAccepted DEF IInv, TypeOK
    <2>3. ReturnedNormalized'
        BY <2>1, DefaultAccepted DEF ReturnedNormalized
    <2>4. ~result'.hedge.enabled
        BY <2>1 DEF Normalize, NormalizeHedge, DefaultPolicyFor
    <2>5. ExplicitHedgeKept'
        BY <2>4 DEF ExplicitHedgeKept
    <2>6. QED
        BY <1>3, <2>2, <2>3, <2>5 DEF IInv
<1>6. CASE ~NormalizeFails(p)
    <2>1. p' = p /\ result' = Normalize(p)
        BY <1>6 DEF Return
    <2>2. TypeOK'
        BY <1>2, <1>4, <2>1 DEF IInv, TypeOK
    <2>3. ReturnedNormalized'
        BY <1>6, <2>1 DEF ReturnedNormalized
    <2>4. result'.hedge = NormalizeHedge(p.hedge)
        BY <2>1 DEF Normalize
    <2>5. result'.hedge.enabled =>
            /\ result'.hedge.maxHedges = NormHedges(p.hedge.maxHedges)
            /\ result'.hedge.delay = NormDelay(p.hedge.delay)
        BY <2>4 DEF NormalizeHedge
    <2>6. /\ \A e \in explicitHedges : NormHedges(p.hedge.maxHedges) = NormHedges(e.n)
          /\ \A d \in explicitDelay : NormDelay(p.hedge.delay) = NormDelay(d)
        BY <1>1 DEF IInv, HedgeTracked
    <2>7. ExplicitHedgeKept'
        BY <1>4, <2>5, <2>6 DEF ExplicitHedgeKept
    <2>8. QED
        BY <1>3, <2>2, <2>3, <2>7 DEF IInv
<1>7. QED
    BY <1>5, <1>6

\* The initial state satisfies the invariant: the default policy, no
\* option applied yet, nothing returned.
LEMMA InitIInv ==
    Init => IInv
<1> SUFFICES ASSUME Init PROVE IInv
    OBVIOUS
<1>1. ~(phase = "returned")
    BY DEF Init
<1>2. TypeOK
    BY DefaultAccepted DEF Init, TypeOK
<1>3. QED
    BY <1>1, <1>2 DEF Init, IInv, ReturnedNormalized, HedgeTracked, ExplicitHedgeKept

\* Every step of NewFromKey keeps the invariant.
LEMMA IInvStep ==
    IInv /\ [Next]_vars => IInv'
<1> SUFFICES ASSUME IInv, [Next]_vars PROVE IInv'
    OBVIOUS
<1>1. CASE ApplyOption
    BY <1>1, ApplyOptionStep
<1>2. CASE Return
    BY <1>2, ReturnStep
<1>3. CASE Returned \/ UNCHANGED vars
    BY <1>3 DEF Returned, vars, IInv, TypeOK, ReturnedNormalized, HedgeTracked,
                ExplicitHedgeKept
<1>4. QED
    BY <1>1, <1>2, <1>3 DEF Next

\* The invariant holds in every reachable state.
THEOREM IInvHolds == Spec => []IInv
BY InitIInv, IInvStep, PTL DEF Spec

\* ResultNormalized: whatever options ran, NewFromKey returns a policy
\* inside Normalize's guardrails that Normalize leaves unchanged.
THEOREM ResultNormalizedHolds == Spec => []ResultNormalized
<1>1. IInv => ResultNormalized
    <2> SUFFICES ASSUME IInv, phase = "returned"
                 PROVE  WithinGuardrails(result) /\ Normalize(result) = result
        BY DEF ResultNormalized
    <2>1. p \in Policies /\ ~NormalizeFails(p) /\ result = Normalize(p)
        BY DEF IInv, TypeOK, ReturnedNormalized
    <2>2. QED
        BY <2>1, NormalizeSound
<1>2. QED
    BY <1>1, IInvHolds, PTL

\* ExplicitHedgeKept: a hedge limit or delay set by HedgeMaxAttempts,
\* HedgeDelay or LowLatencyDefaults is what the returned policy carries,
\* as Normalize adjusts it, whatever options ran after it.
THEOREM ExplicitHedgeKeptHolds == Spec => []ExplicitHedgeKept
<1>1. IInv => ExplicitHedgeKept
    BY DEF IInv
<1>2. QED
    BY <1>1, IInvHolds, PTL
=============================================================================
