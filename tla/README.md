# Formal models of recourse

TLA+ models of the retry/hedging engine in this repository (`src/`), checked
with TLC on small instances and, for the central safety facts, proved with
TLAPS for every value of the constants.

## The system

recourse runs a user operation `op` under a policy (retries, hedging,
budgets, timeouts). Its parts, and how they interact:

- **Executor / outer loop** (spec §4.1; in `src/` only the stub
  `src/unnamed/part_020`): resolves the policy, consults the circuit breaker,
  then runs retry groups 0..MaxAttempts-1 with backoff sleeps between them.
- **Retry group coordinator** (`Executor.doRetryGroup`,
  `src/unnamed/part_019`): for one retry index it launches the primary
  attempt goroutine, starts a hedge-spawner goroutine, and collapses the
  results that arrive on a buffered channel into one group outcome. This is
  the concurrent core of the library and the part modelled here.
- **Attempt goroutine** (the closure in `launch`, part_019 lines 71-208):
  asks the budget (`allowAttempt`); when denied it records a denied attempt and
  sends a synthetic Abort. When allowed it defers `Release`, calls `op`,
  classifies, records and sends its result. Its deferred
  `activeAttempts.Add(-1)` runs last.
- **Hedge spawner** (part_019 lines 219-269): resolves the trigger from the
  hedge registry (`src/unnamed/part_014`), falling back to
  `hedge.FixedDelayTrigger` (`src/hedge/fixed_delay.go`). On every tick it
  stops at the hedge limit or asks the trigger and launches the next hedge.
  It exits when `groupCtx` is done.
- **Budgets** (`src/budget/`): `Decision{Allowed, Reason, Release}`, where
  `Release` must run exactly once after an allowed attempt, and
  `budget.Registry`, a name → Budget map behind a `sync.RWMutex` that
  goroutines register into and look up concurrently. It refuses empty names
  and nil or typed-nil budgets (`internal.IsTypedNil`, `src/internal/util.go`).
- **Policy options** (`src/policy/options.go`, with `EffectivePolicy`,
  `DefaultPolicyFor` and `Normalize` in `src/unnamed/part_013`): 24 option
  closures applied in order by `NewFromKey`, then `Normalize`, with a
  fallback to the default policy when normalization fails. They set the fields the coordinator
  reads (`Hedge.Enabled`, `MaxHedges`, `TriggerName`,
  `CancelOnFirstTerminal`).
- **Observer / timeline** (`src/observe/types.go`): `AttemptRecord`s appended
  through `recordAttempt`, plus lifecycle callbacks.
- Circuit breaker, backoff computation and latency tracker: described in
  spec §4.6, §4.8 and §4.9, with no code under `src/`.
- **Reference-doc generator** (`scripts/gen_reference.go`, run by
  `make docs-reference`): parses the packages' Go source and writes
  `docs/reference/reason-codes.md` and `docs/reference/policy-schema.md`.
- Example exporters (part_001-003) and `recourse/doc.go`: I/O and docs.

### Inventory of the coordinator's state and operations

| Code | Model (`RetryGroup.tla`) |
|---|---|
| `pol.Hedge` fields and the trigger that was resolved | `pol` (a record from `Policies`) |
| `maxHedges`, `make(chan, 1+maxHedges)` | `maxHedges`, `ResultsCap` |
| the goroutine of attempt `idx` | `pc[idx]` ∈ idle/gate/op/send/exit/done |
| `decision.Allowed` | `allowed[idx]` |
| the classified `outcome.Kind` | `outcome[idx]` |
| times `Release` ran | `released[idx]` |
| the `results` channel buffer | `results` (a sequence, oldest first) |
| the spawner's `hedgesLaunched` | `hedgesLaunched` |
| the spawner goroutine | `spawner` ∈ init/loop/exited |
| the coordinator and its return value | `coord`, `ret` |
| `groupCtx` done, caller `ctx` done | `groupCanceled`, `ctxCanceled` |
| `recordAttempt` calls | `timeline` |
| `activeAttempts` | `activeAttempts`, derived from `pc` (the goroutines between `launch` and their last defer) |

The actions and the lines they translate are listed under "map" in
`PROJECT.json`. In brief:

- `GateDenied` / `GateAllowed`: the budget check and its two branches.
- `OpReturns`: op, classify and record. The outcome is any of `OpOutcomes`.
- `Send`: `results <- res`. It blocks while the buffer is full.
- `Exit`: the deferred calls. `Release` runs when the attempt was allowed,
  then the active count drops.
- `SpawnerStart`, `TickStop`, `TickSpawn`, `SpawnerDone`: the spawner.
- `Receive`: the `case res := <-results` branch with its three returns.
- `CtxDone`: the `case <-ctx.Done()` branch.
- `CancelCtx`: the caller cancels. `groupCtx` is derived from `ctx`, so it is
  cancelled too.
- `Return`: the coordinator returns. Its deferred `cancelGroup()` cancels
  `groupCtx`.

Abstractions:
- Time is gone. A tick may come at any moment, and whether the fixed delay
  has elapsed at a tick is a free choice. The trigger's `nextCheck` only
  retimes the ticker.
- `op` and the classifier are one nondeterministic choice of outcome kind.
- The budget's answer is a free allow/deny choice.
- The per-attempt timeout context only makes `op` return, which `OpReturns`
  can always do.
- Values, errors, reasons and timestamps are dropped. Records keep hedge
  index, outcome, allowed, and whether they were appended after the
  coordinator returned.

### Hard behaviours and what makes the group correct

- Goroutines interleave arbitrarily: attempts, the spawner, the coordinator
  and the caller.
- The order "send, then decrement `activeAttempts`" makes the coordinator's
  check `active == 0` racy.
- Hedges may be launched after the coordinator returned.
- The channel must never fill, because attempts always send, even after the
  return.
- `Release` must run exactly once on the allowed path.
- No goroutine may outlive the group, and every allowed attempt must
  release its budget, also after the coordinator has returned.

## Modules

Retry group:
- `RetryGroup.tla`: one call of `doRetryGroup`, as described above.
  CONSTANTS: `MaxHedgesLimit`, `Policies`, `OpOutcomes`, `ExternalCancel`.
  It also holds the mutated operators used to test the properties (each is
  marked "Mutation:"). Every module below keeps its mutations the same way.
- `GroupContract.tla`: what one call promises, from the doc comment ("returns
  the result of the winning attempt") and the wait loop's comment ("Success;
  All attempts fail; FailFast triggers"). Its state is the set of attempts
  launched, the set of results they produced, the fail-fast flag, whether
  the caller cancelled, and the one return. `Launch`, `Produce`, `Finish`
  (a produced result that is a success, a terminal failure under
  fail-fast, or any result once every launched attempt has produced one),
  `FinishCanceled` (ctx's Abort after a cancel) and `Cancel`. A denied
  attempt's result is always an Abort. `RetryGroup` maps onto it with
  `launched` = attempts not idle, `produced` = `ResultOf(i)` for the
  attempts past their send (`Sent`), and `ContractHolds == Contract!CSpec`.
- `MC_RetryGroup.tla`: policy sets for TLC. `MCPolicies` covers hedging off,
  one hedge with the fixed-delay trigger, and two hedges with a registered
  trigger, each with CancelOnFirstTerminal on and off. `MCPoliciesLive` is a
  smaller set for the liveness run.
- `RetryGroupProofs.tla`: TLAPS proofs.

Budget registry:
- `BudgetValues.tla`: names as character sequences with `strings.TrimSpace`.
  Budget interface values are records (dynamic kind, nil or not, identity).
  It also holds `IsTypedNil` (`internal/util.go`) and the keys the map can hold.
- `BudgetRegistryContract.tla`: the abstract registry of the doc comments.
  It is an atomic map `entries`. Every call takes effect in one step:
  - `RegisterE` checks nil registry, then empty name, then typed nil;
  - `MustRegister` panics where `RegisterE` would fail;
  - `Get` finds the last registered budget.
- `BudgetRegistry.tla`: `registry.go` as goroutines. Per client:
  - `pc` and the call's trimmed `key` and budget `arg`;
  - `ret`, the last result;
  - the shared map `m`.
  `sync.RWMutex` is two variables:
  - `writer` is the goroutine that owns the writer mutex, waiting in
    `regDrain` for readers to leave or holding the lock in `regStore`;
  - `readers` are the goroutines holding the read lock.
  Its actions are the code's steps in order:
  - `RegisterRejected` and `GetRejected` return early when a check fails
    (and `MustRegister` panics); `RegisterCall` passes the checks outside
    the lock;
  - then `RegLock`, `RegDrain`, `RegStore`, `RegUnlock` (the deferred Unlock
    admits the readers blocked behind the writer);
  - `GetCall`, `GetRLock` (blocks while a writer is announced), `GetRead`,
    `GetRUnlock`.
  A `MustRegister` panic leaves the goroutine in `panicked`, where it stays.
  The module instantiates the contract with `entries <- m, res <- ret`.
- `MC_BudgetRegistry.tla`: two clients. Names are `""`, `" "`,
  `"a"`, `" a"` and `"a "`. Budgets are the nil interface, a typed-nil
  pointer, a pointer budget and a struct budget. The run uses the
  zero-value `&Registry{}`, whose map is created lazily by the first
  Register. The nil-pointer registry is
  covered by the proofs, which hold for every `RegistryKind`.
- `BudgetRegistryProofs.tla`: TLAPS proofs of the registry.

Policy options:
- `PolicyOptions.tla`: all 24 `Option` constructors of `options.go` as
  functions on a policy record. `NewFromKey` is modelled as:
  - `ApplyOption`: apply options in order, at most `MaxOptions`;
  - `Return`: `Normalize`, falling back to `DefaultPolicyFor` when
    `Normalize` fails.
  `EffectivePolicy`, `DefaultPolicyFor` and `Normalize` are translated
  from `src/unnamed/part_013` (lines 68-341). A `time.Duration` is a signed
  number of microseconds, and the `float64` multiplier a signed number of
  tenths: every default, floor and ceiling of `Normalize` is a whole number
  of these units, and the arguments include negative and sub-millisecond
  values. `Normalize` keeps the code's order of steps: for each field, the
  default when unset (`== 0` for counts, multiplier and costs, `<= 0` for
  backoffs and the hedge delay), then the floor and the ceiling. For
  `MaxBackoff` the 30 s ceiling comes first and the raise to
  `InitialBackoff` second; `InitialBackoff` has a floor and no ceiling.
  Timeouts go from negative to 0 and from below 1 ms to 1 ms. An unknown
  jitter kind is the one error. The circuit part (lines 318-338) is left
  out with the circuit policy: `DefaultPolicyFor` disables the circuit and
  no option enables it, so `Normalize` always returns before it. The
  `Meta.Normalization` bookkeeping is left out too.
  The ghost variables `explicitHedges` and `explicitDelay` record explicit
  hedge settings for the properties.
  Each option is written as the chain of single-field assignments its Go
  closure performs, in the same order (`AssignHedgeEnabled`,
  `AssignMaxHedges`, ... for the hedge options, `RetryPreset` for the
  retry fields the presets share). `Normalize` is split into
  `NormalizeRetry` and `NormalizeHedge`, built as records field by field.
  The option and normalization functions are unchanged in meaning; this
  form lets the provers reason one assignment at a time.
- `PolicyOptionsProofs.tla`: TLAPS proofs of the options.
- `MC_PolicyOptions.tla`: counts -1, 0, 1, 3, 11; durations -1 µs, 0,
  0.5 ms, 5 ms and 40 s; multipliers 0, 0.5 and 11; costs -1, 0, 2; a
  valid and an invalid jitter name. Each branch of `Normalize` is taken.

Reference-doc generator:
- `GenReference.tla`: `main`, `generateReasonCodes` and
  `generatePolicySchema` as one action per file read or written. Each action
  has its error exit through `fail`.
  - Its state: the source tree it reads (`tree`, chosen by `Init`), `pc`,
    the package and file indexes of the scan loops, the collected
    `budgetReasons`, `circuitReasons`, `outcome` (a `reasonSet`) and `modes`,
    the two pages and `exitCode`.
  - Go syntax is abstracted to tagged records: string literal, numeric
    literal, `x + y`, reference or call, and composite literal.
  - The collectors are operators over this syntax: `addReasonExpr`,
    `collectReasonAssignments`, `collectReasonConsts`,
    `collectFailureModeStrings`, `collectModeAssignments`,
    `collectTypedConstValues`, `collectConstValues` with its index clamp,
    and the recursive `parseCompositeLit`.
  - `os.WriteFile` may succeed, fail to open the file, or fail after
    truncating it.
  - String values are naturals ordered as Go orders the strings, so
    `sort.Strings` is `SetToSortSeq(_, <)`.
  - The module declares RECURSIVE operators, so it holds no theorems.
- `MC_GenReference.tla`: each of two scanned packages is one of:
  - unreadable;
  - a literal-reason file beside a test file;
  - a subdirectory, a pattern file, another file and a README;
  - a file that does not parse.
  The constant files parse or not. `policy/schema.go` (in this tree, the
  file split out as `src/unnamed/part_013`) has defaults nested
  three levels deep, typed constants out of name order, and an implicitly
  repeated limit.

## Runs

All group runs use `MaxHedgesLimit = 2`, so up to three attempts are
concurrent. That is enough for a hedge to be launched after another has
finished, for two failures to arrive in either order, and for a success to
race a failure. It also allows the channel to fill exactly to its capacity.

| run | cfg | checks | result |
|---|---|---|---|
| group_safety | `MC_RetryGroup.cfg` | TypeOK, NoBlockedSend, ReleaseExactlyOnce, GroupRecordsBounded, ContractHolds (the contract as a PROPERTY) | pass, ~2.8M distinct states |
| group_liveness | `MC_RetryGroup_live.cfg` | ReleaseEventually, NoGoroutineLeak under `FairSpec` | pass, ~640k states |
| coordinator_orphaned | `MC_RetryGroup_CoordinatorNotOrphaned.cfg` | CoordinatorNotOrphaned (caller never cancels) | violated |
| success_wins | `MC_RetryGroup_SuccessWins.cfg` | SuccessWins | violated |
| hedge_denial_neutral | `MC_RetryGroup_HedgeDenialNeutral.cfg` | HedgeDenialNeutral | violated |
| precedence | `MC_RetryGroup_PrecedenceRespected.cfg` | PrecedenceRespected | violated |
| registry | `MC_BudgetRegistry.cfg` | TypeOK, GetNeverTypedNil, ContractHolds (the contract as a PROPERTY) | pass, ~16k states |
| options_normalized | `MC_PolicyOptions.cfg` | ResultNormalized, ExplicitHedgeKept, up to 3 options | pass, ~238k states |
| hedge_max_attempts_doc | `MC_PolicyOptions_HedgeMaxAttempts.cfg` | HedgeMaxAttemptsBoundsParallel | violated |
| backoff_ceiling | `MC_PolicyOptions_BackoffCeiling.cfg` | BackoffCeiling, one option | violated |
| genref | `MC_GenReference.cfg` | ReasonsPageFaithful, ExitStatusHonest, DefaultsComplete | pass, ~7.7k states |
| genref_reasons_complete | `MC_GenReference_ReasonsComplete.cfg` | ReasonsComplete | violated |

The liveness run restricts outcomes to Success/Retryable and drops the
fixed-trigger policies, which only allow a subset of the registered
trigger's behaviours. This keeps it within time. The terminal-failure
branches end the group, as a success does.

`ContractHolds` checks every behaviour of the
coordinator against `GroupContract`. Its mutant (`GroupEndsActiveOne`)
ends the group when one attempt is still counted active. TLC then finds a
failure returned while another launched attempt has not sent.

Registry bounds:
- Two clients already give every interleaving of a writer with a reader and
  of two writers, a reader arriving while a writer drains included.
- The names cover padded names and their trimmed form (the same key), a
  blank name and an empty one.

Options bound: three options are enough to place `EnableHedging` before and
after an explicit hedge setting, and to follow them with a preset that
overrides both.

Generator bounds: two packages with up to two Go files each are needed for
a file-index error to skip files of the second package. A third level of
nesting in the default literal is the first at which a lost prefix changes
a path.

Each property of a passing run has a mutant of the code that TLC catches.
It is listed in `PROJECT.json`, and its operator sits next to the original in
the module.

### What the violations show (findings)

1. **The coordinator can hang (code bug).** An attempt sends its result
   before its deferred `activeAttempts.Add(-1)`. If the coordinator receives
   the last result first, it reads `active = 1` and waits again, and nothing
   will ever send. The call then hangs until the caller's context ends. The
   trace: primary denied → Send → Receive → wait forever.
2. **A late success is lost.** The group returns a failure when `active` reads
   0, but the spawner may still launch a hedge that succeeds.
3. **A denied hedge decides the outcome.** Its synthetic Abort is treated as
   a real result, against spec §4.5.
4. **No precedence.** The coordinator returns the last failure received, not
   the strongest by Success > NonRetryable > Abort > Retryable. In TLC's
   trace (one hedge) the hedge fails NonRetryable and is received first;
   the primary, denied by the budget, then sends its synthetic
   Abort{budget_denied}, which replaces it, and the group returns Abort.
5. **MaxBackoff above the 30 s ceiling.** `Normalize` caps `MaxBackoff` at
   30 s and then raises it to `InitialBackoff`, which has no ceiling, so
   `NewFromKey(key, InitialBackoff(40*time.Second))` returns a 40 s
   `MaxBackoff`. Spec §3 says `MaxBackoff` is at most 30 s and at least
   `InitialBackoff`; the two cannot both hold once `InitialBackoff` is
   above 30 s, and the code keeps the second.
6. **HedgeMaxAttempts is off by one against its doc comment.** The comment
   calls it "the maximum parallel attempts per retry group", but it sets
   `MaxHedges`, the number of hedges beyond the primary. So
   `HedgeMaxAttempts(n)` allows n+1 parallel attempts.
7. **The reason-codes page misses reasons.** Its Outcome reasons section
   says it lists the values of `AttemptRecord.Outcome.Reason`. But
   `addReasonExpr` silently drops every non-literal value:
   - the retry executor's `Outcome{Reason: decision.Reason}` (a budget
     reason) is never listed there;
   - a chain such as `"grpc_" + code + "_x"` is not listed either.

## Fairness

Retry group: `FairSpec` puts weak fairness on:
- every attempt goroutine's steps;
- the spawner's start, its exit on the limit, and its exit on
  `groupCtx.Done`;
- the coordinator's two select cases.

Go's scheduler runs every runnable goroutine eventually. A select case that
stays ready is eventually taken. `op` returns because its context is
cancelled when the group ends.

Two things are not fair:
- `TickSpawn`: a trigger may legitimately never ask for a hedge.
- `CancelCtx`: a caller may never cancel.

Registry and generator: their runs check safety only, so they assume no
fairness. The generator run disables the deadlock check because the
process really stops when it exits.

## Proofs

`RetryGroupProofs.tla`:
- `TypeCorrect`: `Spec => []TypeOK`. It proves, for every hedge limit, that
  the spawner never launches an attempt outside `0..MaxHedges`.
- `ReleaseSafety`: `Spec => []ReleaseExactlyOnce`. `ReleaseExactlyOnce` alone
  is not inductive: a state where hedge `hedgesLaunched+1` has already
  released would let `TickSpawn` restart it. The inductive invariant is
  `IInv == TypeOK /\ LaunchedPrefix /\ ReleaseExactlyOnce`, where
  `LaunchedPrefix` says that no attempt beyond `hedgesLaunched` has been
  started. The proof shows `Init => IInv` and `IInv /\ [Next]_vars => IInv'`,
  with one step per action.
- `NoBlockedSendHolds`: `Spec => []NoBlockedSend`, and
  `GroupRecordsBoundedHolds`: `Spec => []GroupRecordsBounded`, both from
  `BInv == IInv /\ LaunchedBound /\ BufferAccount /\ RecordsSettled /\
  GroupRecordsBounded`:
  - `LaunchedBound`: `hedgesLaunched <= maxHedges`;
  - `BufferAccount`: `Len(results) + Cardinality(Pending) <= 1 +
    hedgesLaunched`, where `Pending` are the launched attempts that have
    not sent yet. A sender is in `Pending`, so the buffer then holds at
    most `maxHedges` results and has room. `NoBlockedSend` alone is not
    inductive: it says nothing about how many attempts are still to send.
    The step proof counts with `FS_AddElement` and `FS_RemoveElement`:
    a send moves an attempt from `Pending` to the buffer, a receive
    takes one out, a launch adds one to `Pending` and to `hedgesLaunched`;
  - `RecordsSettled`: every record belongs to an attempt in `send`,
    `exit` or `done`. An attempt records only when it leaves `gate` or
    `op`, so the new record's index is not in the timeline yet
    (`RecordAppendStep`, `RecordMoveStep`).
- `ContractRefinement`: `Spec => ContractHolds`. `doRetryGroup` implements
  `GroupContract`. `RefinementInit` maps the initial state (only the
  primary launched). `RefinementStep` maps each step:
  - `TickSpawn` is `Launch(hedgesLaunched+1)`; that hedge is idle by
    `LaunchedPrefix`;
  - `Send(i)` is `Produce(ResultOf(i))`;
  - a `Receive` that returns is `Finish(Head(results))`. When it returns
    on `activeAttempts = 0`, no attempt is in `Running`, so every launched
    attempt is `done` and has produced (`FS_EmptySet`);
  - `CtxDone` is `FinishCanceled` and `CancelCtx` is `Cancel`;
  - every other step is a stutter (`AttemptsStutter`, `AttemptsFrame`,
    `ContractStutter`).

  The inductive invariant is `RInv == IInv /\ ResultsSent /\ DeniedAbort`:
  - `ResultsSent`: every buffered result is `ResultOf` of an attempt past
    its send. Without it, nothing ties the received `Head(results)` to the
    contract's `produced` set. It holds because `outcome` and `allowed`
    are written only at the gate and when op returns.
  - `DeniedAbort`: only an allowed attempt is in `op`, and a denied
    attempt's outcome is Abort. This makes each produced result a
    contract `Results` value.
- These proofs assume only `ConstantsAssumption`.

`BudgetRegistryProofs.tla`, from `BudgetValuesAssumption` and
`BudgetRegistryAssumption`:
- `TypeCorrect`: `Spec => []TypeOK`.
- `NoTypedNilFound`: `Spec => []GetNeverTypedNil`.
- `Refinement`: `Spec => ContractHolds`. The locked registry implements the
  atomic map. The initial states map to the contract's, and each step maps
  to a contract step or a stutter:
  - `RegStore` is the contract's Register;
  - `GetRead` is its Get;
  - `RegisterRejected` and `GetRejected` are a Register or Get that failed
    its early checks;
  - every other step is a stutter.

`GetNeverTypedNil` is not inductive: a store could write a typed-nil
budget. The invariant `IInv` adds four facts:
- `InCallChecked`: a goroutine inside a call passed the early checks, so
  its key is a trimmed, non-empty key;
- `PendingNotNil`: a pending store carries a budget that `IsTypedNil`
  refused;
- `StoredNotNil`: the map never holds a nil budget;
- `PanicOnlyCrashed`: the panicked result belongs only to a dead goroutine.
  The refinement needs this for the contract's `res[c] # Panicked` guard.

The lemmas `SameValues` and `SameNames` equate the contract instance's
copies of the value operators with the module's own, so that the provers
can match them.

`PolicyOptionsProofs.tla`, from `PolicyOptionsAssumption` alone:
- `ResultNormalizedHolds`: `Spec => []ResultNormalized`, for any option
  arguments and any `MaxOptions`.
- `ExplicitHedgeKeptHolds`: `Spec => []ExplicitHedgeKept`.
- Both rest on `IInvHolds`: `Spec => []IInv`, where
  `IInv == TypeOK /\ ReturnedNormalized /\ HedgeTracked /\ ExplicitHedgeKept`.
  - `ReturnedNormalized`: after `Return`, `p` is a policy `Normalize`
    accepts and `result = Normalize(p)`; this covers the fallback, because
    `DefaultPolicyFor` is accepted (`DefaultAccepted`).
  - `HedgeTracked`: while options run, the normalized hedge limit and
    delay of `p` equal those of the last explicit setting. This is the
    strengthening `ExplicitHedgeKept` needs: `ExplicitHedgeKept` says
    nothing before `Return`, so by itself it does not constrain the
    options that run first. `EnableHedging` does change the fields, but
    its defaults 2 and 200 ms normalize as the zero they replace
    (`EnableHedgingOption`).
  - The step proof has one case per option. Each option lemma
    (`AssignMaxAttempts`, ..., `RetryPresets`, `HedgeOptions`,
    `LowLatencyOption`) says the result is a policy and what it does to
    the hedge limit and delay.
- `NormalizeSound`: for an accepted policy, `Normalize`'s result is inside
  the guardrails `Normalize` enforces and `Normalize` is idempotent on it.
  The guardrails are those of spec §3 except that `MaxBackoff` may exceed
  30 s when it equals `InitialBackoff` (finding 5). `NormFields` shows,
  field by field, where each step of `Normalize` lands and that a second
  pass leaves it there; `NormBackoffCeiling` does the same for
  `MaxBackoff`, whose second pass sees the same `InitialBackoff`. The
  predicates `RetryNormal` and `HedgeNormal` say that each field is its
  own normalization, and `NormalizeRetryFixed` and `NormalizeHedgeFixed`
  turn that into a fixed point of the whole record.
- The string-valued fields are typed by the values that can reach them
  (`Names`, the jitter arguments and kinds), not by `STRING`.

Only model-checked:
- the liveness properties (TLAPS cannot do liveness under fairness, or
  ENABLED);
- `HedgeMaxAttemptsBoundsParallel` and `BackoffCeiling`, which the code
  violates;
- the generator properties. `GenReference` declares RECURSIVE operators,
  and induction over syntax trees is out of the provers' reach.

## Not modelled

- The outer executor loop, circuit breaker, backoff and latency tracker
  have no code under `src/`.
- `Registry`'s doc comment makes `MustRegister` panic; recovering such a
  panic is the caller's business, so the goroutine simply stops.
- In the generator:
  - `collectStructFields`, `joinComments`, `exprString`, `writeStruct`,
    `writeStructWithTags` and `escapePipes` only format text;
  - the struct tables are left out; the model keeps only whether
    `observe/types.go` and `policy/key.go` parse;
  - `strconv.Unquote` cannot fail on a literal the parser accepted, so its
    error paths are dead.
- The exporters and `recourse/doc.go` are I/O or text.
- Panics and `RecoverPanics` of the executor are not modelled.
- Observer callbacks other than `recordAttempt` are not modelled.

## Plan

1. `Executor.tla` (spec-modelled, from §4.1/§4.5): the outer loop over
   groups composing `RetryGroup`, with budget-denial semantics and the
   per-call timeline. It will check the spec's bound
   `len(Attempts) ≤ MaxAttempts × (1 + MaxHedges)` and the `Attempt` index
   sequence.
2. `CircuitBreaker.tla` (spec-modelled): an abstract breaker and a detailed
   one with probes, related by a refinement mapping.
3. `Backoff.tla`: the backoff sequence as a function, checked against the
   closed form.
4. The contract of a whole call (over the groups of the outer loop), with
   the Executor module shown to implement it on top of `GroupContract`.
