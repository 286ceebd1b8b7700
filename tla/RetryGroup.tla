----------------------------- MODULE RetryGroup -----------------------------
(***************************************************************************)
(* One call of Executor.doRetryGroup (retry/, the file kept as             *)
(* src/unnamed/part_019): the coordinator goroutine that launches the      *)
(* primary attempt, the hedge-spawner goroutine driven by a ticker and a   *)
(* hedge trigger, the attempt goroutines (budget gate, op, classify,       *)
(* record, send on the buffered results channel, deferred release and      *)
(* decrement of activeAttempts), and the caller's context, which may be    *)
(* cancelled at any time.                                                  *)
(*                                                                         *)
(* Time is abstracted away: a tick of the spawner's ticker may come at any *)
(* moment, and whether the fixed hedge delay has elapsed at a tick is a    *)
(* nondeterministic choice.  The user operation and the classifier are     *)
(* abstracted to the outcome kind they produce.                            *)
(***************************************************************************)
EXTENDS Naturals, Sequences, FiniteSets

CONSTANTS
    MaxHedgesLimit,  \* largest pol.Hedge.MaxHedges the model considers
    Policies,        \* the hedge policies a call may be made under
    OpOutcomes,      \* outcome kinds op + classifier can produce
    ExternalCancel   \* whether the caller may cancel ctx during the group

OutcomeKinds == {"Success", "Retryable", "NonRetryable", "Abort"}

\* The fields of policy.HedgePolicy that doRetryGroup reads.  "trigger" is
\* the trigger that the lookup at lines 224-235 ends up with: a registered
\* trigger ("custom") or hedge.FixedDelayTrigger ("fixed").
PolicyFields ==
    [enabled : BOOLEAN, maxHedges : 0..MaxHedgesLimit,
     cancelOnFirstTerminal : BOOLEAN, trigger : {"fixed", "custom"}]

ASSUME ConstantsAssumption ==
    /\ MaxHedgesLimit \in Nat
    /\ Policies \subseteq PolicyFields
    /\ Policies # {}
    /\ OpOutcomes \subseteq OutcomeKinds
    /\ OpOutcomes # {}
    /\ ExternalCancel \in BOOLEAN

\* Hedge indices of attempts: 0 is the primary, 1..MaxHedges are hedges.
AttemptIds == 0..MaxHedgesLimit

NoAttempt == MaxHedgesLimit + 1

\* Program counter of an attempt goroutine (the closure started by launch).
\*  idle: not launched; gate: before allowAttempt; op: op running;
\*  send: blocked on or about to do results <- res; exit: running its
\*  deferred calls; done: returned.
AttemptPCs == {"idle", "gate", "op", "send", "exit", "done"}

Result == [idx : AttemptIds, outcome : OutcomeKinds, denied : BOOLEAN]

Record == [idx : AttemptIds, outcome : OutcomeKinds, allowed : BOOLEAN,
           late : BOOLEAN]

VARIABLES
    pol,            \* the policy of the call (never changes)
    pc,             \* pc[i]: where attempt goroutine i is
    allowed,        \* allowed[i]: decision.Allowed of attempt i's budget check
    outcome,        \* outcome[i]: the classified outcome attempt i will send
    released,       \* released[i]: times attempt i's Release handle ran
    results,        \* the buffered channel results, oldest first
    hedgesLaunched, \* the spawner's local hedgesLaunched
    spawner,        \* the spawner goroutine: "init", "loop" or "exited"
    coord,          \* the coordinator: "wait" in the select loop, or "returned"
    ret,            \* what doRetryGroup returned
    groupCanceled,  \* groupCtx is done
    ctxCanceled,    \* the caller's ctx is done
    timeline        \* the AttemptRecords passed to recordAttempt, in order

vars == <<pol, pc, allowed, outcome, released, results, hedgesLaunched,
          spawner, coord, ret, groupCanceled, ctxCanceled, timeline>>

-----------------------------------------------------------------------------
(* Definitions taken from doRetryGroup.                                    *)

\* maxHedges := 0; if pol.Hedge.Enabled { maxHedges = pol.Hedge.MaxHedges }
maxHedges == IF pol.enabled THEN pol.maxHedges ELSE 0

\* Mutation: the buffer sized for the hedges only.
ResultsCapHedgesOnly == maxHedges

\* make(chan groupResult[any], 1+maxHedges)
ResultsCap == 1 + maxHedges

\* The attempts that incremented activeAttempts in launch and have not yet
\* run their deferred activeAttempts.Add(-1).
Running == {"gate", "op", "send", "exit"}

activeAttempts == Cardinality({i \in AttemptIds : pc[i] \in Running})

\* Outcome kinds that end the group early under CancelOnFirstTerminal.
TerminalFailure == {"NonRetryable", "Abort"}

\* hedge.FixedDelayTrigger.ShouldSpawnHedge: no hedge before the delay has
\* elapsed, and none once a hedge has been launched.
FixedDelayShould(attemptsLaunchedSoFar, elapsedReached) ==
    elapsedReached /\ attemptsLaunchedSoFar <= 1

\* The answers the resolved trigger may give at a tick.
ShouldSpawnHedge(attemptsLaunchedSoFar) ==
    IF pol.trigger = "fixed"
    THEN {FixedDelayShould(attemptsLaunchedSoFar, e) : e \in BOOLEAN}
    ELSE BOOLEAN

\* recordAttempt(ctx, rec): append the record to the timeline.
RecordAttempt(i, o, a) ==
    timeline' = Append(timeline,
                       [idx |-> i, outcome |-> o, allowed |-> a,
                        late |-> coord = "returned"])

\* Mutation: the deferred cancelGroup() left out.
ReturnNoCancel(r) ==
    /\ coord' = "returned"
    /\ ret' = r
    /\ UNCHANGED groupCanceled

\* The coordinator returns r; its deferred cancelGroup() cancels groupCtx.
Return(r) ==
    /\ coord' = "returned"
    /\ ret' = r
    /\ groupCanceled' = TRUE

-----------------------------------------------------------------------------
(* Initial state: launch(0, false) has run and the spawner goroutine has   *)
(* been started, but neither goroutine has taken a step.                   *)

Init ==
    /\ pol \in Policies
    /\ pc = [i \in AttemptIds |-> IF i = 0 THEN "gate" ELSE "idle"]
    /\ allowed = [i \in AttemptIds |-> FALSE]
    /\ outcome = [i \in AttemptIds |-> "Abort"]
    /\ released = [i \in AttemptIds |-> 0]
    /\ results = <<>>
    /\ hedgesLaunched = 0
    /\ spawner = "init"
    /\ coord = "wait"
    /\ ret = [idx |-> NoAttempt, outcome |-> "Abort", denied |-> FALSE]
    /\ groupCanceled = FALSE
    /\ ctxCanceled = FALSE
    /\ timeline = <<>>

-----------------------------------------------------------------------------
(* Attempt goroutine i.                                                    *)

\* e.allowAttempt denies: record the denied attempt and go on to send a
\* synthetic Abort{decision.Reason}; op is never called.
GateDenied(i) ==
    /\ pc[i] = "gate"
    /\ pc' = [pc EXCEPT ![i] = "send"]
    /\ allowed' = [allowed EXCEPT ![i] = FALSE]
    /\ outcome' = [outcome EXCEPT ![i] = "Abort"]
    /\ RecordAttempt(i, "Abort", FALSE)
    /\ UNCHANGED <<pol, released, results, hedgesLaunched, spawner, coord,
                   ret, groupCanceled, ctxCanceled>>

\* e.allowAttempt allows: the Release handle is armed, the attempt context
\* is derived, OnHedgeSpawn is reported for a hedge, and op is called.
GateAllowed(i) ==
    /\ pc[i] = "gate"
    /\ pc' = [pc EXCEPT ![i] = "op"]
    /\ allowed' = [allowed EXCEPT ![i] = TRUE]
    /\ UNCHANGED <<pol, outcome, released, results, hedgesLaunched, spawner,
                   coord, ret, groupCanceled, ctxCanceled, timeline>>

\* op returns; classifyWithRecovery yields outcome o; the record is passed
\* to recordAttempt.
OpReturns(i) ==
    /\ pc[i] = "op"
    /\ \E o \in OpOutcomes :
          /\ outcome' = [outcome EXCEPT ![i] = o]
          /\ RecordAttempt(i, o, TRUE)
    /\ pc' = [pc EXCEPT ![i] = "send"]
    /\ UNCHANGED <<pol, allowed, released, results, hedgesLaunched, spawner,
                   coord, ret, groupCanceled, ctxCanceled>>

\* results <- res: blocks while the buffer is full.
Send(i) ==
    /\ pc[i] = "send"
    /\ Len(results) < ResultsCap
    /\ results' = Append(results, [idx |-> i, outcome |-> outcome[i],
                                   denied |-> ~allowed[i]])
    /\ pc' = [pc EXCEPT ![i] = "exit"]
    /\ UNCHANGED <<pol, allowed, outcome, released, hedgesLaunched, spawner,
                   coord, ret, groupCanceled, ctxCanceled, timeline>>

\* Mutation: release() deferred before the budget check, so that it also
\* runs for a denied attempt.
ExitReleaseAlways(i) ==
    /\ pc[i] = "exit"
    /\ pc' = [pc EXCEPT ![i] = "done"]
    /\ released' = [released EXCEPT ![i] = @ + 1]
    /\ UNCHANGED <<pol, allowed, outcome, results, hedgesLaunched, spawner,
                   coord, ret, groupCanceled, ctxCanceled, timeline>>

\* Mutation: release() called only on the success path, not deferred.
ExitReleaseOnSuccess(i) ==
    /\ pc[i] = "exit"
    /\ pc' = [pc EXCEPT ![i] = "done"]
    /\ released' = [released EXCEPT ![i] =
                       @ + (IF allowed[i] /\ outcome[i] = "Success" THEN 1 ELSE 0)]
    /\ UNCHANGED <<pol, allowed, outcome, results, hedgesLaunched, spawner,
                   coord, ret, groupCanceled, ctxCanceled, timeline>>

\* The deferred calls, last registered first: cancelAttempt(), release()
\* when the budget allowed the attempt, activeAttempts.Add(-1).
Exit(i) ==
    /\ pc[i] = "exit"
    /\ pc' = [pc EXCEPT ![i] = "done"]
    /\ released' = [released EXCEPT ![i] = @ + (IF allowed[i] THEN 1 ELSE 0)]
    /\ UNCHANGED <<pol, allowed, outcome, results, hedgesLaunched, spawner,
                   coord, ret, groupCanceled, ctxCanceled, timeline>>

-----------------------------------------------------------------------------
(* The hedge-spawner goroutine.                                            *)

\* The goroutine starts: it returns at once when hedging is disabled,
\* otherwise it resolves its trigger and enters the ticker loop.
SpawnerStart ==
    /\ spawner = "init"
    /\ spawner' = IF pol.enabled THEN "loop" ELSE "exited"
    /\ UNCHANGED <<pol, pc, allowed, outcome, released, results,
                   hedgesLaunched, coord, ret, groupCanceled, ctxCanceled,
                   timeline>>

\* case <-ticker.C, once maxHedges hedges have been launched: the spawner
\* returns.
TickStop ==
    /\ spawner = "loop"
    /\ hedgesLaunched >= maxHedges
    /\ spawner' = "exited"
    /\ UNCHANGED <<pol, pc, allowed, outcome, released, results,
                   hedgesLaunched, coord, ret, groupCanceled, ctxCanceled,
                   timeline>>

\* Mutation: the limit check written as hedgesLaunched > maxHedges.
TickSpawnOffByOne ==
    /\ spawner = "loop"
    /\ hedgesLaunched <= maxHedges
    /\ \E should \in ShouldSpawnHedge(1 + hedgesLaunched) : should
    /\ hedgesLaunched' = hedgesLaunched + 1
    /\ pc' = [pc EXCEPT ![hedgesLaunched + 1] = "gate"]
    /\ UNCHANGED <<pol, allowed, outcome, released, results, spawner, coord,
                   ret, groupCanceled, ctxCanceled, timeline>>

\* Mutation: launch(hedgesLaunched, true) called before hedgesLaunched++.
TickSpawnLaunchBeforeIncrement ==
    /\ spawner = "loop"
    /\ hedgesLaunched < maxHedges
    /\ \E should \in ShouldSpawnHedge(1 + hedgesLaunched) : should
    /\ hedgesLaunched' = hedgesLaunched + 1
    /\ pc' = [pc EXCEPT ![hedgesLaunched] = "gate"]
    /\ UNCHANGED <<pol, allowed, outcome, released, results, spawner, coord,
                   ret, groupCanceled, ctxCanceled, timeline>>

\* case <-ticker.C, with fewer than maxHedges hedges launched: the trigger
\* is asked with AttemptsLaunched = 1 + hedgesLaunched and, when it says
\* so, hedgesLaunched++ and launch(hedgesLaunched, true) start the next
\* hedge.  A tick on which the trigger says no changes nothing.
TickSpawn ==
    /\ spawner = "loop"
    /\ hedgesLaunched < maxHedges
    /\ \E should \in ShouldSpawnHedge(1 + hedgesLaunched) : should
    /\ hedgesLaunched' = hedgesLaunched + 1
    /\ pc' = [pc EXCEPT ![hedgesLaunched + 1] = "gate"]
    /\ UNCHANGED <<pol, allowed, outcome, released, results, spawner, coord,
                   ret, groupCanceled, ctxCanceled, timeline>>

\* case <-groupCtx.Done(): the spawner returns and its ticker is stopped.
SpawnerDone ==
    /\ spawner = "loop"
    /\ groupCanceled
    /\ spawner' = "exited"
    /\ UNCHANGED <<pol, pc, allowed, outcome, released, results,
                   hedgesLaunched, coord, ret, groupCanceled, ctxCanceled,
                   timeline>>

-----------------------------------------------------------------------------
(* The coordinator's select loop.                                          *)

\* Mutation: the group taken to be over when only one attempt is still
\* counted active (the one whose result was just received, it is assumed).
GroupEndsActiveOne(res) ==
    \/ res.outcome = "Success"
    \/ pol.cancelOnFirstTerminal /\ res.outcome \in TerminalFailure
    \/ activeAttempts <= 1

\* Whether the coordinator returns on receiving res: a success wins; under
\* CancelOnFirstTerminal a non-retryable or abort ends the group; otherwise
\* the group ends when activeAttempts.Load() reads 0.
GroupEnds(res) ==
    \/ res.outcome = "Success"
    \/ pol.cancelOnFirstTerminal /\ res.outcome \in TerminalFailure
    \/ activeAttempts = 0

\* case res := <-results: return res if the group ends, else keep waiting.
Receive ==
    /\ coord = "wait"
    /\ results # <<>>
    /\ results' = Tail(results)
    /\ \/ GroupEnds(Head(results)) /\ Return(Head(results))
       \/ ~GroupEnds(Head(results)) /\ UNCHANGED <<coord, ret, groupCanceled>>
    /\ UNCHANGED <<pol, pc, allowed, outcome, released, hedgesLaunched,
                   spawner, ctxCanceled, timeline>>

\* case <-ctx.Done(): return ctx.Err() as an Abort.
CtxDone ==
    /\ coord = "wait"
    /\ ctxCanceled
    /\ Return([idx |-> NoAttempt, outcome |-> "Abort", denied |-> FALSE])
    /\ UNCHANGED <<pol, pc, allowed, outcome, released, results,
                   hedgesLaunched, spawner, ctxCanceled, timeline>>

\* The caller cancels ctx; groupCtx, derived from it, is cancelled too.
CancelCtx ==
    /\ ExternalCancel
    /\ ~ctxCanceled
    /\ ctxCanceled' = TRUE
    /\ groupCanceled' = TRUE
    /\ UNCHANGED <<pol, pc, allowed, outcome, released, results,
                   hedgesLaunched, spawner, coord, ret, timeline>>

-----------------------------------------------------------------------------

\* The group call has returned and every goroutine it started has ended.
Terminated ==
    /\ coord = "returned"
    /\ spawner = "exited"
    /\ \A i \in AttemptIds : pc[i] \in {"idle", "done"}

Attempt(i) ==
    \/ GateDenied(i)
    \/ GateAllowed(i)
    \/ OpReturns(i)
    \/ Send(i)
    \/ Exit(i)

Next ==
    \/ \E i \in AttemptIds : Attempt(i)
    \/ SpawnerStart
    \/ TickStop
    \/ TickSpawn
    \/ SpawnerDone
    \/ Receive
    \/ CtxDone
    \/ CancelCtx
    \/ Terminated /\ UNCHANGED vars

Spec == Init /\ [][Next]_vars

\* Every goroutine is scheduled (Go's scheduler runs runnable goroutines),
\* op returns (the attempt context is cancelled when the group ends), and a
\* select whose case stays ready takes it.  The trigger and the caller are
\* not fair: a trigger may never ask for a hedge, a caller may never cancel.
Fairness ==
    /\ \A i \in AttemptIds : WF_vars(Attempt(i))
    /\ WF_vars(SpawnerStart)
    /\ WF_vars(SpawnerDone)
    /\ WF_vars(TickStop)
    /\ WF_vars(Receive)
    /\ WF_vars(CtxDone)

FairSpec == Spec /\ Fairness


-----------------------------------------------------------------------------
(* Properties.                                                             *)

TypeOK ==
    /\ pol \in Policies
    /\ pc \in [AttemptIds -> AttemptPCs]
    /\ allowed \in [AttemptIds -> BOOLEAN]
    /\ outcome \in [AttemptIds -> OutcomeKinds]
    /\ released \in [AttemptIds -> Nat]
    /\ results \in Seq(Result)
    /\ hedgesLaunched \in 0..MaxHedgesLimit
    /\ spawner \in {"init", "loop", "exited"}
    /\ coord \in {"wait", "returned"}
    /\ ret \in [idx : AttemptIds \cup {NoAttempt}, outcome : OutcomeKinds,
                denied : BOOLEAN]
    /\ groupCanceled \in BOOLEAN
    /\ ctxCanceled \in BOOLEAN
    /\ timeline \in Seq(Record)

\* No attempt goroutine ever blocks on results <- res: the buffer of
\* 1+maxHedges always has room, even when the coordinator has returned on
\* ctx.Done() without receiving anything and every attempt, hedges launched
\* after the return included, still sends (the code's comment: "Non-blocking
\* send? No, buffered channel.").  A blocked send would leak the goroutine.
NoBlockedSend ==
    \A i \in AttemptIds : pc[i] = "send" => Len(results) < ResultsCap

\* Every Release handle returned by the budget runs exactly once, when the
\* attempt that holds it exits, and never for a denied attempt
\* (budget.Decision: "Release ... is called exactly once after an allowed
\* attempt finishes").
ReleaseExactlyOnce ==
    \A i \in AttemptIds :
        released[i] = IF pc[i] = "done" /\ allowed[i] THEN 1 ELSE 0

\* The timeline of a group holds at most one record per hedge index, and no
\* index beyond maxHedges: at most one primary (HedgeIndex 0) and at most
\* 1+MaxHedges records, however the spawner's ticks interleave with the
\* attempts.
GroupRecordsBounded ==
    /\ \A k \in DOMAIN timeline : timeline[k].idx <= maxHedges
    /\ \A k, m \in DOMAIN timeline :
          k # m => timeline[k].idx # timeline[m].idx

\* Every allowed attempt eventually runs its Release handle, whatever the
\* coordinator does meanwhile.
ReleaseEventually ==
    \A i \in AttemptIds : (pc[i] = "op") ~> (released[i] = 1)

\* Once doRetryGroup has returned, the spawner and every attempt goroutine
\* it started eventually exit: none is leaked.
NoGoroutineLeak ==
    (coord = "returned") ~> Terminated

(* Properties the spec states of the group and that the code breaks.       *)

\* The coordinator never waits in its select loop on a channel no goroutine
\* will send to any more: whenever it waits with an empty buffer, some
\* attempt has still to send, or the spawner may still launch a hedge.
CoordinatorNotOrphaned ==
    (coord = "wait" /\ results = <<>>) =>
        \/ \E i \in AttemptIds : pc[i] \in {"gate", "op", "send"}
        \/ spawner \in {"init", "loop"} /\ hedgesLaunched < maxHedges

\* With CancelOnFirstTerminal off, success always wins: a group that
\* returns a failure of one of its attempts has no attempt that succeeded.
SuccessWins ==
    (/\ coord = "returned"
     /\ ~pol.cancelOnFirstTerminal
     /\ ret.idx # NoAttempt
     /\ ret.outcome # "Success")
    => \A i \in AttemptIds :
          ~(pc[i] \in {"send", "exit", "done"} /\ allowed[i]
            /\ outcome[i] = "Success")

\* A hedge the budget denied never decides the group outcome.
HedgeDenialNeutral ==
    coord = "returned" => ~(ret.denied /\ ret.idx # 0)

\* Outcome precedence: with CancelOnFirstTerminal off, a failing group
\* returns the strongest outcome (NonRetryable > Abort > Retryable) among the
\* real attempts whose results the coordinator received.
Rank(o) ==
    CASE o = "Success" -> 3 [] o = "NonRetryable" -> 2
      [] o = "Abort" -> 1 [] o = "Retryable" -> 0

Received ==
    {i \in AttemptIds : /\ pc[i] \in {"exit", "done"}
                        /\ \A k \in DOMAIN results : results[k].idx # i}

PrecedenceRespected ==
    (/\ coord = "returned"
     /\ ~pol.cancelOnFirstTerminal
     /\ ret.idx # NoAttempt
     /\ ret.outcome # "Success")
    => \A i \in Received : allowed[i] => Rank(outcome[i]) <= Rank(ret.outcome)

\* The result attempt i sends: its outcome, and whether it is the synthetic
\* Abort of a budget denial.
ResultOf(i) == [idx |-> i, outcome |-> outcome[i], denied |-> ~allowed[i]]

\* The attempts that have put their result on the channel.
Sent == {i \in AttemptIds : pc[i] \in {"exit", "done"}}

Contract == INSTANCE GroupContract WITH
    Attempts <- AttemptIds,
    CtxAbort <- [idx |-> NoAttempt, outcome |-> "Abort", denied |-> FALSE],
    launched <- {i \in AttemptIds : pc[i] # "idle"},
    produced <- {ResultOf(i) : i \in Sent},
    failFast <- pol.cancelOnFirstTerminal,
    canceled <- ctxCanceled,
    returned <- coord = "returned",
    out <- ret

\* doRetryGroup implements its promise (GroupContract): it returns once,
\* either a result that one of its launched attempts really sent, with that
\* attempt's outcome and denial, and a failure only under
\* CancelOnFirstTerminal or when activeAttempts shows that every attempt
\* launched so far has sent; or, after the caller cancelled, ctx's Abort.
ContractHolds == Contract!CSpec

=============================================================================
