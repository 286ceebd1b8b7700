--------------------------- MODULE GroupContract ----------------------------
(***************************************************************************)
(* What one call of doRetryGroup promises, from its doc comment ("It       *)
(* returns the result of the 'winning' attempt") and the comment on its    *)
(* wait loop ("We wait until: Success; All attempts fail; FailFast         *)
(* triggers").  Attempts are launched, each produces one result, and the   *)
(* call returns once: a result some launched attempt really produced, and  *)
(* a failure only when fail-fast applies or every attempt launched so far  *)
(* has produced its result; or, after the caller cancelled, the context's  *)
(* Abort.  How results travel (the channel, the goroutines, the counters)  *)
(* is not part of the promise.                                             *)
(***************************************************************************)
EXTENDS Naturals

CONSTANTS
    Attempts,   \* hedge indices a group may launch (0 is the primary)
    CtxAbort    \* what the call returns when the caller's ctx is done

\* A result as the caller sees it: the attempt it came from, its outcome
\* kind, and whether it is the synthetic Abort of a budget denial (which is
\* always an Abort).
Results ==
    {r \in [idx : Attempts, outcome : {"Success", "Retryable", "NonRetryable",
                                       "Abort"},
            denied : BOOLEAN] : r.denied => r.outcome = "Abort"}

VARIABLES
    launched,   \* the attempts started so far
    produced,   \* the results the attempts have produced
    failFast,   \* pol.Hedge.CancelOnFirstTerminal (fixed for the call)
    canceled,   \* the caller's ctx is done
    returned,   \* the call has returned
    out         \* what it returned

cvars == <<launched, produced, failFast, canceled, returned, out>>

ProducedBy == {r.idx : r \in produced}

\* The result r may end the call: it is a success, or fail-fast applies, or
\* no launched attempt is still to produce its result.
Wins(r) ==
    \/ r.outcome = "Success"
    \/ failFast /\ r.outcome \in {"NonRetryable", "Abort"}
    \/ launched \subseteq ProducedBy

CInit ==
    /\ launched = {0}
    /\ produced = {}
    /\ failFast \in BOOLEAN
    /\ canceled = FALSE
    /\ returned = FALSE
    /\ out = CtxAbort

\* A hedge is started (before or after the call has returned).
Launch(i) ==
    /\ i \notin launched
    /\ launched' = launched \cup {i}
    /\ UNCHANGED <<produced, failFast, canceled, returned, out>>

\* A launched attempt produces its one result.
Produce(r) ==
    /\ r.idx \in launched \ ProducedBy
    /\ produced' = produced \cup {r}
    /\ UNCHANGED <<launched, failFast, canceled, returned, out>>

\* The call returns a produced result that wins.
Finish(r) ==
    /\ ~returned
    /\ r \in produced
    /\ Wins(r)
    /\ returned' = TRUE
    /\ out' = r
    /\ UNCHANGED <<launched, produced, failFast, canceled>>

\* The call returns the context's Abort once the caller has cancelled.
FinishCanceled ==
    /\ ~returned
    /\ canceled
    /\ returned' = TRUE
    /\ out' = CtxAbort
    /\ UNCHANGED <<launched, produced, failFast, canceled>>

\* The caller cancels ctx.
Cancel ==
    /\ ~canceled
    /\ canceled' = TRUE
    /\ UNCHANGED <<launched, produced, failFast, returned, out>>

CNext ==
    \/ \E i \in Attempts : Launch(i)
    \/ \E r \in Results : Produce(r) \/ Finish(r)
    \/ FinishCanceled
    \/ Cancel

CSpec == CInit /\ [][CNext]_cvars

=============================================================================
