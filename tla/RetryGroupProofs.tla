-------------------------- MODULE RetryGroupProofs --------------------------
(***************************************************************************)
(* Proofs about RetryGroup for every value of the constants: the type      *)
(* invariant; that every budget Release handle runs exactly once, when its *)
(* attempt exits, and never for a denied attempt; that no attempt ever    *)
(* blocks on the results channel; that the timeline holds at most one    *)
(* record per hedge index; and that the coordinator implements            *)
(* GroupContract.                                                          *)
(***************************************************************************)
EXTENDS RetryGroup, FiniteSetTheorems, SequenceTheorems, TLAPS

-----------------------------------------------------------------------------
(* Facts about the constants.                                              *)

LEMMA PolicyFacts ==
    ASSUME NEW p \in Policies
    PROVE  /\ p.enabled \in BOOLEAN
           /\ p.maxHedges \in 0..MaxHedgesLimit
           /\ p.cancelOnFirstTerminal \in BOOLEAN
           /\ p.trigger \in {"fixed", "custom"}
BY ConstantsAssumption DEF PolicyFields

\* The hedge index the spawner launches next is an attempt of the model.
LEMMA NextHedgeInRange ==
    ASSUME TypeOK, hedgesLaunched < maxHedges
    PROVE  hedgesLaunched + 1 \in AttemptIds
<1>1. pol.maxHedges \in 0..MaxHedgesLimit
    BY PolicyFacts DEF TypeOK
<1>2. QED
    BY <1>1, ConstantsAssumption DEF TypeOK, maxHedges, AttemptIds

-----------------------------------------------------------------------------
(* Type correctness.                                                       *)

\* Every step of Next keeps TypeOK.
LEMMA TypeStep == TypeOK /\ [Next]_vars => TypeOK'
<1> SUFFICES ASSUME TypeOK, [Next]_vars PROVE TypeOK'
    OBVIOUS
<1> USE ConstantsAssumption
<1>1. ASSUME NEW i \in AttemptIds, GateDenied(i) PROVE TypeOK'
    BY <1>1 DEF GateDenied, RecordAttempt, TypeOK, Record, AttemptPCs,
                OutcomeKinds
<1>2. ASSUME NEW i \in AttemptIds, GateAllowed(i) PROVE TypeOK'
    BY <1>2 DEF GateAllowed, TypeOK, AttemptPCs
<1>3. ASSUME NEW i \in AttemptIds, OpReturns(i) PROVE TypeOK'
    BY <1>3 DEF OpReturns, RecordAttempt, TypeOK, Record, AttemptPCs
<1>4. ASSUME NEW i \in AttemptIds, Send(i) PROVE TypeOK'
    BY <1>4 DEF Send, TypeOK, Result, AttemptPCs
<1>5. ASSUME NEW i \in AttemptIds, Exit(i) PROVE TypeOK'
    BY <1>5 DEF Exit, TypeOK, AttemptPCs
<1>6. CASE SpawnerStart
    BY <1>6 DEF SpawnerStart, TypeOK
<1>7. CASE TickStop
    BY <1>7 DEF TickStop, TypeOK
<1>14. CASE TickSpawn
    <2>1. hedgesLaunched + 1 \in AttemptIds
        BY <1>14, NextHedgeInRange DEF TickSpawn
    <2>2. QED
        BY <1>14, <2>1 DEF TickSpawn, TypeOK, AttemptPCs, AttemptIds
<1>8. CASE SpawnerDone
    BY <1>8 DEF SpawnerDone, TypeOK
<1>9. CASE Receive
    <2>1. results # <<>> /\ results \in Seq(Result)
        BY <1>9 DEF Receive, TypeOK
    <2>2. Head(results) \in [idx : AttemptIds \cup {NoAttempt},
                             outcome : OutcomeKinds, denied : BOOLEAN]
        <3>1. Head(results) \in Result
            BY <2>1
        <3>2. QED
            BY <3>1 DEF Result
    <2>3. Tail(results) \in Seq(Result)
        BY <2>1
    <2>4. CASE GroupEnds(Head(results))
        BY <1>9, <2>2, <2>3, <2>4 DEF Receive, Return, TypeOK
    <2>5. CASE ~GroupEnds(Head(results))
        BY <1>9, <2>3, <2>5 DEF Receive, TypeOK
    <2>6. QED
        BY <2>4, <2>5
<1>10. CASE CtxDone
    BY <1>10 DEF CtxDone, Return, TypeOK, OutcomeKinds
<1>11. CASE CancelCtx
    BY <1>11 DEF CancelCtx, TypeOK
<1>12. CASE UNCHANGED vars
    BY <1>12 DEF vars, TypeOK
<1>13. QED
    BY <1>1, <1>2, <1>3, <1>4, <1>5, <1>6, <1>7, <1>8, <1>9, <1>10,
       <1>11, <1>12, <1>14 DEF Next, Attempt

\* The state of doRetryGroup always has the types the model gives it.
THEOREM TypeCorrect == Spec => []TypeOK
<1>1. Init => TypeOK
    BY ConstantsAssumption
    DEF Init, TypeOK, AttemptPCs, OutcomeKinds, AttemptIds, NoAttempt
<1>2. QED
    BY <1>1, TypeStep, PTL DEF Spec

-----------------------------------------------------------------------------
(* Release handles.                                                        *)

\* No attempt beyond the last hedge launched has been started.
LaunchedPrefix ==
    \A i \in AttemptIds : i > hedgesLaunched => pc[i] = "idle"

\* The inductive invariant: ReleaseExactlyOnce is not inductive alone,
\* since the spawner's launch of hedge hedgesLaunched+1 would restart an
\* attempt that had already released; LaunchedPrefix rules that out.
IInv == TypeOK /\ LaunchedPrefix /\ ReleaseExactlyOnce

LEMMA IInvInit == Init => IInv
BY ConstantsAssumption
DEF Init, IInv, TypeOK, LaunchedPrefix, ReleaseExactlyOnce, AttemptPCs,
    OutcomeKinds, AttemptIds, NoAttempt

LEMMA IInvStep == IInv /\ [Next]_vars => IInv'
<1> SUFFICES ASSUME IInv, [Next]_vars PROVE IInv'
    OBVIOUS
<1>0. TypeOK'
    BY TypeStep DEF IInv
<1> SUFFICES LaunchedPrefix' /\ ReleaseExactlyOnce'
    BY <1>0 DEF IInv
<1> USE ConstantsAssumption DEF IInv
<1>1. ASSUME NEW i \in AttemptIds, GateDenied(i)
      PROVE  LaunchedPrefix' /\ ReleaseExactlyOnce'
    BY <1>1 DEF GateDenied, TypeOK, LaunchedPrefix, ReleaseExactlyOnce
<1>2. ASSUME NEW i \in AttemptIds, GateAllowed(i)
      PROVE  LaunchedPrefix' /\ ReleaseExactlyOnce'
    BY <1>2 DEF GateAllowed, TypeOK, LaunchedPrefix, ReleaseExactlyOnce
<1>3. ASSUME NEW i \in AttemptIds, OpReturns(i)
      PROVE  LaunchedPrefix' /\ ReleaseExactlyOnce'
    BY <1>3 DEF OpReturns, TypeOK, LaunchedPrefix, ReleaseExactlyOnce
<1>4. ASSUME NEW i \in AttemptIds, Send(i)
      PROVE  LaunchedPrefix' /\ ReleaseExactlyOnce'
    BY <1>4 DEF Send, TypeOK, LaunchedPrefix, ReleaseExactlyOnce
<1>5. ASSUME NEW i \in AttemptIds, Exit(i)
      PROVE  LaunchedPrefix' /\ ReleaseExactlyOnce'
    \* Exit leaves "exit", where nothing has been released yet.
    BY <1>5 DEF Exit, TypeOK, LaunchedPrefix, ReleaseExactlyOnce
<1>6. CASE TickSpawn
    \* The hedge launched is idle, so it has released nothing.
    <2>1. hedgesLaunched + 1 \in AttemptIds
        BY <1>6, NextHedgeInRange DEF TickSpawn
    <2>2. pc[hedgesLaunched + 1] = "idle"
        BY <2>1 DEF TypeOK, LaunchedPrefix
    <2>3. QED
        BY <1>6, <2>1, <2>2
        DEF TickSpawn, TypeOK, LaunchedPrefix, ReleaseExactlyOnce, AttemptIds
<1>7. CASE TickStop
    BY <1>7 DEF TickStop, LaunchedPrefix, ReleaseExactlyOnce
<1>9. CASE SpawnerStart
    BY <1>9 DEF SpawnerStart, LaunchedPrefix, ReleaseExactlyOnce
<1>10. CASE SpawnerDone
    BY <1>10 DEF SpawnerDone, LaunchedPrefix, ReleaseExactlyOnce
<1>11. CASE Receive
    BY <1>11 DEF Receive, Return, LaunchedPrefix, ReleaseExactlyOnce
<1>12. CASE CtxDone
    BY <1>12 DEF CtxDone, Return, LaunchedPrefix, ReleaseExactlyOnce
<1>13. CASE CancelCtx
    BY <1>13 DEF CancelCtx, LaunchedPrefix, ReleaseExactlyOnce
<1>14. CASE UNCHANGED vars
    BY <1>14 DEF vars, LaunchedPrefix, ReleaseExactlyOnce
<1>8. QED
    BY <1>1, <1>2, <1>3, <1>4, <1>5, <1>6, <1>7, <1>9, <1>10, <1>11,
       <1>12, <1>13, <1>14 DEF Next, Attempt

\* Every Release handle the budget hands out runs exactly once, when its
\* attempt goroutine exits, and no denied attempt releases anything.
THEOREM ReleaseSafety == Spec => []ReleaseExactlyOnce
<1>1. IInv => ReleaseExactlyOnce
    BY DEF IInv
<1>2. QED
    BY <1>1, IInvInit, IInvStep, PTL DEF Spec

-----------------------------------------------------------------------------
(* The results buffer and the timeline.                                    *)

\* The attempts launched that have not yet sent their result.
Pending == {i \in AttemptIds : pc[i] \in {"gate", "op", "send"}}

\* The spawner never launches more than maxHedges hedges.
LaunchedBound == hedgesLaunched <= maxHedges

\* Every launched attempt either still has to send or has one result in
\* the buffer or received: the buffer and the senders together never
\* exceed the 1 + hedgesLaunched attempts launched.
BufferAccount == Len(results) + Cardinality(Pending) <= 1 + hedgesLaunched

\* Each record in the timeline belongs to an attempt past its gate and op,
\* so that attempt records nothing more.
RecordsSettled ==
    \A k \in DOMAIN timeline : pc[timeline[k].idx] \in {"send", "exit", "done"}

\* The inductive invariant behind NoBlockedSend and GroupRecordsBounded.
BInv ==
    /\ IInv /\ LaunchedBound /\ BufferAccount /\ RecordsSettled
    /\ GroupRecordsBounded

\* Every set of attempts is finite.
LEMMA AttemptSetsFinite ==
    ASSUME NEW S \in SUBSET AttemptIds
    PROVE  IsFiniteSet(S) /\ Cardinality(S) \in Nat
<1>1. IsFiniteSet(AttemptIds)
    BY ConstantsAssumption, FS_Interval DEF AttemptIds
<1>2. IsFiniteSet(S)
    BY <1>1, FS_Subset
<1>3. QED
    BY <1>2, FS_CardinalityType

LEMMA BInvInit == Init => BInv
<1> SUFFICES ASSUME Init PROVE BInv
    OBVIOUS
<1>1. IInv
    BY IInvInit
<1>2. Pending = {0}
    BY ConstantsAssumption DEF Init, Pending, AttemptIds
<1>3. Cardinality(Pending) = 1
    BY <1>2, FS_Singleton
<1>4. BufferAccount
    BY <1>3 DEF Init, BufferAccount
<1>5. LaunchedBound
    BY ConstantsAssumption, PolicyFacts DEF Init, LaunchedBound, maxHedges
<1>6. QED
    BY <1>1, <1>4, <1>5 DEF Init, BInv, RecordsSettled, GroupRecordsBounded

\* How a step moves the buffer, the pending attempts and the spawner's
\* count: a send moves one attempt from Pending into the buffer, a receive
\* takes one result out, a launch adds a pending attempt.
LEMMA BufferStep ==
    ASSUME BInv, [Next]_vars
    PROVE  BufferAccount'
<1> USE DEF BInv, IInv
<1>1. TypeOK'
    BY TypeStep
<1>2. IsFiniteSet(Pending) /\ Cardinality(Pending) \in Nat
    BY AttemptSetsFinite DEF Pending
<1>3. IsFiniteSet(Pending') /\ Cardinality(Pending') \in Nat
    BY AttemptSetsFinite DEF Pending
<1>4. Len(results) \in Nat /\ hedgesLaunched \in Nat
    BY ConstantsAssumption DEF TypeOK
<1>5. ASSUME Pending' = Pending, results' = results,
             hedgesLaunched' = hedgesLaunched
      PROVE  BufferAccount'
    BY <1>5 DEF BufferAccount
<1>6. ASSUME NEW i \in AttemptIds, Attempt(i) PROVE BufferAccount'
    <2>1. CASE Send(i)
        <3>1. Pending' = Pending \ {i} /\ i \in Pending
            BY <2>1 DEF Send, Pending, TypeOK
        <3>2. Cardinality(Pending') = Cardinality(Pending) - 1
            BY <1>2, <3>1, FS_RemoveElement
        <3>3. Len(results') = Len(results) + 1
            BY <2>1, AppendProperties DEF Send, TypeOK, Result
        <3>4. QED
            BY <1>2, <1>4, <2>1, <3>2, <3>3 DEF Send, BufferAccount
    <2>2. CASE GateDenied(i) \/ GateAllowed(i) \/ OpReturns(i) \/ Exit(i)
        <3>1. Pending' = Pending
            BY <2>2 DEF GateDenied, GateAllowed, OpReturns, Exit, Pending, TypeOK
        <3>2. QED
            BY <1>5, <2>2, <3>1 DEF GateDenied, GateAllowed, OpReturns, Exit
    <2>3. QED
        BY <1>6, <2>1, <2>2 DEF Attempt
<1>7. CASE TickSpawn
    <2>1. hedgesLaunched + 1 \in AttemptIds
        BY <1>7, NextHedgeInRange DEF TickSpawn
    <2>2. hedgesLaunched + 1 \notin Pending
        BY <2>1 DEF LaunchedPrefix, Pending, TypeOK
    <2>3. Pending' = Pending \cup {hedgesLaunched + 1}
        BY <1>7, <2>1 DEF TickSpawn, Pending, TypeOK
    <2>4. Cardinality(Pending') = Cardinality(Pending) + 1
        BY <1>2, <2>2, <2>3, FS_AddElement
    <2>5. QED
        BY <1>2, <1>4, <1>7, <2>4 DEF TickSpawn, BufferAccount, TypeOK
<1>8. CASE Receive
    <2>1. Len(results') = Len(results) - 1
        BY <1>8, HeadTailProperties DEF Receive, TypeOK
    <2>2. Pending' = Pending /\ hedgesLaunched' = hedgesLaunched
        BY <1>8 DEF Receive, Pending
    <2>3. QED
        BY <1>2, <1>4, <2>1, <2>2 DEF BufferAccount
<1>9. CASE SpawnerStart \/ TickStop \/ SpawnerDone \/ CtxDone \/ CancelCtx
           \/ UNCHANGED vars \/ (Terminated /\ UNCHANGED vars)
    <2>1. UNCHANGED <<pc, results, hedgesLaunched>>
        BY <1>9 DEF SpawnerStart, TickStop, SpawnerDone, CtxDone, Return,
                    CancelCtx, vars
    <2>2. Pending' = Pending
        BY <2>1 DEF Pending
    <2>3. QED
        BY <1>5, <2>1, <2>2
<1>10. QED
    BY <1>6, <1>7, <1>8, <1>9 DEF Next


\* An attempt records once, at its gate (denied) or when op returns: the
\* record gets an index that is launched, so within maxHedges, and that no
\* earlier record has, since earlier records belong to settled attempts.
LEMMA RecordAppendStep ==
    ASSUME BInv, NEW i \in AttemptIds, NEW r \in Record,
           pc[i] \in {"gate", "op"}, r.idx = i,
           pc' = [pc EXCEPT ![i] = "send"], timeline' = Append(timeline, r),
           pol' = pol
    PROVE  RecordsSettled' /\ GroupRecordsBounded'
<1> DEFINE Settled == {"send", "exit", "done"}
<1>1. TypeOK /\ LaunchedPrefix /\ LaunchedBound /\ RecordsSettled /\ GroupRecordsBounded
    BY DEF BInv, IInv
<1>2. i <= maxHedges
    <2>1. ~(i > hedgesLaunched)
        BY <1>1 DEF LaunchedPrefix
    <2>2. hedgesLaunched <= maxHedges /\ hedgesLaunched \in Nat
        BY <1>1, ConstantsAssumption DEF LaunchedBound, TypeOK
    <2>3. maxHedges \in Nat
        BY <1>1, PolicyFacts DEF maxHedges, TypeOK
    <2>4. QED
        BY <2>1, <2>2, <2>3, ConstantsAssumption DEF AttemptIds
<1>3. \A k \in DOMAIN timeline : timeline[k].idx # i
    <2> SUFFICES ASSUME NEW k \in DOMAIN timeline, timeline[k].idx = i
                 PROVE  FALSE
        OBVIOUS
    <2>1. pc[i] \in {"send", "exit", "done"}
        BY <1>1 DEF RecordsSettled
    <2>2. QED
        BY <2>1
<1>4. timeline \in Seq(Record)
    BY <1>1 DEF TypeOK
<1>5. /\ Len(timeline') = Len(timeline) + 1
      /\ \A k \in 1..Len(timeline) : timeline'[k] = timeline[k]
      /\ timeline'[Len(timeline) + 1] = r
      /\ timeline' \in Seq(Record)
    BY <1>4, AppendProperties
<1>6. DOMAIN timeline' = 1..Len(timeline) + 1 /\ DOMAIN timeline = 1..Len(timeline)
    BY <1>4, <1>5
<1>7. maxHedges' = maxHedges
    BY DEF maxHedges
<1>8. \A k \in DOMAIN timeline :
         /\ timeline[k].idx \in AttemptIds
         /\ pc[timeline[k].idx] \in Settled
         /\ timeline[k].idx # i
    <2>1. \A k \in DOMAIN timeline : timeline[k].idx \in AttemptIds
        <3>1. \A k \in DOMAIN timeline : timeline[k] \in Record
            BY <1>4, ElementOfSeq
        <3>2. QED
            BY <3>1, Zenon DEF Record
    <2>2. \A k \in DOMAIN timeline : pc[timeline[k].idx] \in Settled
        BY <1>1, Zenon DEF RecordsSettled, Settled
    <2>3. QED
        BY <1>3, <2>1, <2>2
<1>9. pc \in [AttemptIds -> AttemptPCs]
    BY <1>1 DEF TypeOK
<1>10. RecordsSettled'
    <2> SUFFICES ASSUME NEW k \in DOMAIN timeline'
                 PROVE  pc'[timeline'[k].idx] \in Settled
        BY DEF RecordsSettled
    <2>1. CASE k \in 1..Len(timeline)
        BY <1>5, <1>6, <1>8, <1>9, <2>1
    <2>2. CASE k = Len(timeline) + 1
        BY <1>5, <1>9, <2>2
    <2>3. QED
        BY <1>6, <2>1, <2>2
<1>11. \A k \in DOMAIN timeline' :
          /\ timeline'[k].idx <= maxHedges
          /\ k = Len(timeline) + 1 => timeline'[k].idx = i
          /\ k # Len(timeline) + 1 => timeline'[k] = timeline[k] /\ k \in DOMAIN timeline
    BY <1>1, <1>2, <1>5, <1>6 DEF GroupRecordsBounded
<1>12. GroupRecordsBounded'
    <2>1. \A k \in DOMAIN timeline' : timeline'[k].idx <= maxHedges'
        BY <1>7, <1>11
    <2>2. \A k, m \in DOMAIN timeline' : k # m => timeline'[k].idx # timeline'[m].idx
        BY <1>1, <1>8, <1>11 DEF GroupRecordsBounded
    <2>3. QED
        BY <2>1, <2>2 DEF GroupRecordsBounded
<1>13. QED
    BY <1>10, <1>12


\* A step that moves one attempt and records nothing keeps the records
\* settled, as long as a settled attempt stays settled.
LEMMA RecordMoveStep ==
    ASSUME BInv, NEW i \in AttemptIds, NEW v,
           pc' = [pc EXCEPT ![i] = v], timeline' = timeline, pol' = pol,
           pc[i] \in {"send", "exit", "done"} => v \in {"send", "exit", "done"}
    PROVE  RecordsSettled' /\ GroupRecordsBounded'
<1>1. TypeOK /\ RecordsSettled /\ GroupRecordsBounded
    BY DEF BInv, IInv
<1>2. \A k \in DOMAIN timeline : timeline[k].idx \in AttemptIds
    <2>1. \A k \in DOMAIN timeline : timeline[k] \in Record
        BY <1>1, ElementOfSeq DEF TypeOK
    <2>2. QED
        BY <2>1, Zenon DEF Record
<1>3. RecordsSettled'
    <2> SUFFICES ASSUME NEW k \in DOMAIN timeline
                 PROVE  pc'[timeline[k].idx] \in {"send", "exit", "done"}
        BY DEF RecordsSettled
    <2>1. pc[timeline[k].idx] \in {"send", "exit", "done"}
        BY <1>1 DEF RecordsSettled
    <2>2. CASE timeline[k].idx = i
        BY <1>1, <2>1, <2>2 DEF TypeOK
    <2>3. CASE timeline[k].idx # i
        BY <1>1, <1>2, <2>1, <2>3 DEF TypeOK
    <2>4. QED
        BY <2>2, <2>3
<1>4. GroupRecordsBounded'
    BY <1>1 DEF GroupRecordsBounded, maxHedges
<1>5. QED
    BY <1>3, <1>4

\* Every step keeps the records settled and bounded.
LEMMA RecordsStep ==
    ASSUME BInv, [Next]_vars
    PROVE  RecordsSettled' /\ GroupRecordsBounded'
<1>1. TypeOK /\ LaunchedPrefix
    BY DEF BInv, IInv
<1>2. ASSUME NEW i \in AttemptIds, Attempt(i)
      PROVE  RecordsSettled' /\ GroupRecordsBounded'
    <2>1. CASE GateDenied(i)
        <3>1. [idx |-> i, outcome |-> "Abort", allowed |-> FALSE,
               late |-> coord = "returned"] \in Record
            BY DEF Record, OutcomeKinds
        <3>2. QED
            BY <2>1, <3>1, RecordAppendStep DEF GateDenied, RecordAttempt
    <2>4. CASE OpReturns(i)
        <3>1. PICK o \in OpOutcomes :
                 /\ outcome' = [outcome EXCEPT ![i] = o]
                 /\ RecordAttempt(i, o, TRUE)
            BY <2>4 DEF OpReturns
        <3>2. [idx |-> i, outcome |-> o, allowed |-> TRUE,
               late |-> coord = "returned"] \in Record
            BY ConstantsAssumption DEF Record
        <3>3. QED
            BY <2>4, <3>1, <3>2, RecordAppendStep DEF OpReturns, RecordAttempt
    <2>5. CASE GateAllowed(i)
        BY <2>5, RecordMoveStep DEF GateAllowed
    <2>6. CASE Send(i)
        BY <2>6, RecordMoveStep DEF Send
    <2>7. CASE Exit(i)
        BY <2>7, RecordMoveStep DEF Exit
    <2>8. QED
        BY <1>2, <2>1, <2>4, <2>5, <2>6, <2>7 DEF Attempt
<1>3. CASE TickSpawn
    <2>1. hedgesLaunched + 1 \in AttemptIds
        BY <1>1, <1>3, NextHedgeInRange DEF TickSpawn
    <2>2. pc[hedgesLaunched + 1] = "idle"
        BY <1>1, <2>1 DEF LaunchedPrefix, TypeOK
    <2>3. QED
        BY <1>3, <2>1, <2>2, RecordMoveStep DEF TickSpawn
<1>4. CASE SpawnerStart \/ TickStop \/ SpawnerDone \/ Receive \/ CtxDone
           \/ CancelCtx \/ UNCHANGED vars \/ (Terminated /\ UNCHANGED vars)
    <2>1. UNCHANGED <<pc, timeline, pol>>
        BY <1>4 DEF SpawnerStart, TickStop, SpawnerDone, Receive, CtxDone,
                    Return, CancelCtx, vars
    <2>2. QED
        BY <2>1 DEF BInv, RecordsSettled, GroupRecordsBounded, maxHedges
<1>5. QED
    BY <1>2, <1>3, <1>4 DEF Next


\* Every step keeps the strengthened invariant.
LEMMA BInvStep == BInv /\ [Next]_vars => BInv'
<1> SUFFICES ASSUME BInv, [Next]_vars PROVE BInv'
    OBVIOUS
<1>1. IInv'
    BY IInvStep DEF BInv
<1>2. LaunchedBound'
    <2>1. pol' = pol
        BY DEF Next, Attempt, GateDenied, GateAllowed, OpReturns, Send, Exit,
               SpawnerStart, TickStop, TickSpawn, SpawnerDone, Receive,
               CtxDone, CancelCtx, vars
    <2>2. maxHedges' = maxHedges /\ maxHedges \in Nat /\ hedgesLaunched \in Nat
        BY <2>1, PolicyFacts, ConstantsAssumption DEF maxHedges, BInv, IInv, TypeOK
    <2>3. CASE TickSpawn
        BY <2>2, <2>3 DEF TickSpawn, LaunchedBound
    <2>4. CASE ~TickSpawn
        <3>1. hedgesLaunched' = hedgesLaunched
            BY <2>4 DEF Next, Attempt, GateDenied, GateAllowed, OpReturns,
                        Send, Exit, SpawnerStart, TickStop, SpawnerDone,
                        Receive, CtxDone, CancelCtx, vars
        <3>2. QED
            BY <2>2, <3>1 DEF BInv, LaunchedBound
    <2>5. QED
        BY <2>3, <2>4
<1>3. QED
    BY <1>1, <1>2, BufferStep, RecordsStep DEF BInv

\* NoBlockedSend: an attempt goroutine about to send on results always
\* finds room in the buffer of 1 + maxHedges, for every hedge limit: at
\* most 1 + hedgesLaunched attempts are launched, each sends once, and the
\* sender itself has not yet sent, so the coordinator need never receive.
THEOREM NoBlockedSendHolds == Spec => []NoBlockedSend
<1>1. BInv => NoBlockedSend
    <2> SUFFICES ASSUME BInv, NEW i \in AttemptIds, pc[i] = "send"
                 PROVE  Len(results) < ResultsCap
        BY DEF NoBlockedSend
    <2>1. i \in Pending
        BY DEF Pending
    <2>2. IsFiniteSet(Pending) /\ Cardinality(Pending) \in Nat
        BY AttemptSetsFinite DEF Pending
    <2>3. Cardinality(Pending) >= 1
        BY <2>1, <2>2, FS_EmptySet
    <2>4. /\ Len(results) \in Nat /\ hedgesLaunched \in Nat
          /\ maxHedges \in Nat /\ hedgesLaunched <= maxHedges
          /\ Len(results) + Cardinality(Pending) <= 1 + hedgesLaunched
        BY PolicyFacts, ConstantsAssumption
        DEF BInv, IInv, TypeOK, maxHedges, LaunchedBound, BufferAccount
    <2>5. QED
        BY <2>2, <2>3, <2>4 DEF ResultsCap
<1>2. QED
    BY <1>1, BInvInit, BInvStep, PTL DEF Spec

\* GroupRecordsBounded: however the spawner's ticks interleave with the
\* attempts, recordAttempt sees at most one record per hedge index, none
\* beyond maxHedges.
THEOREM GroupRecordsBoundedHolds == Spec => []GroupRecordsBounded
<1>1. BInv => GroupRecordsBounded
    BY DEF BInv
<1>2. QED
    BY <1>1, BInvInit, BInvStep, PTL DEF Spec


-----------------------------------------------------------------------------
(* doRetryGroup implements GroupContract.                                  *)

\* Every result in the channel is the one its attempt sent, and that
\* attempt has gone past its send: outcome[i] and allowed[i] are written
\* only at the gate and when op returns, so what an attempt sent stays what
\* ResultOf(i) says.
ResultsSent ==
    \A k \in DOMAIN results :
        /\ results[k].idx \in Sent
        /\ results[k] = ResultOf(results[k].idx)

\* Only an allowed attempt calls op, and a denied attempt's outcome is the
\* synthetic Abort.
DeniedAbort ==
    \A i \in AttemptIds :
        /\ pc[i] = "op" => allowed[i]
        /\ ~allowed[i] => outcome[i] = "Abort"

\* The inductive invariant of the refinement: every result the coordinator
\* can receive is in the contract's produced set, and every result an
\* attempt produces is a result of the contract.
RInv == IInv /\ ResultsSent /\ DeniedAbort


LEMMA RInvInit == Init => RInv
<1> SUFFICES ASSUME Init PROVE RInv
    OBVIOUS
<1>1. IInv
    BY IInvInit
<1>2. ResultsSent
    BY DEF Init, ResultsSent
<1>3. DeniedAbort
    BY DEF Init, DeniedAbort
<1>4. QED
    BY <1>1, <1>2, <1>3 DEF RInv

\* What an attempt sent stays in the channel unchanged as the others move.
LEMMA ResultsSentStep ==
    ASSUME RInv, [Next]_vars, TypeOK'
    PROVE  ResultsSent'
<1> USE DEF RInv, IInv
<1>1. ASSUME NEW i \in AttemptIds, GateDenied(i) PROVE ResultsSent'
    BY <1>1 DEF GateDenied, ResultsSent, Sent, ResultOf, TypeOK
<1>2. ASSUME NEW i \in AttemptIds, GateAllowed(i) PROVE ResultsSent'
    BY <1>2 DEF GateAllowed, ResultsSent, Sent, ResultOf, TypeOK
<1>3. ASSUME NEW i \in AttemptIds, OpReturns(i) PROVE ResultsSent'
    BY <1>3 DEF OpReturns, ResultsSent, Sent, ResultOf, TypeOK
<1>4. ASSUME NEW i \in AttemptIds, Send(i) PROVE ResultsSent'
    \* The new result is ResultOf(i), and i has now gone past its send.
    <2>1. results \in Seq(Result)
        BY DEF TypeOK
    <2>2. results' = Append(results, ResultOf(i))
        BY <1>4 DEF Send, ResultOf
    <2>3. ResultOf(i) \in Result
        BY <1>4 DEF ResultOf, Result, TypeOK
    <2>4. /\ DOMAIN results' = 1..Len(results) + 1
          /\ \A k \in 1..Len(results) : results'[k] = results[k]
          /\ results'[Len(results) + 1] = ResultOf(i)
        BY <2>1, <2>2, <2>3, AppendProperties
    <2>5. ASSUME NEW k \in 1..Len(results)
          PROVE  /\ results'[k].idx \in Sent'
                 /\ results'[k] = [idx |-> results'[k].idx,
                                   outcome |-> outcome'[results'[k].idx],
                                   denied |-> ~allowed'[results'[k].idx]]
        <3>1. k \in DOMAIN results /\ results[k].idx \in Sent
              /\ results[k] = ResultOf(results[k].idx)
            BY <2>1 DEF ResultsSent
        <3>2. results[k].idx # i
            BY <3>1, <1>4 DEF Send, Sent
        <3>3. results'[k] = results[k]
            BY <2>4
        <3>4. /\ results[k].idx \in AttemptIds
              /\ pc'[results[k].idx] = pc[results[k].idx]
            BY <3>1, <3>2, <1>4 DEF Send, Sent
        <3>5. outcome' = outcome /\ allowed' = allowed
            BY <1>4 DEF Send
        <3>6. QED
            BY <3>1, <3>3, <3>4, <3>5 DEF Sent, ResultOf
    <2>6. /\ results'[Len(results) + 1].idx \in Sent'
          /\ results'[Len(results) + 1] =
                [idx |-> results'[Len(results) + 1].idx,
                 outcome |-> outcome'[results'[Len(results) + 1].idx],
                 denied |-> ~allowed'[results'[Len(results) + 1].idx]]
        <3>1. ResultOf(i).idx = i
            BY DEF ResultOf
        <3>2. pc'[i] = "exit"
            BY <1>4 DEF Send, TypeOK
        <3>3. outcome' = outcome /\ allowed' = allowed
            BY <1>4 DEF Send
        <3>4. QED
            BY <2>4, <3>1, <3>2, <3>3 DEF Sent, ResultOf
    <2>7. \A k \in DOMAIN results' :
             k \in 1..Len(results) \/ k = Len(results) + 1
        BY <2>1, <2>4
    <2>8. QED
        BY <2>5, <2>6, <2>7, Zenon DEF ResultsSent, ResultOf
<1>5. ASSUME NEW i \in AttemptIds, Exit(i) PROVE ResultsSent'
    BY <1>5 DEF Exit, ResultsSent, Sent, ResultOf, TypeOK
<1>6. CASE TickSpawn
    <2>1. hedgesLaunched + 1 \in AttemptIds
        BY <1>6, NextHedgeInRange DEF TickSpawn
    <2>2. pc[hedgesLaunched + 1] = "idle"
        BY <2>1 DEF TypeOK, LaunchedPrefix
    <2>3. QED
        BY <1>6, <2>1, <2>2 DEF TickSpawn, ResultsSent, Sent, ResultOf,
                                TypeOK
<1>7. CASE Receive
    \* Tail keeps the rest of the results, each in its place shifted by one.
    <2>1. results \in Seq(Result) /\ results # <<>>
        BY <1>7 DEF Receive, TypeOK
    <2>2. /\ DOMAIN Tail(results) = 1..Len(results) - 1
          /\ \A k \in 1..Len(results) - 1 : Tail(results)[k] = results[k + 1]
        BY <2>1, HeadTailProperties
    <2>3. \A k \in 1..Len(results) - 1 : k + 1 \in DOMAIN results
        BY <2>1
    <2>4. QED
        BY <1>7, <2>2, <2>3 DEF Receive, ResultsSent, Sent, ResultOf
<1>8. CASE UNCHANGED vars
    BY <1>8 DEF vars, ResultsSent, Sent, ResultOf
<1>9. QED
    BY <1>1, <1>2, <1>3, <1>4, <1>5, <1>6, <1>7, <1>8
    DEF Next, Attempt, SpawnerStart, TickStop, SpawnerDone, CtxDone, Return,
        CancelCtx, Terminated, ResultsSent, Sent, ResultOf

\* Only the gate writes allowed, and a denial writes the Abort with it.
LEMMA DeniedAbortStep ==
    ASSUME RInv, [Next]_vars
    PROVE  DeniedAbort'
<1> USE DEF RInv, IInv
<1>1. ASSUME NEW i \in AttemptIds, GateDenied(i) PROVE DeniedAbort'
    BY <1>1 DEF GateDenied, DeniedAbort, TypeOK
<1>2. ASSUME NEW i \in AttemptIds, GateAllowed(i) PROVE DeniedAbort'
    BY <1>2 DEF GateAllowed, DeniedAbort, TypeOK
<1>3. ASSUME NEW i \in AttemptIds, OpReturns(i) PROVE DeniedAbort'
    BY <1>3 DEF OpReturns, DeniedAbort, TypeOK
<1>4. ASSUME NEW i \in AttemptIds, Send(i) PROVE DeniedAbort'
    BY <1>4 DEF Send, DeniedAbort, TypeOK
<1>5. ASSUME NEW i \in AttemptIds, Exit(i) PROVE DeniedAbort'
    BY <1>5 DEF Exit, DeniedAbort, TypeOK
<1>6. CASE TickSpawn
    <2>1. hedgesLaunched + 1 \in AttemptIds
        BY <1>6, NextHedgeInRange DEF TickSpawn
    <2>2. QED
        BY <1>6, <2>1 DEF TickSpawn, DeniedAbort, TypeOK
<1>7. QED
    BY <1>1, <1>2, <1>3, <1>4, <1>5, <1>6
    DEF Next, Attempt, SpawnerStart, TickStop, SpawnerDone, Receive, CtxDone,
        Return, CancelCtx, Terminated, vars, DeniedAbort

LEMMA RInvStep == RInv /\ [Next]_vars => RInv'
<1> SUFFICES ASSUME RInv, [Next]_vars PROVE RInv'
    OBVIOUS
<1>1. IInv'
    BY IInvStep DEF RInv
<1>2. ResultsSent'
    BY <1>1, ResultsSentStep DEF IInv
<1>3. DeniedAbort'
    BY DeniedAbortStep
<1>4. QED
    BY <1>1, <1>2, <1>3 DEF RInv


\* The attempts of the contract's produced results are the attempts that
\* have sent.
LEMMA ProducedIdx == {r.idx : r \in {ResultOf(i) : i \in Sent}} = Sent
<1>1. \A i \in Sent : ResultOf(i).idx = i
    BY DEF ResultOf
<1>2. QED
    BY <1>1, Zenon

\* A step that moves no attempt into or out of idle, moves none past its
\* send, and keeps what the sent attempts sent, leaves the contract's
\* launched and produced sets as they are.
LEMMA AttemptsStutter ==
    ASSUME /\ \A j \in AttemptIds : (pc'[j] = "idle") <=> (pc[j] = "idle")
           /\ Sent' = Sent
           /\ \A j \in Sent : outcome'[j] = outcome[j] /\ allowed'[j] = allowed[j]
    PROVE  UNCHANGED <<{j \in AttemptIds : pc[j] # "idle"},
                       {ResultOf(j) : j \in Sent}>>
BY DEF ResultOf

\* ... and if it also keeps the policy, the caller's ctx and the
\* coordinator, it is a stutter of the contract.
LEMMA ContractStutter ==
    ASSUME /\ UNCHANGED <<{j \in AttemptIds : pc[j] # "idle"},
                          {ResultOf(j) : j \in Sent}>>
           /\ UNCHANGED <<pol, ctxCanceled, coord, ret>>
    PROVE  UNCHANGED Contract!cvars
BY DEF Contract!cvars

\* A step that leaves every attempt alone leaves both sets as they are.
LEMMA AttemptsFrame ==
    ASSUME UNCHANGED <<pc, outcome, allowed>>
    PROVE  UNCHANGED <<{j \in AttemptIds : pc[j] # "idle"},
                       {ResultOf(j) : j \in Sent}>>
BY DEF Sent, ResultOf

\* Every step of doRetryGroup is a step of its contract or leaves the
\* contract's state unchanged.
LEMMA RefinementStep ==
    ASSUME RInv, [Next]_vars
    PROVE  [Contract!CNext]_Contract!cvars
<1> USE DEF RInv, IInv
<1>1. ASSUME NEW i \in AttemptIds, GateDenied(i)
      PROVE  UNCHANGED Contract!cvars
    <2>1. \A j \in AttemptIds : (pc'[j] = "idle") <=> (pc[j] = "idle")
        BY <1>1 DEF GateDenied, TypeOK
    <2>2. Sent' = Sent
        BY <1>1 DEF GateDenied, Sent, TypeOK
    <2>3. \A j \in Sent : outcome'[j] = outcome[j] /\ allowed'[j] = allowed[j]
        <3>1. i \notin Sent
            BY <1>1 DEF GateDenied, Sent
        <3>2. \A j \in AttemptIds \ {i} :
                 outcome'[j] = outcome[j] /\ allowed'[j] = allowed[j]
            BY <1>1 DEF GateDenied, TypeOK
        <3>3. QED
            BY <3>1, <3>2 DEF Sent
    <2>4. UNCHANGED <<{j \in AttemptIds : pc[j] # "idle"},
                      {ResultOf(j) : j \in Sent}>>
        BY <2>1, <2>2, <2>3, AttemptsStutter
    <2>5. UNCHANGED <<pol, ctxCanceled, coord, ret>>
        BY <1>1 DEF GateDenied
    <2>6. QED
        BY <2>4, <2>5, ContractStutter
<1>2. ASSUME NEW i \in AttemptIds, GateAllowed(i)
      PROVE  UNCHANGED Contract!cvars
    <2>1. \A j \in AttemptIds : (pc'[j] = "idle") <=> (pc[j] = "idle")
        BY <1>2 DEF GateAllowed, TypeOK
    <2>2. Sent' = Sent
        BY <1>2 DEF GateAllowed, Sent, TypeOK
    <2>3. \A j \in Sent : outcome'[j] = outcome[j] /\ allowed'[j] = allowed[j]
        <3>1. i \notin Sent
            BY <1>2 DEF GateAllowed, Sent
        <3>2. \A j \in AttemptIds \ {i} :
                 outcome'[j] = outcome[j] /\ allowed'[j] = allowed[j]
            BY <1>2 DEF GateAllowed, TypeOK
        <3>3. QED
            BY <3>1, <3>2 DEF Sent
    <2>4. UNCHANGED <<{j \in AttemptIds : pc[j] # "idle"},
                      {ResultOf(j) : j \in Sent}>>
        BY <2>1, <2>2, <2>3, AttemptsStutter
    <2>5. UNCHANGED <<pol, ctxCanceled, coord, ret>>
        BY <1>2 DEF GateAllowed
    <2>6. QED
        BY <2>4, <2>5, ContractStutter
<1>3. ASSUME NEW i \in AttemptIds, OpReturns(i)
      PROVE  UNCHANGED Contract!cvars
    <2>1. \A j \in AttemptIds : (pc'[j] = "idle") <=> (pc[j] = "idle")
        BY <1>3 DEF OpReturns, TypeOK
    <2>2. Sent' = Sent
        BY <1>3 DEF OpReturns, Sent, TypeOK
    <2>3. \A j \in Sent : outcome'[j] = outcome[j] /\ allowed'[j] = allowed[j]
        <3>1. i \notin Sent
            BY <1>3 DEF OpReturns, Sent
        <3>2. QED
            BY <1>3, <3>1 DEF OpReturns, Sent, TypeOK
    <2>4. UNCHANGED <<{j \in AttemptIds : pc[j] # "idle"},
                      {ResultOf(j) : j \in Sent}>>
        BY <2>1, <2>2, <2>3, AttemptsStutter
    <2>5. UNCHANGED <<pol, ctxCanceled, coord, ret>>
        BY <1>3 DEF OpReturns
    <2>6. QED
        BY <2>4, <2>5, ContractStutter
<1>4. ASSUME NEW i \in AttemptIds, Exit(i)
      PROVE  UNCHANGED Contract!cvars
    <2>1. \A j \in AttemptIds : (pc'[j] = "idle") <=> (pc[j] = "idle")
        BY <1>4 DEF Exit, TypeOK
    <2>2. Sent' = Sent
        BY <1>4 DEF Exit, Sent, TypeOK
    <2>3. \A j \in Sent : outcome'[j] = outcome[j] /\ allowed'[j] = allowed[j]
        BY <1>4 DEF Exit
    <2>4. UNCHANGED <<{j \in AttemptIds : pc[j] # "idle"},
                      {ResultOf(j) : j \in Sent}>>
        BY <2>1, <2>2, <2>3, AttemptsStutter
    <2>5. UNCHANGED <<pol, ctxCanceled, coord, ret>>
        BY <1>4 DEF Exit
    <2>6. QED
        BY <2>4, <2>5, ContractStutter
<1>5. ASSUME NEW i \in AttemptIds, Send(i)
      PROVE  Contract!CNext
    \* The send produces ResultOf(i).
    <2>1. ResultOf(i) \in Contract!Results
        <3>1. ResultOf(i) \in [idx : AttemptIds, outcome : OutcomeKinds,
                               denied : BOOLEAN]
            BY DEF ResultOf, TypeOK
        <3>2. ~allowed[i] => outcome[i] = "Abort"
            BY DEF DeniedAbort
        <3>3. ResultOf(i).denied => ResultOf(i).outcome = "Abort"
            BY <3>2 DEF ResultOf
        <3>4. QED
            BY <3>1, <3>3 DEF Contract!Results, OutcomeKinds
    <2>2. i \in {j \in AttemptIds : pc[j] # "idle"} \ Sent
        BY <1>5 DEF Send, Sent
    <2>3. ResultOf(i).idx \in {j \in AttemptIds : pc[j] # "idle"}
                              \ {r.idx : r \in {ResultOf(j) : j \in Sent}}
        BY <2>2, ProducedIdx DEF ResultOf
    <2>4. Sent' = Sent \cup {i}
        BY <1>5 DEF Send, Sent, TypeOK
    <2>5. {ResultOf(j) : j \in Sent}' =
              {ResultOf(j) : j \in Sent} \cup {ResultOf(i)}
        BY <1>5, <2>4 DEF Send, ResultOf
    <2>6. {j \in AttemptIds : pc[j] # "idle"}' =
              {j \in AttemptIds : pc[j] # "idle"}
        BY <1>5 DEF Send, TypeOK
    <2>7. Contract!Produce(ResultOf(i))
        BY <1>5, <2>3, <2>5, <2>6
        DEF Send, Contract!Produce, Contract!ProducedBy
    <2>8. QED
        BY <2>1, <2>7 DEF Contract!CNext
<1>6. CASE TickSpawn
    \* The spawner's launch of hedge hedgesLaunched+1 is a Launch.
    <2>1. hedgesLaunched + 1 \in AttemptIds
        BY <1>6, NextHedgeInRange DEF TickSpawn
    <2>2. pc[hedgesLaunched + 1] = "idle"
        BY <2>1 DEF TypeOK, LaunchedPrefix
    <2>3. {j \in AttemptIds : pc[j] # "idle"}' =
              {j \in AttemptIds : pc[j] # "idle"} \cup {hedgesLaunched + 1}
        BY <1>6, <2>1 DEF TickSpawn, TypeOK
    <2>4. Sent' = Sent
        BY <1>6, <2>1, <2>2 DEF TickSpawn, Sent, TypeOK
    <2>5. {ResultOf(j) : j \in Sent}' = {ResultOf(j) : j \in Sent}
        BY <1>6, <2>4 DEF TickSpawn, ResultOf
    <2>6. Contract!Launch(hedgesLaunched + 1)
        BY <1>6, <2>2, <2>3, <2>5 DEF TickSpawn, Contract!Launch
    <2>7. \E k \in AttemptIds : Contract!Launch(k)
        BY <2>1, <2>6 DEF Contract!Launch
    <2>8. QED
        BY <2>7 DEF Contract!CNext
<1>7. CASE Receive
    <2>1. results \in Seq(Result) /\ results # <<>>
        BY <1>7 DEF Receive, TypeOK
    <2>2. Head(results) = results[1] /\ 1 \in DOMAIN results
        BY <2>1
    <2>3. /\ Head(results).idx \in Sent
          /\ Head(results) = ResultOf(Head(results).idx)
        BY <2>2 DEF ResultsSent
    <2>4. UNCHANGED <<{j \in AttemptIds : pc[j] # "idle"},
                      {ResultOf(j) : j \in Sent}>>
        BY <1>7, AttemptsFrame DEF Receive
    <2>5. CASE GroupEnds(Head(results))
        <3>1. Head(results) \in {ResultOf(j) : j \in Sent}
            BY <2>3
        <3>2. Head(results) \in Contract!Results
            <4>1. Head(results) \in Result
                BY <2>1
            <4>2. Head(results).denied => Head(results).outcome = "Abort"
                <5>1. PICK x \in Sent : Head(results) = ResultOf(x)
                    BY <2>3
                <5>2. x \in AttemptIds /\ (~allowed[x] => outcome[x] = "Abort")
                    BY DEF Sent, DeniedAbort
                <5>3. /\ Head(results).denied = ~allowed[x]
                      /\ Head(results).outcome = outcome[x]
                    BY <5>1 DEF ResultOf
                <5>4. QED
                    BY <5>2, <5>3, Zenon
            <4>3. QED
                BY <4>1, <4>2 DEF Result, Contract!Results, OutcomeKinds
        <3>3. ASSUME activeAttempts = 0
              PROVE  {j \in AttemptIds : pc[j] # "idle"}
                         \subseteq {r.idx : r \in {ResultOf(j) : j \in Sent}}
            <4>1. {j \in AttemptIds : pc[j] \in Running} \in SUBSET AttemptIds
                OBVIOUS
            <4>2. {j \in AttemptIds : pc[j] \in Running} = {}
                BY <3>3, <4>1, AttemptSetsFinite, FS_EmptySet DEF activeAttempts
            <4>3. {j \in AttemptIds : pc[j] # "idle"} \subseteq Sent
                BY <4>2 DEF Running, Sent, TypeOK, AttemptPCs
            <4>4. QED
                BY <4>3, ProducedIdx
        <3>4. Contract!Wins(Head(results))
            BY <2>5, <3>3 DEF GroupEnds, TerminalFailure, Contract!Wins,
                              Contract!ProducedBy
        <3>5. Contract!Finish(Head(results))
            BY <1>7, <2>4, <2>5, <3>1, <3>4
            DEF Receive, Return, GroupEnds, Contract!Finish
        <3>6. QED
            BY <3>2, <3>5 DEF Contract!CNext
    <2>6. CASE ~GroupEnds(Head(results))
        <3>1. UNCHANGED <<pol, ctxCanceled, coord, ret>>
            BY <1>7, <2>6 DEF Receive
        <3>2. QED
            BY <2>4, <3>1, ContractStutter
    <2>7. QED
        BY <2>5, <2>6
<1>8. CASE CtxDone
    <2>1. UNCHANGED <<{j \in AttemptIds : pc[j] # "idle"},
                      {ResultOf(j) : j \in Sent}>>
        BY <1>8, AttemptsFrame DEF CtxDone
    <2>2. Contract!FinishCanceled
        BY <1>8, <2>1 DEF CtxDone, Return, Contract!FinishCanceled
    <2>3. QED
        BY <2>2 DEF Contract!CNext
<1>9. CASE CancelCtx
    <2>1. UNCHANGED <<{j \in AttemptIds : pc[j] # "idle"},
                      {ResultOf(j) : j \in Sent}>>
        BY <1>9, AttemptsFrame DEF CancelCtx
    <2>2. Contract!Cancel
        BY <1>9, <2>1 DEF CancelCtx, Contract!Cancel
    <2>3. QED
        BY <2>2 DEF Contract!CNext
<1>10. CASE SpawnerStart \/ TickStop \/ TickStop \/ SpawnerDone
                \/ UNCHANGED vars
    <2>1. UNCHANGED <<pc, outcome, allowed, pol, ctxCanceled, coord, ret>>
        BY <1>10 DEF SpawnerStart, TickStop, SpawnerDone, vars
    <2>2. QED
        BY <2>1, AttemptsFrame, ContractStutter
<1>11. QED
    BY <1>1, <1>2, <1>3, <1>4, <1>5, <1>6, <1>7, <1>8, <1>9, <1>10
    DEF Next, Attempt


\* The initial state of a call is an initial state of its contract: only
\* the primary has been launched and nothing has been produced.
LEMMA RefinementInit == Init => Contract!CInit
<1> SUFFICES ASSUME Init PROVE Contract!CInit
    OBVIOUS
<1>1. {j \in AttemptIds : pc[j] # "idle"} = {0}
    BY ConstantsAssumption DEF Init, AttemptIds
<1>2. {ResultOf(j) : j \in Sent} = {}
    BY DEF Init, Sent
<1>3. pol.cancelOnFirstTerminal \in BOOLEAN
    BY PolicyFacts DEF Init
<1>4. QED
    BY <1>1, <1>2, <1>3 DEF Init, Contract!CInit

\* doRetryGroup implements GroupContract for every number of hedges and
\* every policy: each call returns at most once, a result one of its
\* launched attempts really sent (a denied attempt's being an Abort), a
\* failure only under CancelOnFirstTerminal or once activeAttempts shows
\* every attempt launched so far has sent, or ctx's Abort after the caller
\* cancelled.
THEOREM ContractRefinement == Spec => ContractHolds
<1>1. RInv /\ [Next]_vars => [Contract!CNext]_Contract!cvars
    BY RefinementStep
<1>2. QED
    BY <1>1, RefinementInit, RInvInit, RInvStep, PTL
    DEF Spec, ContractHolds, Contract!CSpec

=============================================================================
