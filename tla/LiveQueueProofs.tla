--------------------------- MODULE LiveQueueProofs ---------------------------
(***************************************************************************)
(* Theorems about the live queue, for every number of exchanges, workers   *)
(* and schedulers and every choice of the timeouts.                        *)
(***************************************************************************)
EXTENDS LiveQueue, TLAPS

\* The keys of one step's tables: what a key is made of, and that the bucket
\* of an instant is a minute.
LEMMA KeyFacts ==
    /\ \A t \in Times : StartOfMinute(t) \in Minutes
    /\ \A k \in Keys : k[1] \in Exchanges /\ k[2] \in Minutes
    /\ \A st : ActiveExchanges(st) \subseteq Exchanges
BY DEF Keys, Minutes, ActiveExchanges

-----------------------------------------------------------------------------
(* Type correctness.                                                       *)

\* The empty queue is typed.
LEMMA InitTypeOK == Init => TypeOK
BY TimingAssumption DEF Init, TypeOK, Times, Statuses, Failures

\* Every step of a scheduler, a worker or the clock keeps the types.
LEMMA TypeStep == TypeOK /\ [Next]_vars => TypeOK'
<1> SUFFICES ASSUME TypeOK, [Next]_vars PROVE TypeOK'
  OBVIOUS
<1> USE TimingAssumption
<1>1. ASSUME NEW s \in Schedulers, TickStart(s) PROVE TypeOK'
  BY <1>1, KeyFacts DEF TypeOK, TickStart, rowVars, workerVars
<1>2. ASSUME NEW s \in Schedulers, MarkStale(s) PROVE TypeOK'
  BY <1>2 DEF TypeOK, MarkStale, Stale, rowVars, workerVars
<1>3. ASSUME NEW s \in Schedulers, ReadActive(s) PROVE TypeOK'
  BY <1>3, KeyFacts DEF TypeOK, ReadActive, rowVars, workerVars
<1>4. ASSUME NEW s \in Schedulers, EnqueueCommit(s) PROVE TypeOK'
  BY <1>4 DEF TypeOK, EnqueueCommit, Statuses, Active, Terminal, Failures, workerVars
<1>5. ASSUME NEW s \in Schedulers, TickFail(s) PROVE TypeOK'
  BY <1>5 DEF TypeOK, TickFail, rowVars, workerVars
<1>6. ASSUME NEW w \in Workers, ClaimLock(w) PROVE TypeOK'
  BY <1>6 DEF TypeOK, ClaimLock, Claimable, rowVars, schedulerVars
<1>7. ASSUME NEW w \in Workers, ClaimCommit(w) PROVE TypeOK'
  BY <1>7 DEF TypeOK, ClaimCommit, Statuses, Active, Failures, schedulerVars
<1>8. ASSUME NEW w \in Workers, ClaimFail(w) \/ FinalizeFail(w) \/ Crash(w) \/ Restart(w)
      PROVE TypeOK'
  BY <1>8, SMTT(30) DEF TypeOK, ClaimFail, FinalizeFail, Crash, Restart, Release, Times, rowVars,
              schedulerVars
<1>9. ASSUME NEW w \in Workers,
             CollectNothing(w) \/ CollectPersist(w) \/ CollectFail(w) \/ CollectTimeout(w)
      PROVE TypeOK'
  BY <1>9 DEF TypeOK, CollectNothing, CollectPersist, CollectFail, CollectTimeout, Conclude,
              Persist, rowVars, schedulerVars
<1>10. ASSUME NEW w \in Workers, Finalize(w) PROVE TypeOK'
  BY <1>10, SMTT(30) DEF TypeOK, Finalize, Release, Times, Statuses, Terminal, Failures, schedulerVars
<1>11. CASE Advance
  BY <1>11 DEF TypeOK, Advance, Times, rowVars, schedulerVars, workerVars
<1>12. CASE UNCHANGED vars
  BY <1>12 DEF TypeOK, vars, rowVars, schedulerVars, workerVars
<1>13. QED
  BY <1>1, <1>2, <1>3, <1>4, <1>5, <1>6, <1>7, <1>8, <1>9, <1>10, <1>11, <1>12
     DEF Next, SchedulerStep, WorkerStep

\* Every variable keeps its type, and a worker that is claiming, collecting or
\* finishing has a task (execute_one_live_task returns when there is none).
THEOREM TypeCorrect == Spec => []TypeOK
BY InitTypeOK, TypeStep, PTL DEF Spec

-----------------------------------------------------------------------------
(* Row locks and ownership: no clock is needed for these.                  *)

LockInv == ClaimInv /\ StaledInv /\ OwnerInv

\* Nothing is locked or owned at first.
LEMMA InitLockInv == Init => LockInv
BY DEF Init, LockInv, ClaimInv, StaledInv, OwnerInv

\* Every step keeps the locks exclusive and the owners recorded.
LEMMA LockStep == TypeOK /\ LockInv /\ [Next]_vars => LockInv'
<1> SUFFICES ASSUME TypeOK, LockInv, [Next]_vars PROVE LockInv'
  OBVIOUS
<1> USE TimingAssumption DEF LockInv
<1>1. ASSUME NEW s \in Schedulers, TickStart(s) PROVE LockInv'
  BY <1>1 DEF TypeOK, ClaimInv, StaledInv, OwnerInv, TickStart, rowVars, workerVars
<1>2. ASSUME NEW s \in Schedulers, MarkStale(s) PROVE LockInv'
  <2>1. ClaimInv' /\ OwnerInv'
    BY <1>2 DEF ClaimInv, OwnerInv, MarkStale, rowVars, workerVars
  <2>2. StaledInv'
    BY <1>2 DEF TypeOK, StaledInv, MarkStale, Stale, rowVars
  <2>3. QED
    BY <2>1, <2>2
<1>3. ASSUME NEW s \in Schedulers, ReadActive(s) PROVE LockInv'
  BY <1>3 DEF TypeOK, ClaimInv, StaledInv, OwnerInv, ReadActive, rowVars, workerVars
<1>4. ASSUME NEW s \in Schedulers, EnqueueCommit(s) PROVE LockInv'
  <2>1. ClaimInv' /\ OwnerInv'
    BY <1>4 DEF TypeOK, ClaimInv, StaledInv, OwnerInv, EnqueueCommit, Opened, workerVars
  <2>2. StaledInv'
    BY <1>4 DEF TypeOK, StaledInv, EnqueueCommit, Opened
  <2>3. QED
    BY <2>1, <2>2
<1>5. ASSUME NEW s \in Schedulers, TickFail(s) PROVE LockInv'
  BY <1>5 DEF TypeOK, ClaimInv, StaledInv, OwnerInv, TickFail, rowVars, workerVars
<1>6. ASSUME NEW w \in Workers, ClaimLock(w) PROVE LockInv'
  <2>1. ClaimInv'
    BY <1>6 DEF TypeOK, Times, ClaimInv, ClaimLock, Claimable, LockedByClaim, rowVars
  <2>2. StaledInv' /\ OwnerInv'
    BY <1>6 DEF TypeOK, StaledInv, OwnerInv, ClaimLock, rowVars, schedulerVars
  <2>3. QED
    BY <2>1, <2>2
<1>7. ASSUME NEW w \in Workers, ClaimCommit(w) PROVE LockInv'
  <2>1. ClaimInv' /\ OwnerInv'
    BY <1>7, SMTT(30) DEF TypeOK, ClaimInv, OwnerInv, ClaimCommit
  <2>2. StaledInv'
    BY <1>7 DEF TypeOK, ClaimInv, StaledInv, ClaimCommit, schedulerVars
  <2>3. QED
    BY <2>1, <2>2
<1>8. ASSUME NEW w \in Workers, ClaimFail(w) \/ FinalizeFail(w) \/ Crash(w) \/ Restart(w)
      PROVE LockInv'
  <2>1. /\ UNCHANGED <<now, rowVars, schedulerVars>>
        /\ pc'[w] \in {"idle", "down"}
        /\ \A v \in Workers \ {w} : pc'[v] = pc[v] /\ cur'[v] = cur[v] /\ clock'[v] = clock[v]
    BY <1>8, SMTT(30) DEF TypeOK, ClaimFail, FinalizeFail, Crash, Restart, Release
  <2>2. ClaimInv'
    BY <2>1 DEF TypeOK, ClaimInv, rowVars
  <2>3. StaledInv' /\ OwnerInv'
    BY <2>1 DEF StaledInv, OwnerInv, rowVars, schedulerVars
  <2>4. QED
    BY <2>2, <2>3
<1>9. ASSUME NEW w \in Workers,
             CollectNothing(w) \/ CollectPersist(w) \/ CollectFail(w) \/ CollectTimeout(w)
      PROVE LockInv'
  BY <1>9 DEF TypeOK, ClaimInv, StaledInv, OwnerInv, CollectNothing, CollectPersist,
              CollectFail, CollectTimeout, Conclude, Persist, rowVars, schedulerVars
<1>10. ASSUME NEW w \in Workers, Finalize(w) PROVE LockInv'
  <2>1. ClaimInv'
    BY <1>10 DEF TypeOK, ClaimInv, Finalize, Release
  <2>2. OwnerInv'
    BY <1>10 DEF TypeOK, OwnerInv, Finalize, Release
  <2>3. StaledInv'
    BY <1>10 DEF TypeOK, StaledInv, Finalize, LockedByTick, schedulerVars
  <2>4. QED
    BY <2>1, <2>2, <2>3
<1>11. CASE Advance
  BY <1>11 DEF TypeOK, Times, ClaimInv, StaledInv, OwnerInv, Advance, rowVars, schedulerVars,
               workerVars
<1>12. CASE UNCHANGED vars
  BY <1>12 DEF ClaimInv, StaledInv, OwnerInv, vars, rowVars, schedulerVars, workerVars
<1>13. QED
  BY <1>1, <1>2, <1>3, <1>4, <1>5, <1>6, <1>7, <1>8, <1>9, <1>10, <1>11, <1>12
     DEF Next, SchedulerStep, WorkerStep

\* A row is locked by at most one claim and one stale mark, and whoever holds
\* a task after its claim is its recorded owner.
THEOREM LocksAndOwners == Spec => []LockInv
BY InitTypeOK, TypeStep, InitLockInv, LockStep, PTL DEF Spec

-----------------------------------------------------------------------------
(* Work in progress is never marked stale.                                 *)

\* Nothing is collected or marked stale at first.
LEMMA InitTimeInv == Init => TimeInv
BY TimingAssumption DEF Init, TimeInv, CollectingIsRunning

\* Every step keeps the distances between the clocks, by which a stale mark
\* comes too late to hit work in progress.
LEMMA TimeStep ==
    ASSUME ClaimDelay <= Grace, TypeOK, LockInv, TimeInv, [Next]_vars
    PROVE  TimeInv'
<1> USE TimingAssumption DEF LockInv, TimeInv, CollectingIsRunning
<1>1. ASSUME NEW s \in Schedulers, TickStart(s) PROVE TimeInv'
  BY <1>1 DEF TypeOK, Times, StaledInv, TickStart, rowVars, workerVars
<1>2. ASSUME NEW s \in Schedulers, MarkStale(s) PROVE TimeInv'
  BY <1>2 DEF TypeOK, MarkStale, Stale, rowVars, workerVars
<1>3. ASSUME NEW s \in Schedulers, ReadActive(s) PROVE TimeInv'
  BY <1>3 DEF ReadActive, rowVars, workerVars
<1>4. ASSUME NEW s \in Schedulers, EnqueueCommit(s) PROVE TimeInv'
  <2>1. ASSUME NEW w \in Workers, pc[w] = "collecting", cur[w] \in staled[s] PROVE FALSE
    <3>1. cur[w] \in Keys /\ claimed[cur[w]] \in Nat /\ clock[w] \in Nat /\ now \in Nat
          /\ at[s] \in Nat
      BY <2>1 DEF TypeOK, Times
    <3>2. /\ now <= clock[w] + TaskTimeout /\ clock[w] <= claimed[cur[w]] + ClaimDelay
          /\ at[s] <= now /\ claimed[cur[w]] + TaskTimeout + Grace < at[s]
      BY <2>1, <3>1
    <3>3. QED
      BY <3>1, <3>2
  <2>2. CollectingIsRunning'
    BY <1>4, <2>1 DEF TypeOK, EnqueueCommit, Opened, workerVars
  <2>3. \A o \in Schedulers, k \in Keys : k \in staled'[o] => k \in staled[o]
    BY <1>4 DEF TypeOK, EnqueueCommit
  <2>4. QED
    BY <1>4, <2>2, <2>3 DEF EnqueueCommit, workerVars
<1>5. ASSUME NEW s \in Schedulers, TickFail(s) PROVE TimeInv'
  BY <1>5 DEF TypeOK, TickFail, rowVars, workerVars
<1>6. ASSUME NEW w \in Workers, ClaimLock(w) PROVE TimeInv'
  BY <1>6 DEF TypeOK, ClaimLock, rowVars, schedulerVars
<1>7. ASSUME NEW w \in Workers, ClaimCommit(w) PROVE TimeInv'
  <2>1. /\ cur[w] \in Keys /\ status[cur[w]] = "pending" /\ clock[w] \in Nat /\ now \in Nat
        /\ now <= clock[w] + ClaimDelay
    BY <1>7 DEF TypeOK, Times, ClaimInv, ClaimCommit
  <2>2. \A v \in Workers : pc[v] = "collecting" => cur[v] # cur[w]
    BY <2>1
  <2>3. \A s \in Schedulers : cur[w] \notin staled[s]
    BY <2>1 DEF StaledInv
  <2>4. CollectingIsRunning'
    BY <1>7, <2>1, <2>2 DEF TypeOK, ClaimCommit
  <2>5. \A v \in Workers : pc'[v] = "collecting" =>
           now' <= clock'[v] + TaskTimeout /\ clock'[v] <= claimed'[cur'[v]] + ClaimDelay
    BY <1>7, <2>1, <2>2 DEF TypeOK, ClaimCommit
  <2>6. \A s \in Schedulers, k \in Keys : k \in staled'[s] =>
           claimed'[k] + TaskTimeout + Grace < at'[s]
    BY <1>7, <2>1, <2>3 DEF TypeOK, ClaimCommit, schedulerVars
  <2>7. QED
    BY <1>7, <2>4, <2>5, <2>6 DEF ClaimCommit, schedulerVars
<1>8. ASSUME NEW w \in Workers, ClaimFail(w) \/ FinalizeFail(w) \/ Crash(w) \/ Restart(w)
      PROVE TimeInv'
  <2>1. /\ UNCHANGED <<now, rowVars, schedulerVars>>
        /\ pc'[w] \in {"idle", "down"}
        /\ \A v \in Workers \ {w} : pc'[v] = pc[v] /\ cur'[v] = cur[v] /\ clock'[v] = clock[v]
    BY <1>8, SMTT(30) DEF TypeOK, ClaimFail, FinalizeFail, Crash, Restart, Release
  <2>2. QED
    BY <2>1 DEF rowVars, schedulerVars
<1>9. ASSUME NEW w \in Workers,
             CollectNothing(w) \/ CollectPersist(w) \/ CollectFail(w) \/ CollectTimeout(w)
      PROVE TimeInv'
  <2>1. \E result : Conclude(w, result)
    BY <1>9 DEF CollectNothing, CollectPersist, CollectFail, CollectTimeout
  <2>2. QED
    BY <2>1 DEF TypeOK, Conclude, rowVars, schedulerVars
<1>10. ASSUME NEW w \in Workers, Finalize(w) PROVE TimeInv'
  <2>1. \A v \in Workers : pc[v] = "collecting" /\ cur[v] = cur[w] => status'[cur[v]] = status[cur[v]]
    BY <1>10 DEF TypeOK, Finalize
  <2>2. CollectingIsRunning'
    BY <1>10, <2>1 DEF TypeOK, Finalize, Release
  <2>3. QED
    BY <1>10, <2>2 DEF TypeOK, Finalize, Release, schedulerVars
<1>11. CASE Advance
  BY <1>11 DEF TypeOK, Times, Advance, rowVars, schedulerVars, workerVars
<1>12. CASE UNCHANGED vars
  BY <1>12 DEF vars, rowVars, schedulerVars, workerVars
<1>13. QED
  BY <1>1, <1>2, <1>3, <1>4, <1>5, <1>6, <1>7, <1>8, <1>9, <1>10, <1>11, <1>12
     DEF Next, SchedulerStep, WorkerStep

\* If a claim commits within the grace period of its claimed_at, the stale mark
\* never fails a task whose worker is still inside its execution block, with
\* any number of schedulers and workers.
THEOREM WorkInProgressIsNotStale ==
    ASSUME ClaimDelay <= Grace
    PROVE  Spec => []CollectingIsRunning
<1>1. TypeOK /\ LockInv /\ TimeInv /\ [Next]_vars => (TypeOK /\ LockInv /\ TimeInv)'
  BY TypeStep, LockStep, TimeStep
<1>2. Init => TypeOK /\ LockInv /\ TimeInv
  BY InitTypeOK, InitLockInv, InitTimeInv
<1>3. TimeInv => CollectingIsRunning
  BY DEF TimeInv
<1>4. QED
  BY <1>1, <1>2, <1>3, PTL DEF Spec

-----------------------------------------------------------------------------
(* The non-overlap rule, with one scheduler.                               *)

OneScheduler == \A s, o \in Schedulers : s = o

\* No exchange is active at first.
LEMMA InitOverlapInv == Init => OverlapInv
BY DEF Init, OverlapInv, NoOverlap, Active

\* No worker step adds an active row: a claim keeps one active.
LEMMA WorkersAddNoActive ==
    ASSUME TypeOK, LockInv, NEW w \in Workers, WorkerStep(w)
    PROVE  /\ \A k \in Keys : status'[k] \in Active => status[k] \in Active
           /\ UNCHANGED <<stage, staled, busy>>
<1>1. CASE ClaimCommit(w)
  BY <1>1 DEF TypeOK, LockInv, ClaimInv, ClaimCommit, Active, schedulerVars
<1>2. CASE Finalize(w)
  BY <1>2 DEF TypeOK, Finalize, Active, schedulerVars
<1>3. CASE ~ClaimCommit(w) /\ ~Finalize(w)
  <2>1. UNCHANGED <<status, stage, staled, busy>>
    BY <1>3 DEF WorkerStep, ClaimLock, ClaimFail, CollectNothing, CollectPersist, CollectFail,
                CollectTimeout, Conclude, FinalizeFail, Crash, Restart, rowVars, schedulerVars
  <2>2. QED
    BY <2>1
<1>4. QED
  BY <1>1, <1>2, <1>3

\* With one scheduler, what ReadActive saw stays true until EnqueueCommit,
\* because nobody else adds an active row.
LEMMA OverlapStep ==
    ASSUME OneScheduler, TypeOK, LockInv, OverlapInv, [Next]_vars
    PROVE  OverlapInv'
<1> USE DEF OverlapInv, NoOverlap
<1>1. ASSUME NEW s \in Schedulers, TickStart(s) \/ MarkStale(s) \/ TickFail(s) PROVE OverlapInv'
  <2>1. UNCHANGED status /\ stage'[s] # "insert" /\ Schedulers = {s}
    BY <1>1 DEF TypeOK, OneScheduler, TickStart, MarkStale, TickFail, rowVars
  <2>2. QED
    BY <2>1
<1>2. ASSUME NEW s \in Schedulers, ReadActive(s) PROVE OverlapInv'
  <2>1. UNCHANGED <<status, staled>> /\ Schedulers = {s}
    BY <1>2 DEF OneScheduler, ReadActive, rowVars
  <2>2. ASSUME NEW k \in Keys, status[k] \in Active, k \notin staled[s] PROVE k[1] \in busy'[s]
    BY <1>2, <2>2 DEF TypeOK, ReadActive, ActiveExchanges
  <2>3. QED
    BY <2>1, <2>2
<1>3. ASSUME NEW s \in Schedulers, EnqueueCommit(s) PROVE OverlapInv'
  <2>1. stage[s] = "insert" /\ stage'[s] = "idle" /\ Schedulers = {s}
    BY <1>3 DEF TypeOK, OneScheduler, EnqueueCommit
  <2>2. \A k \in Keys : status'[k] \in Active =>
           k \in Opened(s) \/ (status[k] \in Active /\ k \notin staled[s])
    BY <1>3 DEF TypeOK, EnqueueCommit, Active
  <2>3. \A j, k \in Opened(s) : j[1] = k[1] => j = k
    BY DEF Opened, Keys
  <2>4. \A j \in Opened(s), k \in Keys :
           status[k] \in Active /\ k \notin staled[s] => j[1] # k[1]
    BY <2>1 DEF Opened
  <2>5. NoOverlap'
    BY <2>2, <2>3, <2>4 DEF Opened
  <2>6. QED
    BY <2>1, <2>5
<1>4. ASSUME NEW w \in Workers, WorkerStep(w) PROVE OverlapInv'
  BY <1>4, WorkersAddNoActive
<1>5. CASE Advance \/ UNCHANGED vars
  BY <1>5 DEF Advance, vars, rowVars, schedulerVars
<1>6. QED
  BY <1>1, <1>2, <1>3, <1>4, <1>5 DEF Next, SchedulerStep

\* With one scheduler an exchange never has two active tasks, however its
\* ticks, failures and stale marks interleave with any number of workers.
THEOREM NonOverlapRule == ASSUME OneScheduler PROVE Spec => []NoOverlap
<1>1. TypeOK /\ LockInv /\ OverlapInv /\ [Next]_vars => (TypeOK /\ LockInv /\ OverlapInv)'
  BY TypeStep, LockStep, OverlapStep
<1>2. Init => TypeOK /\ LockInv /\ OverlapInv
  BY InitTypeOK, InitLockInv, InitOverlapInv
<1>3. OverlapInv => NoOverlap
  BY DEF OverlapInv
<1>4. QED
  BY <1>1, <1>2, <1>3, PTL DEF Spec

\* One scheduler and a claim that commits within the grace period: no two
\* workers ever collect the same exchange at once.
THEOREM ExchangesAreSerialised ==
    ASSUME OneScheduler, ClaimDelay <= Grace
    PROVE  Spec => []OneCollectorPerExchange
<1>1. TypeOK /\ CollectingIsRunning /\ NoOverlap => OneCollectorPerExchange
  BY DEF TypeOK, CollectingIsRunning, NoOverlap, OneCollectorPerExchange, Active
<1>2. QED
  BY <1>1, TypeCorrect, WorkInProgressIsNotStale, NonOverlapRule, PTL

-----------------------------------------------------------------------------
(* Finished tasks.                                                         *)

\* One step of any process leaves the rows that are done or failed.
LEMMA TerminalStep ==
    ASSUME TypeOK, LockInv, [Next]_vars, NEW k \in Keys, status[k] \in Terminal
    PROVE  status'[k] = status[k] /\ failure'[k] = failure[k] /\ owner'[k] = owner[k]
<1> USE DEF LockInv, Terminal
<1>1. ASSUME NEW s \in Schedulers, EnqueueCommit(s)
      PROVE status'[k] = status[k] /\ failure'[k] = failure[k] /\ owner'[k] = owner[k]
  <2>1. k \notin Opened(s) /\ k \notin staled[s]
    BY DEF Opened, StaledInv
  <2>2. QED
    BY <1>1, <2>1 DEF EnqueueCommit
<1>2. ASSUME NEW w \in Workers, ClaimCommit(w)
      PROVE status'[k] = status[k] /\ failure'[k] = failure[k] /\ owner'[k] = owner[k]
  <2>1. k # cur[w]
    BY <1>2 DEF ClaimCommit, ClaimInv
  <2>2. QED
    BY <1>2, <2>1 DEF TypeOK, ClaimCommit
<1>3. ASSUME NEW w \in Workers, Finalize(w)
      PROVE status'[k] = status[k] /\ failure'[k] = failure[k] /\ owner'[k] = owner[k]
  BY <1>3 DEF TypeOK, Finalize
<1>4. CASE UNCHANGED rowVars
  BY <1>4 DEF rowVars
<1>5. QED
  BY <1>1, <1>2, <1>3, <1>4
     DEF Next, SchedulerStep, WorkerStep, TickStart, MarkStale, ReadActive, TickFail, ClaimLock,
         ClaimFail, CollectNothing, CollectPersist, CollectFail, CollectTimeout, Conclude,
         FinalizeFail, Crash, Restart, Advance, vars

\* No step of any process changes a task that is done or failed.
THEOREM TerminalTasksAreFinal == Spec => TerminalIsFinal
<1>1. TypeOK /\ LockInv /\ [Next]_vars =>
        [\A k \in Keys : status[k] \in Terminal =>
            status'[k] = status[k] /\ failure'[k] = failure[k] /\ owner'[k] = owner[k]]_vars
  BY TerminalStep
<1>2. QED
  BY <1>1, TypeCorrect, LocksAndOwners, PTL DEF Spec, TerminalIsFinal

\* No snapshot is stored at first.
LEMMA InitSnapshotInv == Init => SnapshotInv
BY DEF Init, SnapshotInv, StoredAtMostOnce

\* Every step keeps the count of snapshots in agreement with the outcomes.
LEMMA SnapshotStep ==
    ASSUME TypeOK, LockInv, SnapshotInv, [Next]_vars
    PROVE  SnapshotInv'
<1> USE DEF LockInv, SnapshotInv, StoredAtMostOnce
<1>1. ASSUME NEW s \in Schedulers, SchedulerStep(s) PROVE SnapshotInv'
  <2>1. UNCHANGED <<snapshots, pc, cur, outcome>>
    BY <1>1 DEF SchedulerStep, TickStart, MarkStale, ReadActive, EnqueueCommit, TickFail, workerVars
  <2>2. \A k \in Keys : /\ status'[k] \in {"absent", "pending"} => status[k] \in {"absent", "pending"}
                        /\ status'[k] = "done" => status[k] = "done"
    BY <1>1 DEF TypeOK, SchedulerStep, TickStart, MarkStale, ReadActive, EnqueueCommit, TickFail,
                Opened, rowVars
  <2>3. QED
    BY <2>1, <2>2
<1>2. ASSUME NEW w \in Workers, ClaimLock(w) PROVE SnapshotInv'
  BY <1>2 DEF TypeOK, ClaimLock, rowVars
<1>3. ASSUME NEW w \in Workers, ClaimCommit(w) PROVE SnapshotInv'
  <2>1. cur[w] \in Keys /\ status[cur[w]] = "pending" /\ snapshots[cur[w]] = 0
    BY <1>3 DEF TypeOK, ClaimCommit, ClaimInv
  <2>2. QED
    BY <1>3, <2>1 DEF TypeOK, ClaimCommit
<1>4. ASSUME NEW w \in Workers, ClaimFail(w) \/ FinalizeFail(w) \/ Crash(w) \/ Restart(w)
      PROVE SnapshotInv'
  <2>1. /\ UNCHANGED <<rowVars, snapshots>>
        /\ pc'[w] \in {"idle", "down"}
        /\ \A v \in Workers \ {w} : pc'[v] = pc[v] /\ cur'[v] = cur[v] /\ outcome'[v] = outcome[v]
    BY <1>4 DEF TypeOK, ClaimFail, FinalizeFail, Crash, Restart, Release
  <2>2. QED
    BY <2>1 DEF rowVars
<1>5. ASSUME NEW w \in Workers,
             CollectNothing(w) \/ CollectPersist(w) \/ CollectFail(w) \/ CollectTimeout(w)
      PROVE SnapshotInv'
  <2>1. /\ pc[w] = "collecting" /\ UNCHANGED <<rowVars, cur>>
        /\ pc' = [pc EXCEPT ![w] = "finishing"]
        /\ \A v \in Workers \ {w} : outcome'[v] = outcome[v]
    BY <1>5 DEF TypeOK, CollectNothing, CollectPersist, CollectFail, CollectTimeout, Conclude
  <2>2. cur[w] \in Keys /\ snapshots[cur[w]] = 0 /\ status[cur[w]] \in {"running", "failed"}
    BY <2>1 DEF TypeOK, OwnerInv
  <2>3. \/ UNCHANGED snapshots
        \/ snapshots' = [snapshots EXCEPT ![cur[w]] = 1]
    BY <1>5, <2>2 DEF TypeOK, CollectNothing, CollectPersist, CollectFail, CollectTimeout, Persist
  <2>4. \A v \in Workers \ {w} : pc[v] \in {"collecting", "finishing"} => cur[v] # cur[w]
    BY <2>1 DEF OwnerInv
  <2>5. StoredAtMostOnce'
    BY <2>1, <2>2, <2>3 DEF TypeOK, rowVars
  <2>6. \A v \in Workers : pc'[v] = "collecting" => snapshots'[cur'[v]] = 0
    BY <2>1, <2>3, <2>4 DEF TypeOK
  <2>7. QED
    BY <2>5, <2>6
<1>6. ASSUME NEW w \in Workers, Finalize(w) PROVE SnapshotInv'
  <2>1. /\ UNCHANGED snapshots /\ cur[w] \in Keys
        /\ pc'[w] = "idle" /\ pc[w] = "finishing"
        /\ \A v \in Workers \ {w} : pc'[v] = pc[v] /\ cur'[v] = cur[v] /\ outcome'[v] = outcome[v]
    BY <1>6 DEF TypeOK, Finalize, Release
  <2>2. \A k \in Keys : /\ status'[k] \in {"absent", "pending"} => status[k] \in {"absent", "pending"}
                        /\ status'[k] = "done" => status[k] = "done" \/ (k = cur[w] /\ outcome[w] = "done")
    BY <1>6 DEF TypeOK, Finalize
  <2>3. QED
    BY <2>1, <2>2
<1>7. CASE Advance \/ UNCHANGED vars
  BY <1>7 DEF Advance, vars, rowVars, workerVars
<1>8. QED
  BY <1>1, <1>2, <1>3, <1>4, <1>5, <1>6, <1>7 DEF Next, WorkerStep

\* A task stores at most one snapshot, and none before it is claimed, with any
\* number of schedulers and workers and after any crash, timeout or lost answer.
THEOREM TasksStoreAtMostOnce == Spec => []StoredAtMostOnce
<1>1. TypeOK /\ LockInv /\ SnapshotInv /\ [Next]_vars => (TypeOK /\ LockInv /\ SnapshotInv)'
  BY TypeStep, LockStep, SnapshotStep
<1>2. Init => TypeOK /\ LockInv /\ SnapshotInv
  BY InitTypeOK, InitLockInv, InitSnapshotInv
<1>3. SnapshotInv => StoredAtMostOnce
  BY DEF SnapshotInv
<1>4. QED
  BY <1>1, <1>2, <1>3, PTL DEF Spec

-----------------------------------------------------------------------------
(* The queue implements the task board.                                    *)

\* Every step of the queue is a step of the board, or leaves the board alone.
LEMMA BoardStep ==
    ASSUME OneScheduler, TypeOK, LockInv, OverlapInv, [Next]_vars
    PROVE  [Board!BoardNext]_(Board!boardVars)
<1> USE DEF LockInv
<1>1. ASSUME NEW s \in Schedulers, EnqueueCommit(s) PROVE Board!BoardNext
  <2>1. staled[s] \in SUBSET Keys /\ Opened(s) \in SUBSET Keys /\ stage[s] = "insert"
    BY <1>1 DEF TypeOK, Opened, EnqueueCommit
  <2>2. \A k \in staled[s] : status[k] = "running"
    BY <2>1 DEF StaledInv
  <2>3. \A k \in Opened(s) : /\ status[k] = "absent"
                            /\ \A j \in (Board!Open(status) \ staled[s]) \cup Opened(s) :
                                  ExchangeOf(j) = ExchangeOf(k) => j = k
    BY <2>1 DEF OverlapInv, Active, Opened, Keys, ExchangeOf, Board!Open
  <2>4. /\ status' = [k \in Keys |-> IF k \in Opened(s) THEN "pending"
                                     ELSE IF k \in staled[s] THEN "failed" ELSE status[k]]
        /\ UNCHANGED owner
    BY <1>1 DEF EnqueueCommit
  <2>5. Board!Tick(staled[s], Opened(s))
    BY <2>2, <2>3, <2>4 DEF Board!Tick
  <2>6. QED
    BY <2>1, <2>5 DEF Board!BoardNext
<1>2. ASSUME NEW w \in Workers, ClaimCommit(w) PROVE Board!BoardNext
  <2>1. cur[w] \in Keys /\ Board!Take(cur[w], w)
    BY <1>2 DEF TypeOK, ClaimInv, ClaimCommit, Board!Take
  <2>2. QED
    BY <2>1 DEF Board!BoardNext
<1>3. ASSUME NEW w \in Workers, Finalize(w)
      PROVE Board!BoardNext \/ UNCHANGED <<status, owner>>
  <2>1. CASE UNCHANGED status
    BY <1>3, <2>1 DEF Finalize
  <2>2. CASE status[cur[w]] = "running" /\ owner[cur[w]] = w
    <3>1. cur[w] \in Keys /\ \E result \in {"done", "failed"} : Board!Close(cur[w], result)
      BY <1>3, <2>2 DEF TypeOK, Finalize, Board!Close
    <3>2. QED
      BY <3>1 DEF Board!BoardNext
  <2>3. QED
    BY <1>3, <2>1, <2>2 DEF Finalize
<1>4. CASE UNCHANGED rowVars
  BY <1>4 DEF rowVars, Board!boardVars
<1>5. QED
  BY <1>1, <1>2, <1>3, <1>4
     DEF Next, SchedulerStep, WorkerStep, TickStart, MarkStale, ReadActive, TickFail, ClaimLock,
         ClaimFail, CollectNothing, CollectPersist, CollectFail, CollectTimeout, Conclude,
         FinalizeFail, Crash, Restart, Advance, vars, Board!boardVars

\* With one scheduler the queue refines the task board: rows as tasks, the
\* recorded worker_id as the taker.
THEOREM QueueImplementsBoard == ASSUME OneScheduler PROVE Spec => ImplementsBoard
<1>1. TypeOK /\ LockInv /\ OverlapInv /\ [Next]_vars => (TypeOK /\ LockInv /\ OverlapInv)'
  BY TypeStep, LockStep, OverlapStep
<1>2. Init => TypeOK /\ LockInv /\ OverlapInv
  BY InitTypeOK, InitLockInv, InitOverlapInv
<1>3. Init => Board!BoardInit
  BY DEF Init, Board!BoardInit
<1>4. TypeOK /\ LockInv /\ OverlapInv /\ [Next]_vars => [Board!BoardNext]_(Board!boardVars)
  BY BoardStep
<1>5. QED
  BY <1>1, <1>2, <1>3, <1>4, PTL DEF Spec, ImplementsBoard, Board!BoardSpec

-----------------------------------------------------------------------------
(* The board keeps its promise, whatever implements it.                    *)

BoardInv ==
    /\ status \in [Keys -> Statuses]
    /\ owner = [k \in Keys |-> owner[k]]
    /\ Board!OneOpenTask

LEMMA BoardInvInit == Board!BoardInit => BoardInv
BY DEF Board!BoardInit, BoardInv, Board!OneOpenTask, Board!Open, Statuses

LEMMA BoardInvStep ==
    ASSUME BoardInv, [Board!BoardNext]_(Board!boardVars)
    PROVE  BoardInv' /\ Board!KeepsTakenAndClosed
<1>. USE DEF BoardInv, Statuses, Active, Terminal
<1>1. ASSUME NEW expired \in SUBSET Keys, NEW posted \in SUBSET Keys, Board!Tick(expired, posted)
      PROVE  /\ BoardInv'
             /\ \A k \in Keys : status[k] \in {"done", "failed"} => status'[k] = status[k]
             /\ owner' = owner
  <2>1. /\ \A k \in expired : status[k] = "running"
        /\ \A k \in posted : status[k] = "absent"
        /\ \A k \in posted : \A u \in (Board!Open(status) \ expired) \cup posted :
              ExchangeOf(u) = ExchangeOf(k) => u = k
        /\ status' = [k \in Keys |-> IF k \in posted THEN "pending"
                                     ELSE IF k \in expired THEN "failed" ELSE status[k]]
        /\ owner' = owner
    BY <1>1 DEF Board!Tick
  <2>2. status' \in [Keys -> Statuses]
    BY <2>1
  <2>3. Board!Open(status)' = (Board!Open(status) \ expired) \cup posted
    BY <2>1 DEF Board!Open
  <2>4. Board!OneOpenTask'
    BY <2>1, <2>3 DEF Board!OneOpenTask, ExchangeOf
  <2>. QED
    BY <2>1, <2>2, <2>4
<1>2. ASSUME NEW k \in Keys, NEW w \in Workers, Board!Take(k, w)
      PROVE  /\ BoardInv'
             /\ \A j \in Keys : /\ status[j] \in {"done", "failed"} => status'[j] = status[j]
                                /\ status[j] # "pending" => owner'[j] = owner[j]
  <2>1. /\ status[k] = "pending" /\ status' = [status EXCEPT ![k] = "running"]
        /\ owner' = [owner EXCEPT ![k] = w]
    BY <1>2 DEF Board!Take
  <2>2. Board!Open(status)' = Board!Open(status)
    BY <2>1 DEF Board!Open
  <2>. QED
    BY <2>1, <2>2 DEF Board!OneOpenTask, ExchangeOf
<1>3. ASSUME NEW k \in Keys, NEW result \in {"done", "failed"}, Board!Close(k, result)
      PROVE  /\ BoardInv'
             /\ \A j \in Keys : status[j] \in {"done", "failed"} => status'[j] = status[j]
             /\ owner' = owner
  <2>1. /\ status[k] = "running" /\ status' = [status EXCEPT ![k] = result]
        /\ owner' = owner
    BY <1>3 DEF Board!Close
  <2>2. Board!Open(status)' \subseteq Board!Open(status)
    BY <2>1 DEF Board!Open
  <2>. QED
    BY <2>1, <2>2 DEF Board!OneOpenTask, ExchangeOf
<1>4. CASE UNCHANGED Board!boardVars
  BY <1>4 DEF Board!boardVars, Board!OneOpenTask, Board!Open, Board!KeepsTakenAndClosed, ExchangeOf
<1>. QED
  BY <1>1, <1>2, <1>3, <1>4 DEF Board!BoardNext, Board!KeepsTakenAndClosed

\* A queue that implements the board never hands an exchange out twice at a
\* time, and what is taken keeps its taker and what is closed its result.
THEOREM BoardKeepsItsPromise ==
    Board!BoardSpec => []Board!OneOpenTask /\ Board!TakenAndClosedOnce
<1>1. BoardInv /\ [Board!BoardNext]_(Board!boardVars) => BoardInv'
  BY BoardInvStep
<1>2. BoardInv /\ [Board!BoardNext]_(Board!boardVars) =>
        [Board!KeepsTakenAndClosed]_(Board!boardVars)
  BY BoardInvStep
<1>3. BoardInv => Board!OneOpenTask
  BY DEF BoardInv
<1>. QED
  BY <1>1, <1>2, <1>3, BoardInvInit, PTL DEF Board!BoardSpec, Board!TakenAndClosedOnce
=============================================================================
