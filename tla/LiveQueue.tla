------------------------------ MODULE LiveQueue ------------------------------
(***************************************************************************)
(* The live ingestion queue of fundingpulse/ingestion/live: the table      *)
(* ingestion_task, the scheduler process that fills it once a minute, and  *)
(* the worker processes that claim, execute and finalize its rows.         *)
(*                                                                         *)
(* Time is an integer clock shared by all processes.  Transactions are     *)
(* PostgreSQL READ COMMITTED transactions: a statement sees what is        *)
(* committed when it starts, an UPDATE holds its rows until the            *)
(* transaction ends, and what a transaction wrote appears when it commits. *)
(***************************************************************************)
EXTENDS Naturals

CONSTANTS
    Exchanges,        \* exchanges the scheduler is configured with
    Adapters,         \* exchanges the workers have a live adapter for
    Listed,           \* exchanges that have an active contract
    Schedulers,       \* processes that run the enqueue job (one, as deployed)
    Workers,          \* live worker processes, identified by worker_id
    NoWorker, NoKey,  \* the NULL of a worker_id, and of a worker's own task
    Minute,           \* length of a UTC minute bucket
    TaskTimeout,      \* task_timeout of the workers and of the enqueuer
    Grace,            \* stale_running_grace
    EnqueueTimeout,   \* enqueue_timeout
    ClaimDelay,       \* longest time from reading claimed_at to the claim's commit
    Horizon           \* bound of the clock

ASSUME TimingAssumption ==
    /\ Minute \in Nat \ {0}
    /\ TaskTimeout \in Nat /\ Grace \in Nat /\ EnqueueTimeout \in Nat
    /\ ClaimDelay \in Nat /\ Horizon \in Nat

ASSUME NullAssumption == NoWorker \notin Workers

VARIABLES
    now,
    \* columns of ingestion_task, committed values; a row that was never
    \* inserted has the status "absent"
    status, created, claimed, owner, failure,
    snapshots,        \* how many live snapshots were committed for the task
    \* the enqueue job of each scheduler
    stage,            \* where its transaction is
    at,               \* tick.now
    fired,            \* the minute of its latest cron run
    staled,           \* rows its UPDATE marked stale (locked until it ends)
    busy,             \* the exchanges it read as active
    \* each worker process
    pc, cur,
    clock,            \* claimed_at while claiming, start of the timeout while collecting
    outcome           \* what it is about to record: "done" or an error type

rowVars == <<status, created, claimed, owner, failure>>
schedulerVars == <<stage, at, fired, staled, busy>>
workerVars == <<pc, cur, clock, outcome>>
vars == <<now, rowVars, snapshots, schedulerVars, workerVars>>

Times == 0..Horizon
StartOfMinute(t) == t - (t % Minute)
Minutes == {StartOfMinute(t) : t \in Times}

\* A task key is "live_funding_snapshot:{exchange}:{scheduled_for}".
Keys == Exchanges \X Minutes

Active == {"pending", "running"}
Terminal == {"done", "failed"}
Statuses == {"absent"} \cup Active \cup Terminal
Failures == {"none", "stale_running_task", "task_timeout", "error"}

\* Fault: pending tasks are not counted as active work.
FaultyActiveExchanges(st) == {k[1] : k \in {j \in Keys : st[j] = "running"}}

ActiveExchanges(st) == {k[1] : k \in {j \in Keys : st[j] \in Active}}

TypeOK ==
    /\ now \in Times
    /\ status \in [Keys -> Statuses]
    /\ created \in [Keys -> Times]
    /\ claimed \in [Keys -> Times]
    /\ owner \in [Keys -> Workers \cup {NoWorker}]
    /\ failure \in [Keys -> Failures]
    /\ snapshots \in [Keys -> Nat]
    /\ stage \in [Schedulers -> {"idle", "mark", "read", "insert"}]
    /\ at \in [Schedulers -> Times]
    /\ fired \in [Schedulers -> Minutes \cup {NoKey}]
    /\ staled \in [Schedulers -> SUBSET Keys]
    /\ busy \in [Schedulers -> SUBSET Exchanges]
    /\ pc \in [Workers -> {"idle", "claiming", "collecting", "finishing", "down"}]
    /\ cur \in [Workers -> Keys \cup {NoKey}]
    /\ clock \in [Workers -> Times]
    /\ outcome \in [Workers -> {"none", "done", "task_timeout", "error"}]
    /\ \A w \in Workers : pc[w] \in {"claiming", "collecting", "finishing"} => cur[w] \in Keys

Init ==
    /\ now = 0
    /\ status = [k \in Keys |-> "absent"]
    /\ created = [k \in Keys |-> 0]
    /\ claimed = [k \in Keys |-> 0]
    /\ owner = [k \in Keys |-> NoWorker]
    /\ failure = [k \in Keys |-> "none"]
    /\ snapshots = [k \in Keys |-> 0]
    /\ stage = [s \in Schedulers |-> "idle"]
    /\ at = [s \in Schedulers |-> 0]
    /\ fired = [s \in Schedulers |-> NoKey]
    /\ staled = [s \in Schedulers |-> {}]
    /\ busy = [s \in Schedulers |-> {}]
    /\ pc = [w \in Workers |-> "idle"]
    /\ cur = [w \in Workers |-> NoKey]
    /\ clock = [w \in Workers |-> 0]
    /\ outcome = [w \in Workers |-> "none"]

-----------------------------------------------------------------------------
(* The enqueue job: one transaction per minute and scheduler.              *)

\* The cron trigger fires once per minute bucket, possibly late in it
\* (misfire_grace_time, coalesce), and never while the previous run of this
\* scheduler is going on (max_instances).
TickStart(s) ==
    /\ stage[s] = "idle"
    /\ fired[s] # StartOfMinute(now)
    /\ stage' = [stage EXCEPT ![s] = "mark"]
    /\ at' = [at EXCEPT ![s] = now]
    /\ fired' = [fired EXCEPT ![s] = StartOfMinute(now)]
    /\ UNCHANGED <<now, rowVars, snapshots, staled, busy, workerVars>>

\* Faults: the grace period is forgotten; the age of the task is counted from
\* its creation instead of its claim.
StaleWithoutGrace(t) == {k \in Keys : status[k] = "running" /\ claimed[k] + TaskTimeout < t}
StaleByCreation(t) ==
    {k \in Keys : status[k] = "running" /\ created[k] + TaskTimeout + Grace < t}

\* The rows the stale UPDATE matches at instant t: claimed_at < stale_before.
Stale(t) == {k \in Keys : status[k] = "running" /\ claimed[k] + TaskTimeout + Grace < t}

\* mark_stale_running_live_tasks_failed.  A row another enqueuer has already
\* marked is locked: the statement waits for that transaction to end.
MarkStale(s) ==
    /\ stage[s] = "mark"
    /\ \A o \in Schedulers \ {s} : Stale(at[s]) \cap staled[o] = {}
    /\ staled' = [staled EXCEPT ![s] = Stale(at[s])]
    /\ stage' = [stage EXCEPT ![s] = "read"]
    /\ UNCHANGED <<now, rowVars, snapshots, at, fired, busy, workerVars>>

\* get_active_live_task_exchanges: committed rows, and its own stale marks.
ReadActive(s) ==
    /\ stage[s] = "read"
    /\ busy' = [busy EXCEPT ![s] =
            ActiveExchanges([k \in Keys |-> IF k \in staled[s] THEN "failed" ELSE status[k]])]
    /\ stage' = [stage EXCEPT ![s] = "insert"]
    /\ UNCHANGED <<now, rowVars, snapshots, at, fired, staled, workerVars>>

\* The keys the loop over the exchanges inserts: an exchange with active work
\* is skipped, an existing key is a duplicate (ON CONFLICT DO NOTHING).
Opened(s) ==
    {k \in Keys : /\ k[2] = StartOfMinute(at[s])
                  /\ k[1] \notin busy[s]
                  /\ status[k] = "absent"}

\* The inserts and the commit.  Nobody reads an uncommitted insert, and one
\* that meets another enqueuer's uncommitted key waits for it, so the loop and
\* the commit are one step.
EnqueueCommit(s) ==
    /\ stage[s] = "insert"
    /\ status' = [k \in Keys |-> IF k \in Opened(s) THEN "pending"
                                 ELSE IF k \in staled[s] THEN "failed" ELSE status[k]]
    /\ created' = [k \in Keys |-> IF k \in Opened(s) THEN now ELSE created[k]]
    /\ failure' = [k \in Keys |-> IF k \in staled[s] THEN "stale_running_task" ELSE failure[k]]
    /\ stage' = [stage EXCEPT ![s] = "idle"]
    /\ staled' = [staled EXCEPT ![s] = {}]
    /\ busy' = [busy EXCEPT ![s] = {}]
    /\ UNCHANGED <<now, claimed, owner, snapshots, at, fired, workerVars>>

\* enqueue_timeout, a database error or the death of the process: the
\* transaction rolls back, and the next attempt is the next minute's.
TickFail(s) ==
    /\ stage[s] # "idle"
    /\ stage' = [stage EXCEPT ![s] = "idle"]
    /\ staled' = [staled EXCEPT ![s] = {}]
    /\ busy' = [busy EXCEPT ![s] = {}]
    /\ UNCHANGED <<now, rowVars, snapshots, at, fired, workerVars>>

-----------------------------------------------------------------------------
(* A worker: claim, execute under a timeout, finalize.                     *)

LockedByClaim(k) == \E w \in Workers : pc[w] = "claiming" /\ cur[w] = k
LockedByTick(k) == \E s \in Schedulers : k \in staled[s]

\* Fault: the claim's SELECT takes no row lock.
ClaimableUnlocked == {k \in Keys : status[k] = "pending"}

\* The pending rows no other claim holds (FOR UPDATE SKIP LOCKED).
Claimable == {k \in Keys : status[k] = "pending" /\ ~LockedByClaim(k)}

\* Fault: the worker goes on when there is no task to claim.
ClaimLockUnchecked(w) ==
    /\ pc[w] = "idle"
    /\ Claimable = {}
    /\ pc' = [pc EXCEPT ![w] = "claiming"]
    /\ UNCHANGED <<now, rowVars, snapshots, schedulerVars, cur, clock, outcome>>

\* get_next_pending_live_task, and the assignment of claimed_at: the oldest
\* pending row (rows of one instant are in an order of their own, task_key).
ClaimLock(w) ==
    /\ pc[w] = "idle"
    /\ \E k \in Claimable :
          /\ \A j \in Claimable : created[k] <= created[j]
          /\ cur' = [cur EXCEPT ![w] = k]
    /\ clock' = [clock EXCEPT ![w] = now]
    /\ pc' = [pc EXCEPT ![w] = "claiming"]
    /\ UNCHANGED <<now, rowVars, snapshots, schedulerVars, outcome>>

\* The claim is committed; the adapter is resolved before the timeout starts,
\* and an exchange without one goes straight to the failed finalization.
ClaimCommit(w) ==
    LET k == cur[w] IN
    /\ pc[w] = "claiming"
    /\ status' = [status EXCEPT ![k] = "running"]
    /\ claimed' = [claimed EXCEPT ![k] = clock[w]]
    /\ owner' = [owner EXCEPT ![k] = w]
    /\ failure' = [failure EXCEPT ![k] = "none"]
    /\ clock' = [clock EXCEPT ![w] = now]
    /\ \/ /\ k[1] \in Adapters
          /\ pc' = [pc EXCEPT ![w] = "collecting"]
          /\ UNCHANGED outcome
       \/ /\ k[1] \notin Adapters
          /\ pc' = [pc EXCEPT ![w] = "finishing"]
          /\ outcome' = [outcome EXCEPT ![w] = "error"]
    /\ UNCHANGED <<now, created, snapshots, schedulerVars, cur>>

\* The worker has let go of its task.
Release(w, to) ==
    /\ pc' = [pc EXCEPT ![w] = to]
    /\ cur' = [cur EXCEPT ![w] = NoKey]
    /\ clock' = [clock EXCEPT ![w] = 0]
    /\ outcome' = [outcome EXCEPT ![w] = "none"]

\* The claim transaction fails: the row stays pending, the loop goes on.
ClaimFail(w) ==
    /\ pc[w] = "claiming"
    /\ Release(w, "idle")
    /\ UNCHANGED <<now, rowVars, snapshots, schedulerVars>>

\* The worker leaves the execution block with a result to record.
Conclude(w, result) ==
    /\ pc[w] = "collecting"
    /\ pc' = [pc EXCEPT ![w] = "finishing"]
    /\ outcome' = [outcome EXCEPT ![w] = result]
    /\ UNCHANGED <<now, rowVars, schedulerVars, cur, clock>>

\* collect_live stores nothing: no contract is active, or fetch_live answered no
\* point at all, as an adapter does that skips every symbol it could not read.
CollectNothing(w) == Conclude(w, "done") /\ UNCHANGED snapshots

\* The transaction of the live points commits.
Persist(w) ==
    /\ cur[w][1] \in Listed
    /\ snapshots' = [snapshots EXCEPT ![cur[w]] = @ + 1]

\* fetch_live returned and the points are stored.
CollectPersist(w) == Conclude(w, "done") /\ Persist(w)

\* An exception of the adapter or of the database; a commit whose answer was
\* lost raises as well, with the points stored.
CollectFail(w) ==
    /\ Conclude(w, "error")
    /\ (UNCHANGED snapshots) \/ Persist(w)

\* asyncio.timeout(task_timeout) expired, possibly with the points committed.
CollectTimeout(w) ==
    /\ now >= clock[w] + TaskTimeout
    /\ Conclude(w, "task_timeout")
    /\ (UNCHANGED snapshots) \/ Persist(w)

\* Fault: the finalizing UPDATE checks the worker_id and not the status.
FinalizeUnguarded(w) ==
    LET k == cur[w] IN
    /\ pc[w] = "finishing"
    /\ ~LockedByTick(k)
    /\ status' = [status EXCEPT ![k] = IF outcome[w] = "done" THEN "done" ELSE "failed"]
    /\ failure' = [failure EXCEPT ![k] = IF outcome[w] = "done" THEN "none" ELSE outcome[w]]
    /\ Release(w, "idle")
    /\ UNCHANGED <<now, created, claimed, owner, snapshots, schedulerVars>>

\* mark_live_task_done / mark_live_task_failed: an UPDATE guarded by the status
\* and the worker_id, which waits for an enqueuer that has marked the row.
\* When it matches no row the worker raises, and its loop goes on.
Finalize(w) ==
    LET k == cur[w] IN
    /\ pc[w] = "finishing"
    /\ ~LockedByTick(k)
    /\ \/ /\ status[k] = "running" /\ owner[k] = w
          /\ status' = [status EXCEPT ![k] = IF outcome[w] = "done" THEN "done" ELSE "failed"]
          /\ failure' = [failure EXCEPT ![k] = IF outcome[w] = "done" THEN "none" ELSE outcome[w]]
       \/ /\ ~(status[k] = "running" /\ owner[k] = w)
          /\ UNCHANGED <<status, failure>>
    /\ Release(w, "idle")
    /\ UNCHANGED <<now, created, claimed, owner, snapshots, schedulerVars>>

\* The finalizing transaction fails: the row stays running, the loop goes on.
FinalizeFail(w) ==
    /\ pc[w] = "finishing"
    /\ Release(w, "idle")
    /\ UNCHANGED <<now, rowVars, snapshots, schedulerVars>>

\* The process dies or is cancelled (CancelledError is no Exception): nothing
\* is finalized, an open transaction rolls back.
Crash(w) ==
    /\ pc[w] # "down"
    /\ Release(w, "down")
    /\ UNCHANGED <<now, rowVars, snapshots, schedulerVars>>

\* supervisord starts it again; with --worker-id it has the same worker_id.
Restart(w) ==
    /\ pc[w] = "down"
    /\ Release(w, "idle")
    /\ UNCHANGED <<now, rowVars, snapshots, schedulerVars>>

-----------------------------------------------------------------------------
\* Time passes, but not beyond a timeout that has to fire first: the enqueue
\* timeout, the task timeout, and the assumed bound of a claim.
Advance ==
    /\ now < Horizon
    /\ \A s \in Schedulers : stage[s] # "idle" => now < at[s] + EnqueueTimeout
    /\ \A w \in Workers : /\ pc[w] = "claiming" => now < clock[w] + ClaimDelay
                          /\ pc[w] = "collecting" => now < clock[w] + TaskTimeout
    /\ now' = now + 1
    /\ UNCHANGED <<rowVars, snapshots, schedulerVars, workerVars>>

SchedulerStep(s) ==
    TickStart(s) \/ MarkStale(s) \/ ReadActive(s) \/ EnqueueCommit(s) \/ TickFail(s)

WorkerStep(w) ==
    \/ ClaimLock(w) \/ ClaimCommit(w) \/ ClaimFail(w)
    \/ CollectNothing(w) \/ CollectPersist(w) \/ CollectFail(w) \/ CollectTimeout(w)
    \/ Finalize(w) \/ FinalizeFail(w)
    \/ Crash(w) \/ Restart(w)

Next ==
    \/ \E s \in Schedulers : SchedulerStep(s)
    \/ \E w \in Workers : WorkerStep(w)
    \/ Advance

Spec == Init /\ [][Next]_vars

-----------------------------------------------------------------------------
(* What it implements.                                                     *)

ExchangeOf(k) == k[1]

Board == INSTANCE LiveTaskBoard WITH
            Tasks <- Keys, Takers <- Workers, Nobody <- NoWorker,
            board <- status, taker <- owner

\* With one scheduler the queue implements the task board: every step of the
\* enqueue job and of the workers is a step of the board or leaves it alone.
ImplementsBoard == Board!BoardSpec

-----------------------------------------------------------------------------
(* Properties.                                                             *)

\* An exchange never has two tasks pending or running, whatever the ticks,
\* the late finalizations and the stale marks (the non-overlap rule that
\* enqueue_live_funding_tick enforces by check and insert, with no constraint
\* in the database).
NoOverlap ==
    \A j, k \in Keys :
        status[j] \in Active /\ status[k] \in Active /\ j[1] = k[1] => j = k

\* A worker inside its execution block still owns a running task: the stale
\* mark of mark_stale_running_live_tasks_failed never hits work in progress.
CollectingIsRunning ==
    \A w \in Workers :
        pc[w] = "collecting" => status[cur[w]] = "running" /\ owner[cur[w]] = w

\* Two workers never fetch and write live rates of the same exchange at the
\* same time: the queue serialises an exchange although workers are universal.
OneCollectorPerExchange ==
    \A v, w \in Workers :
        pc[v] = "collecting" /\ pc[w] = "collecting" /\ cur[v][1] = cur[w][1] => v = w

\* A task stores at most one live snapshot and none before it is claimed,
\* whichever workers race for it, time out, lose the answer to a commit, die or
\* come back (get_next_pending_live_task, execute_one_live_task).  It may store
\* none and still be recorded done.
StoredAtMostOnce ==
    \A k \in Keys :
        /\ snapshots[k] <= 1
        /\ status[k] \in {"absent", "pending"} => snapshots[k] = 0

\* A row that is done or failed never changes again: a late finalization, a
\* duplicate tick or a restarted worker cannot reopen or relabel it.
TerminalIsFinal ==
    [][\A k \in Keys : status[k] \in Terminal =>
            status'[k] = status[k] /\ failure'[k] = failure[k] /\ owner'[k] = owner[k]]_vars

-----------------------------------------------------------------------------
(* The inductive strengthenings behind the properties (LiveQueueProofs).   *)

\* A worker that has locked a pending row is the only one, and its claim is
\* not older than ClaimDelay.
ClaimInv ==
    /\ \A w \in Workers : pc[w] = "claiming" =>
          status[cur[w]] = "pending" /\ clock[w] <= now /\ now <= clock[w] + ClaimDelay
    /\ \A v, w \in Workers :
          pc[v] = "claiming" /\ pc[w] = "claiming" /\ cur[v] = cur[w] => v = w

\* A row marked stale by an open enqueue transaction stays running until it
\* ends, and no other enqueuer has marked it.
StaledInv ==
    /\ \A s \in Schedulers, k \in Keys : k \in staled[s] =>
          status[k] = "running" /\ stage[s] \in {"read", "insert"}
    /\ \A s, o \in Schedulers, k \in Keys : k \in staled[s] /\ k \in staled[o] => s = o

\* A worker with a task was the one to claim it, for good.
OwnerInv ==
    \A w \in Workers : pc[w] \in {"collecting", "finishing"} =>
        owner[cur[w]] = w /\ status[cur[w]] \in {"running", "failed"}

\* What the clocks say: a collecting worker is within TaskTimeout of its
\* commit, which is within ClaimDelay of claimed_at, and what is marked stale
\* is older than both together.
TimeInv ==
    /\ CollectingIsRunning
    /\ \A w \in Workers : pc[w] = "collecting" =>
          now <= clock[w] + TaskTimeout /\ clock[w] <= claimed[cur[w]] + ClaimDelay
    /\ \A s \in Schedulers : at[s] <= now
    /\ \A s \in Schedulers, k \in Keys : k \in staled[s] =>
          claimed[k] + TaskTimeout + Grace < at[s]

\* An exchange an open enqueue transaction takes for free has no active task
\* but those the transaction itself has marked.
OverlapInv ==
    /\ NoOverlap
    /\ \A s \in Schedulers, k \in Keys :
          stage[s] = "insert" /\ status[k] \in Active /\ k[1] \notin busy[s] => k \in staled[s]

\* A worker has stored nothing while it collects.
SnapshotInv ==
    /\ StoredAtMostOnce
    /\ \A w \in Workers : pc[w] = "collecting" => snapshots[cur[w]] = 0
=============================================================================
