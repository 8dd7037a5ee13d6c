---------------------------- MODULE LiveRecovery ----------------------------
(***************************************************************************)
(* What must eventually happen in the live queue: tasks of dead workers    *)
(* are given up, every exchange is scheduled again, and no pending task is *)
(* starved.  LiveQueue counts absolute minutes and so has to stop its      *)
(* clock; here time is relative (the phase of the minute and the age of    *)
(* each claim) and runs for ever.  One scheduler: an exchange has one      *)
(* active task (LiveQueue's NoOverlap), so the table is seen through the   *)
(* exchanges.  Transactions are single steps here; LiveQueue splits them.  *)
(***************************************************************************)
EXTENDS Naturals, FiniteSets, Sequences, SequencesExt

CONSTANTS Exchanges, Workers, Nothing, Minute, TaskTimeout, Grace

ASSUME RecoveryAssumption ==
    /\ Minute \in Nat \ {0} /\ TaskTimeout \in Nat /\ Grace \in Nat
    /\ IsFiniteSet(Exchanges) /\ Nothing \notin Nat

VARIABLES
    phase,      \* how far the current minute is
    ticked,     \* this minute's tick has run or was missed
    queue,      \* the exchanges with a pending task, in the order of created_at
    age,        \* age of claimed_at of an exchange's running task, Nothing if it has none
    pc,         \* "idle", "collecting", "finishing" or "down"
    cur,        \* the exchange whose task the worker executes
    mine        \* that task is still running, with this worker's id

workerVars == <<pc, cur, mine>>
vars == <<phase, ticked, queue, age, workerVars>>

\* Ages beyond the stale threshold are all alike.
Oldest == TaskTimeout + Grace + 1

TypeOK ==
    /\ phase \in 0..(Minute - 1)
    /\ ticked \in BOOLEAN
    /\ queue \in Seq(Exchanges)
    /\ age \in [Exchanges -> (0..Oldest) \cup {Nothing}]
    /\ pc \in [Workers -> {"idle", "collecting", "finishing", "down"}]
    /\ cur \in [Workers -> Exchanges \cup {Nothing}]
    /\ mine \in [Workers -> BOOLEAN]

Init ==
    /\ phase = 0 /\ ticked = FALSE /\ queue = <<>>
    /\ age = [e \in Exchanges |-> Nothing]
    /\ pc = [w \in Workers |-> "idle"]
    /\ cur = [w \in Workers |-> Nothing]
    /\ mine = [w \in Workers |-> FALSE]

Pending(e) == e \in Range(queue)
Running(e) == age[e] # Nothing

\* Fault: the stale threshold is never reached.
NeverStale == {}

\* claimed_at < now - task_timeout - stale_running_grace
StaleExchanges == {e \in Exchanges : Running(e) /\ age[e] > TaskTimeout + Grace}

\* Fault: a pending task is not active work.
FreeIgnoringPending == {e \in Exchanges : Running(e) => e \in StaleExchanges}

\* Fault: the exchanges freed by the stale marks of this tick are rescheduled,
\* those whose task ended on its own are not.
FreeOnlyStale == StaleExchanges

\* The exchanges without active work once the stale tasks are failed.
FreeExchanges == {e \in Exchanges : ~Pending(e) /\ (Running(e) => e \in StaleExchanges)}

\* One committed tick: stale tasks fail, then free exchanges get a new task.
EnqueueTick ==
    /\ ~ticked
    /\ ticked' = TRUE
    /\ queue' = queue \o SetToSeq(FreeExchanges)
    /\ age' = [e \in Exchanges |-> IF e \in StaleExchanges THEN Nothing ELSE age[e]]
    /\ mine' = [w \in Workers |-> mine[w] /\ cur[w] \notin StaleExchanges]
    /\ UNCHANGED <<phase, pc, cur>>

\* A tick that timed out, failed or never fired.
MissTick ==
    /\ ~ticked
    /\ ticked' = TRUE
    /\ UNCHANGED <<phase, queue, age, workerVars>>

\* Fault: the newest pending task is claimed first.
NextPendingNewest == Len(queue)

\* Which of the pending tasks a claim takes: the oldest.
NextPending == 1

Claim(w) ==
    /\ pc[w] = "idle" /\ queue # <<>>
    /\ pc' = [pc EXCEPT ![w] = "collecting"]
    /\ cur' = [cur EXCEPT ![w] = queue[NextPending]]
    /\ mine' = [mine EXCEPT ![w] = TRUE]
    /\ age' = [age EXCEPT ![queue[NextPending]] = 0]
    /\ queue' = RemoveAt(queue, NextPending)
    /\ UNCHANGED <<phase, ticked>>

\* The execution block ends, in time or because the timeout expired.
Conclude(w) ==
    /\ pc[w] = "collecting"
    /\ pc' = [pc EXCEPT ![w] = "finishing"]
    /\ UNCHANGED <<phase, ticked, queue, age, cur, mine>>

Timeout(w) == Conclude(w) /\ age[cur[w]] >= TaskTimeout

LetGo(w, to) ==
    /\ pc' = [pc EXCEPT ![w] = to]
    /\ cur' = [cur EXCEPT ![w] = Nothing]
    /\ mine' = [mine EXCEPT ![w] = FALSE]
    /\ UNCHANGED <<phase, ticked, queue>>

\* The guarded UPDATE: it ends the task if it is still this worker's.
Finalize(w) ==
    /\ pc[w] = "finishing"
    /\ age' = IF mine[w] THEN [age EXCEPT ![cur[w]] = Nothing] ELSE age
    /\ LetGo(w, "idle")

FinalizeFail(w) == pc[w] = "finishing" /\ LetGo(w, "idle") /\ UNCHANGED age
Crash(w) == pc[w] # "down" /\ LetGo(w, "down") /\ UNCHANGED age
Restart(w) == pc[w] = "down" /\ LetGo(w, "idle") /\ UNCHANGED age

\* Time passes unless a task timeout is due.
Advance ==
    /\ \A w \in Workers : pc[w] = "collecting" => age[cur[w]] < TaskTimeout
    /\ phase' = (phase + 1) % Minute
    /\ ticked' = (ticked /\ phase' # 0)
    /\ age' = [e \in Exchanges |-> IF Running(e) /\ age[e] < Oldest THEN age[e] + 1 ELSE age[e]]
    /\ UNCHANGED <<queue, workerVars>>

Next ==
    \/ EnqueueTick \/ MissTick \/ Advance
    \/ \E w \in Workers :
          \/ Claim(w) \/ Conclude(w) \/ Finalize(w) \/ FinalizeFail(w) \/ Crash(w) \/ Restart(w)

\* Time passes, timers fire, and of the infinitely many ticks infinitely many
\* commit: the scheduler is a cron job that is restarted when it dies.
ClockFairness ==
    /\ WF_vars(Advance)
    /\ \A w \in Workers : WF_vars(Timeout(w))
    /\ SF_vars(EnqueueTick)

\* supervisord restarts workers, and a worker that polls again and again
\* claims at last and ends its finalization, one way or the other.
WorkerFairness ==
    \A w \in Workers : /\ WF_vars(Restart(w))
                       /\ SF_vars(Claim(w))
                       /\ WF_vars(Finalize(w) \/ FinalizeFail(w))

Spec == Init /\ [][Next]_vars /\ ClockFairness

\* A running task never stays active for ever, even if every worker is dead
\* or crashes whenever it holds a task: the enqueuer's stale marks alone
\* release the exchange.
RunningEnds == \A e \in Exchanges : Running(e) ~> ~Running(e)

\* A pending task is claimed at last, however busy the other exchanges keep
\* the workers, if these are restarted and poll on (ORDER BY created_at in
\* get_next_pending_live_task).
PendingIsClaimed == WorkerFairness => \A e \in Exchanges : Pending(e) ~> Running(e)

\* Every exchange gets a new task again and again, whatever became of the
\* earlier ones, if workers are restarted (a failed execution does not change
\* the schedule).
AlwaysRescheduled == WorkerFairness => \A e \in Exchanges : []<>Pending(e)

\* An exchange is never both pending and running, and a worker that still
\* owns its task is the only one to own it.
OneActiveTask ==
    /\ \A e \in Exchanges : ~(Pending(e) /\ Running(e))
    /\ \A i, j \in DOMAIN queue : queue[i] = queue[j] => i = j
    /\ \A v, w \in Workers : mine[v] /\ mine[w] /\ cur[v] = cur[w] => v = w
=============================================================================
