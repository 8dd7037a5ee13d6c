---------------------------- MODULE LiveTaskBoard ----------------------------
(***************************************************************************)
(* What the live queue promises, without clocks, transactions or timeouts: *)
(* a board of tasks, one per exchange and minute, each posted at most      *)
(* once, taken at most once and closed at most once, with at most one open *)
(* task per exchange.  LiveQueue implements it when one scheduler runs.    *)
(***************************************************************************)
CONSTANTS Tasks, ExchangeOf(_), Takers, Nobody

VARIABLES
    board,      \* "absent", "pending", "running", "done" or "failed"
    taker       \* who took the task

boardVars == <<board, taker>>

Open(b) == {t \in Tasks : b[t] \in {"pending", "running"}}

BoardInit ==
    /\ board = [t \in Tasks |-> "absent"]
    /\ taker = [t \in Tasks |-> Nobody]

\* One tick: tasks given up on are closed as failed, then new ones are posted,
\* at most one per exchange and none for an exchange that is still open.
Tick(expired, posted) ==
    /\ \A t \in expired : board[t] = "running"
    /\ \A t \in posted : /\ board[t] = "absent"
                         /\ \A u \in (Open(board) \ expired) \cup posted :
                               ExchangeOf(u) = ExchangeOf(t) => u = t
    /\ board' = [t \in Tasks |-> IF t \in posted THEN "pending"
                                 ELSE IF t \in expired THEN "failed" ELSE board[t]]
    /\ UNCHANGED taker

Take(t, p) ==
    /\ board[t] = "pending"
    /\ board' = [board EXCEPT ![t] = "running"]
    /\ taker' = [taker EXCEPT ![t] = p]

Close(t, result) ==
    /\ board[t] = "running"
    /\ board' = [board EXCEPT ![t] = result]
    /\ UNCHANGED taker

BoardNext ==
    \/ \E expired, posted \in SUBSET Tasks : Tick(expired, posted)
    \/ \E t \in Tasks, p \in Takers : Take(t, p)
    \/ \E t \in Tasks, result \in {"done", "failed"} : Close(t, result)

BoardSpec == BoardInit /\ [][BoardNext]_boardVars

\* What this amounts to: an exchange is never handed out twice at a time, ...
OneOpenTask == \A t, u \in Open(board) : ExchangeOf(t) = ExchangeOf(u) => t = u

\* ... and a task that has been taken has one taker and one result for good.
KeepsTakenAndClosed ==
    \A t \in Tasks :
       /\ board[t] \in {"done", "failed"} => board'[t] = board[t]
       /\ board[t] \in {"running", "done", "failed"} => taker'[t] = taker[t]

TakenAndClosedOnce == [][KeepsTakenAndClosed]_boardVars
=============================================================================
