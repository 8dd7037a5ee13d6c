-------------------------- MODULE LiveRecoveryProofs --------------------------
(***************************************************************************)
(* Theorems about LiveRecovery, for any exchanges, workers and timeouts.   *)
(* What is eventually to happen stays with TLC; what is proved here is the *)
(* ground it stands on, that an exchange has one active task and the task  *)
(* one owner.  It needs that a worker which still owns a task keeps its    *)
(* exchange running (OwnedInv): the claim of a pending task then cannot    *)
(* meet another owner of it.                                               *)
(***************************************************************************)
EXTENDS LiveRecovery, FiniteSetTheorems, SequenceTheorems, TLAPS

OwnedInv ==
    \A w \in Workers : mine[w] => cur[w] \in Exchanges /\ Running(cur[w])

\* A worker that is past its claim and not down holds a task.
HeldInv ==
    \A w \in Workers : pc[w] \in {"collecting", "finishing"} => cur[w] \in Exchanges

QueueInv ==
    /\ \A i \in 1..Len(queue) : queue[i] \in Exchanges /\ ~Running(queue[i])
    /\ \A i, j \in 1..Len(queue) : queue[i] = queue[j] => i = j

SoleOwnerInv == \A v, w \in Workers : mine[v] /\ mine[w] /\ cur[v] = cur[w] => v = w

RecoveryInv == TypeOK /\ OwnedInv /\ HeldInv /\ QueueInv /\ SoleOwnerInv

-----------------------------------------------------------------------------
(* Sequences. *)

LEMMA SetToSeqLists ==
    ASSUME NEW S, IsFiniteSet(S)
    PROVE  /\ SetToSeq(S) \in Seq(S)
           /\ \A i, j \in 1..Len(SetToSeq(S)) : SetToSeq(S)[i] = SetToSeq(S)[j] => i = j
<1> DEFINE n == Cardinality(S)
<1>1. n \in Nat /\ ExistsBijection(1..n, S)
    BY FS_CardinalityType
<1>2. \E f \in [1..n -> S] : IsInjective(f)
    BY <1>1 DEF ExistsBijection, Bijection, Injection
<1>3. SetToSeq(S) \in [1..n -> S] /\ IsInjective(SetToSeq(S))
    BY <1>2 DEF SetToSeq
<1> QED
    BY <1>1, <1>3 DEF IsInjective

LEMMA FirstRemoved ==
    ASSUME NEW S, NEW q \in Seq(S), q # <<>>
    PROVE  /\ RemoveAt(q, 1) \in Seq(S)
           /\ Len(RemoveAt(q, 1)) = Len(q) - 1
           /\ \A i \in 1..(Len(q) - 1) : RemoveAt(q, 1)[i] = q[i + 1]
<1> DEFINE n == Len(q)
           a == SubSeq(q, 1, 0)
           b == SubSeq(q, 2, n)
<1>1. n \in Nat \ {0} /\ \A i \in 1..n : q[i] \in S
    OBVIOUS
<1>2. RemoveAt(q, 1) = a \o b
    BY DEF RemoveAt
<1>3. a \in Seq(S) /\ Len(a) = 0
    BY <1>1, SubSeqProperties
<1> HIDE DEF n
<1>4. n = 1 \/ n >= 2
    BY <1>1
<1>5. /\ b \in Seq(S) /\ Len(b) = n - 1
      /\ \A i \in 1..(n - 1) : b[i] = q[i + 1]
  <2>1. /\ b \in Seq(S) /\ Len(b) = (IF 2 <= n THEN n - 2 + 1 ELSE 0)
        /\ \A i \in 1..(n - 2 + 1) : b[i] = q[2 + i - 1]
    BY <1>1, SubSeqProperties
  <2> HIDE DEF b
  <2>2. Len(b) = n - 1
    BY <1>1, <1>4, <2>1
  <2>3. ASSUME NEW i \in 1..(n - 1)
        PROVE  b[i] = q[i + 1]
    <3>1. i \in 1..(n - 2 + 1) /\ 2 + i - 1 = i + 1
      BY <1>1
    <3> QED
      BY <2>1, <3>1
  <2> QED
    BY <2>1, <2>2, <2>3
<1>6. /\ a \o b \in Seq(S) /\ Len(a \o b) = Len(a) + Len(b)
      /\ \A i \in 1..(Len(a) + Len(b)) : (a \o b)[i] = IF i <= Len(a) THEN a[i] ELSE b[i - Len(a)]
    BY <1>3, <1>5, ConcatProperties
<1> HIDE DEF a, b
<1>7. Len(a \o b) = n - 1 /\ \A i \in 1..(n - 1) : (a \o b)[i] = b[i]
    BY <1>1, <1>3, <1>5, <1>6
<1> QED
    BY <1>2, <1>5, <1>6, <1>7 DEF n

-----------------------------------------------------------------------------
(* The invariant. *)

LEMMA RecoveryInvInit == Init => RecoveryInv
<1> SUFFICES ASSUME Init
             PROVE  RecoveryInv
    OBVIOUS
<1>1. TypeOK
  <2>1. phase \in 0..(Minute - 1)
      BY RecoveryAssumption DEF RecoveryAssumption, Init
  <2>2. queue \in Seq(Exchanges)
      BY DEF Init
  <2> QED
      BY <2>1, <2>2 DEF Init, TypeOK
<1>2. OwnedInv /\ HeldInv /\ SoleOwnerInv
    BY DEF Init, OwnedInv, HeldInv, SoleOwnerInv
<1>3. QueueInv
    BY DEF Init, QueueInv
<1> QED
    BY <1>1, <1>2, <1>3 DEF RecoveryInv

LEMMA EnqueueTickKeepsRecoveryInv == RecoveryInv /\ EnqueueTick => RecoveryInv'
<1> SUFFICES ASSUME RecoveryInv, EnqueueTick
             PROVE  RecoveryInv'
    OBVIOUS
<1> USE RecoveryAssumption DEF RecoveryAssumption, RecoveryInv
<1> DEFINE new == SetToSeq(FreeExchanges)
<1>1. /\ FreeExchanges \in SUBSET Exchanges
      /\ \A e \in FreeExchanges : ~Pending(e) /\ (Running(e) => e \in StaleExchanges)
    BY DEF FreeExchanges
<1>2. /\ new \in Seq(FreeExchanges)
      /\ \A i, j \in 1..Len(new) : new[i] = new[j] => i = j
    BY <1>1, FS_Subset, SetToSeqLists
<1>3. /\ queue \in Seq(Exchanges) /\ new \in Seq(Exchanges)
      /\ Len(queue) \in Nat /\ Len(new) \in Nat
      /\ \A i \in 1..Len(new) : new[i] \in FreeExchanges
    BY <1>1, <1>2 DEF TypeOK
<1>4. /\ queue' = queue \o new
      /\ queue' \in Seq(Exchanges) /\ Len(queue') = Len(queue) + Len(new)
      /\ \A i \in 1..Len(queue') :
           queue'[i] = IF i <= Len(queue) THEN queue[i] ELSE new[i - Len(queue)]
    BY <1>3, ConcatProperties DEF EnqueueTick
<1>5. /\ age' = [e \in Exchanges |-> IF e \in StaleExchanges THEN Nothing ELSE age[e]]
      /\ mine' = [w \in Workers |-> mine[w] /\ cur[w] \notin StaleExchanges]
      /\ UNCHANGED <<phase, pc, cur>> /\ ticked' = TRUE
    BY DEF EnqueueTick
<1>6. TypeOK'
    BY <1>4, <1>5 DEF TypeOK
<1>7. OwnedInv' /\ HeldInv' /\ SoleOwnerInv'
    BY <1>5 DEF OwnedInv, HeldInv, SoleOwnerInv, Running, TypeOK
<1>8. \A i \in 1..Len(queue), e \in FreeExchanges : queue[i] # e
    BY <1>1, <1>3 DEF Pending, Range
<1>9. \A i \in 1..Len(queue') :
        /\ i <= Len(queue) => i \in 1..Len(queue) /\ queue'[i] = queue[i]
        /\ i > Len(queue) => /\ i - Len(queue) \in 1..Len(new)
                             /\ queue'[i] = new[i - Len(queue)]
                             /\ queue'[i] \in FreeExchanges
    BY <1>3, <1>4
<1>10. Len(queue') \in Nat
    BY <1>3, <1>4
<1>11. QueueInv'
  <2>1. ASSUME NEW i \in 1..Len(queue')
        PROVE  queue'[i] \in Exchanges /\ age'[queue'[i]] = Nothing
    <3>1. CASE i <= Len(queue)
        BY <1>5, <1>9, <3>1 DEF QueueInv, Running
    <3>2. CASE i > Len(queue)
        BY <1>1, <1>5, <1>9, <3>2 DEF Running
    <3> QED
        BY <1>3, <1>10, <3>1, <3>2
  <2>2. ASSUME NEW i \in 1..Len(queue'), NEW j \in 1..Len(queue'), queue'[i] = queue'[j]
        PROVE  i = j
    <3>1. CASE i <= Len(queue) /\ j <= Len(queue)
        BY <1>9, <2>2, <3>1 DEF QueueInv
    <3>2. CASE i > Len(queue) /\ j > Len(queue)
      <4>1. i - Len(queue) = j - Len(queue)
          BY <1>2, <1>9, <2>2, <3>2
      <4> QED
          BY <1>3, <1>10, <4>1
    <3>3. CASE i <= Len(queue) /\ j > Len(queue)
        BY <1>8, <1>9, <2>2, <3>3
    <3>4. CASE i > Len(queue) /\ j <= Len(queue)
        BY <1>8, <1>9, <2>2, <3>4
    <3> QED
        BY <1>3, <1>10, <3>1, <3>2, <3>3, <3>4
  <2> QED
      BY <2>1, <2>2 DEF QueueInv, Running
<1> QED
    BY <1>6, <1>7, <1>11

LEMMA ClaimKeepsRecoveryInv ==
    ASSUME RecoveryInv, NEW w \in Workers, Claim(w)
    PROVE  RecoveryInv'
<1> USE RecoveryAssumption DEF RecoveryAssumption, RecoveryInv
<1> DEFINE e == queue[1]
<1>1. queue \in Seq(Exchanges) /\ Len(queue) \in Nat /\ Len(queue) >= 1
    BY DEF TypeOK, Claim
<1>2. e \in Exchanges /\ ~Running(e)
    BY <1>1 DEF QueueInv
<1>3. /\ pc[w] = "idle" /\ pc' = [pc EXCEPT ![w] = "collecting"]
      /\ cur' = [cur EXCEPT ![w] = e] /\ mine' = [mine EXCEPT ![w] = TRUE]
      /\ age' = [age EXCEPT ![e] = 0] /\ queue' = RemoveAt(queue, 1)
      /\ UNCHANGED <<phase, ticked>>
    BY DEF Claim, NextPending
<1>4. /\ queue' \in Seq(Exchanges) /\ Len(queue') = Len(queue) - 1
      /\ \A i \in 1..Len(queue') : queue'[i] = queue[i + 1]
  <2>1. queue # <<>>
      BY DEF Claim
  <2> QED
      BY <1>1, <1>3, <2>1, FirstRemoved
<1>5. TypeOK'
    BY <1>2, <1>3, <1>4 DEF TypeOK, Oldest
<1>6. OwnedInv' /\ HeldInv'
    BY <1>2, <1>3 DEF OwnedInv, HeldInv, Running, TypeOK
<1>7. SoleOwnerInv'
    BY <1>2, <1>3 DEF SoleOwnerInv, OwnedInv, Running, TypeOK
<1>8. \A i \in 1..Len(queue') : i + 1 \in 1..Len(queue) /\ queue'[i] # e
    BY <1>1, <1>4 DEF QueueInv
<1>9. QueueInv'
    BY <1>1, <1>3, <1>4, <1>8, SMTT(30) DEF QueueInv, Running, TypeOK
<1> QED
    BY <1>5, <1>6, <1>7, <1>9

\* A worker lets its task go, which ends it or leaves it to the enqueuer.
LEMMA LetGoKeepsRecoveryInv ==
    ASSUME RecoveryInv, NEW w \in Workers, NEW to \in {"idle", "down"}, LetGo(w, to),
           \/ UNCHANGED age
           \/ cur[w] \in Exchanges /\ mine[w] /\ age' = [age EXCEPT ![cur[w]] = Nothing]
    PROVE  RecoveryInv'
<1> USE RecoveryAssumption DEF RecoveryAssumption, RecoveryInv, LetGo
<1>1. TypeOK'
    BY DEF TypeOK
<1>2. HeldInv' /\ SoleOwnerInv'
    BY DEF HeldInv, SoleOwnerInv, TypeOK
<1>3. OwnedInv'
    BY DEF OwnedInv, SoleOwnerInv, Running, TypeOK
<1>4. QueueInv'
    BY DEF QueueInv, Running, TypeOK
<1> QED
    BY <1>1, <1>2, <1>3, <1>4

LEMMA AdvanceKeepsRecoveryInv == RecoveryInv /\ Advance => RecoveryInv'
<1> SUFFICES ASSUME RecoveryInv, Advance
             PROVE  RecoveryInv'
    OBVIOUS
<1> USE RecoveryAssumption DEF RecoveryAssumption, RecoveryInv, Advance, workerVars
<1>1. \A e \in Exchanges : Running(e)' <=> Running(e)
    BY DEF Running, TypeOK, Oldest
<1>2. TypeOK'
    BY DEF TypeOK, Oldest, Running
<1>3. OwnedInv' /\ HeldInv' /\ SoleOwnerInv' /\ QueueInv'
    BY <1>1 DEF OwnedInv, HeldInv, SoleOwnerInv, QueueInv, Running
<1> QED
    BY <1>2, <1>3

LEMMA RecoveryInvStep == RecoveryInv /\ [Next]_vars => RecoveryInv'
<1> SUFFICES ASSUME RecoveryInv, [Next]_vars
             PROVE  RecoveryInv'
    OBVIOUS
<1> USE DEF RecoveryInv
<1>1. CASE EnqueueTick
    BY <1>1, EnqueueTickKeepsRecoveryInv
<1>2. CASE MissTick
    BY <1>2 DEF MissTick, workerVars, TypeOK, OwnedInv, HeldInv, QueueInv, SoleOwnerInv, Running
<1>3. CASE Advance
    BY <1>3, AdvanceKeepsRecoveryInv
<1>4. ASSUME NEW w \in Workers, Claim(w) PROVE RecoveryInv'
    BY <1>4, ClaimKeepsRecoveryInv
<1>5. ASSUME NEW w \in Workers, Conclude(w) PROVE RecoveryInv'
    BY <1>5 DEF Conclude, TypeOK, OwnedInv, HeldInv, QueueInv, SoleOwnerInv, Running
<1>6. ASSUME NEW w \in Workers, Finalize(w) PROVE RecoveryInv'
  <2>1. cur[w] \in Exchanges
      BY <1>6 DEF Finalize, HeldInv
  <2>2. mine[w] => age' = [age EXCEPT ![cur[w]] = Nothing]
      BY <1>6 DEF Finalize
  <2>3. ~mine[w] => UNCHANGED age
      BY <1>6 DEF Finalize
  <2>4. LetGo(w, "idle")
      BY <1>6 DEF Finalize
  <2>5. \/ UNCHANGED age
        \/ cur[w] \in Exchanges /\ mine[w] /\ age' = [age EXCEPT ![cur[w]] = Nothing]
      BY <2>1, <2>2, <2>3
  <2> QED
      BY <2>4, <2>5, LetGoKeepsRecoveryInv
<1>7. ASSUME NEW w \in Workers, FinalizeFail(w) \/ Crash(w) \/ Restart(w) PROVE RecoveryInv'
    BY <1>7, LetGoKeepsRecoveryInv DEF FinalizeFail, Crash, Restart
<1>8. CASE UNCHANGED vars
    BY <1>8 DEF vars, workerVars, TypeOK, OwnedInv, HeldInv, QueueInv, SoleOwnerInv, Running
<1> QED
    BY <1>1, <1>2, <1>3, <1>4, <1>5, <1>6, <1>7, <1>8 DEF Next

\* The variables have their types: in particular the queue holds exchanges
\* only, and no age passes the stale threshold unnoticed.
THEOREM RecoveryTypeCorrect == Spec => []TypeOK
<1>1. RecoveryInv => TypeOK
    BY DEF RecoveryInv
<1> QED
    BY <1>1, RecoveryInvInit, RecoveryInvStep, PTL DEF Spec

\* Through ticks that give tasks up, finalizations that come late, crashes and
\* restarts, an exchange is pending once or running, never both, and of the
\* workers that have held its task one at most still owns it.
THEOREM ExchangesHaveOneActiveTask == Spec => []OneActiveTask
<1>1. RecoveryInv => OneActiveTask
  <2> SUFFICES ASSUME RecoveryInv
               PROVE  OneActiveTask
      OBVIOUS
  <2>1. DOMAIN queue = 1..Len(queue)
      BY DEF RecoveryInv, TypeOK
  <2>2. \A e \in Exchanges : ~(Pending(e) /\ Running(e))
      BY <2>1 DEF RecoveryInv, QueueInv, Pending, Range
  <2>3. \A i, j \in DOMAIN queue : queue[i] = queue[j] => i = j
      BY <2>1 DEF RecoveryInv, QueueInv
  <2>4. \A v, w \in Workers : mine[v] /\ mine[w] /\ cur[v] = cur[w] => v = w
      BY DEF RecoveryInv, SoleOwnerInv
  <2> QED
      BY <2>2, <2>3, <2>4 DEF OneActiveTask
<1> QED
    BY <1>1, RecoveryInvInit, RecoveryInvStep, PTL DEF Spec
=============================================================================
