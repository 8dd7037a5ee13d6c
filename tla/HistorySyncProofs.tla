-------------------------- MODULE HistorySyncProofs --------------------------
(***************************************************************************)
(* Proofs about HistorySync, for every settlement calendar, page size and  *)
(* horizon.                                                                *)
(*                                                                         *)
(* TypeOK, BoundsMatchStored and ProgressIsMonotone need nothing of the    *)
(* exchange or its driver.  NoHole needs pages that reach the point they   *)
(* were asked to end at (WholePages) and are not cut at an error           *)
(* (PagesNotCut); HistoryComplete and the ledger need errors that are      *)
(* raised (ErrorsRaised) and a calendar without a pause longer than a page *)
(* (SteadySettlement).                                                     *)
(***************************************************************************)
EXTENDS HistorySync, FiniteSetTheorems, WellFoundedInduction, TLAPS

(* A window of Step hours holds no more points than a page, the rule by which
   an adapter's _FETCH_STEP is to be chosen, and a longer window is answered
   from its oldest end.  A window reaches at least one hour back. *)
WholePages ==
  /\ PageStyle = "oldest_first"
  /\ Step >= 2
  /\ \A e \in 0..Horizon :
       Cardinality({p \in Settled : e + 1 - Step <= p /\ p <= e}) <= Limit

(* The driver raises an error that it is answered. *)
ErrorsRaised == Errors = "raised"

(* The driver does not take a part of a page for the whole. *)
PagesNotCut == Errors \in {"raised", "empty"}

(* Two successive settlements are never further apart than a page reaches. *)
SteadySettlement ==
  \A p \in Settled :
    (\E r \in Settled : r < p) => \E q \in Settled : p - Step <= q /\ q < p

-----------------------------------------------------------------------------
(* The inductive invariant, in named parts. *)

(* Nothing from the future is stored or answered, and a run is at most one
   hour old. *)
ClockInv ==
  /\ stored \subseteq 1..now /\ bPage \subseteq 1..now /\ uPage \subseteq 1..now
  /\ bpc # "idle" => bSince <= now /\ now <= bSince + 1
  /\ upc # "idle" => uSince <= now /\ now <= uSince + 1

(* The checkpoint row's bounds are stored points with all others between. *)
BoundsInv ==
  /\ oldest = None <=> stored = {}
  /\ newest = None <=> stored = {}
  /\ oldest # None => oldest \in stored /\ \A x \in stored : oldest <= x
  /\ newest # None => newest \in stored /\ \A x \in stored : x <= newest
  /\ bBefore # None => bBefore \in stored /\ bpc # "idle"
  /\ synced => stored # {}

(* The page in hand is this window, or an error that was read as an empty page. *)
IsPage(window) == bPage = window \/ (bPage = {} /\ ~ErrorsRaised)

(* An answered backward page is its whole window or an error, and a point that a run
   without a bound has already passed by is not below what the update stored
   meanwhile. *)
BackfillInv ==
  /\ bpc # "answered" => bPage = {}
  /\ (bpc = "answered" /\ bBefore # None) =>
       IsPage({p \in Settled : bBefore - Step <= p /\ p < bBefore})
  /\ (bpc = "answered" /\ bBefore = None) =>
       \E f \in bSince..now : IsPage({p \in Settled : f + 1 - Step <= p /\ p <= f})
  /\ (bpc # "idle" /\ bBefore = None /\ oldest # None) =>
       /\ newest >= bSince - 1
       /\ \A p \in Settled : ~(bSince < p /\ p < oldest)

(* What an update is to fetch starts where the stored points end, however old
   its reading of the bound is, and its page has no gap. *)
UpdateInv ==
  /\ upc # "answered" => uPage = {}
  /\ upc # "idle" =>
       /\ uAfter <= now
       /\ oldest = None => uAfter = uSince - 1
       /\ oldest # None => /\ oldest <= uAfter \/ uAfter = uSince - 1
                           /\ \A p \in Settled : ~(newest < p /\ p <= uAfter)
  /\ upc = "answered" =>
       \A x \in uPage : /\ uAfter < x
                        /\ \A p \in Settled : (uAfter < p /\ p <= x) => p \in uPage

(* Below the oldest bound of a synced contract nothing settled. *)
SyncedInv == synced => \A p \in Settled : oldest <= p

-----------------------------------------------------------------------------
(* Least and greatest elements, and pages. *)

(* A set of hours that is not empty has a least element, which MinOf returns:
   the element with the smallest set of others below it. *)
LEMMA MinOfHours ==
  ASSUME NEW S \in SUBSET Hours, S # {}
  PROVE  MinOf(S) \in S /\ \A y \in S : MinOf(S) <= y
<1>. DEFINE Below(x) == {q \in S : q < x}
            B == {Below(x) : x \in S}
<1>1. S \subseteq Int /\ IsFiniteSet(Hours)
  BY GridAssumption, FS_Interval DEF Hours
<1>2. B \subseteq FiniteSubsetsOf(Hours) /\ B # {}
  <2>1. \A x \in S : Below(x) \in FiniteSubsetsOf(Hours)
    BY <1>1, FS_Subset DEF FiniteSubsetsOf
  <2>. QED  BY <2>1
<1>3. PICK b \in B : \A c \in B : ~(<<c, b>> \in StrictSubsetOrdering(Hours))
  <2>. HIDE DEF B
  <2>. QED  BY <1>2, FS_StrictSubsetOrderingWellFounded, WFMin
<1>4. PICK x \in S : b = Below(x)
  OBVIOUS
<1>5. \A y \in S : x <= y
  <2>. SUFFICES ASSUME NEW y \in S, y < x PROVE FALSE
    BY <1>1
  <2>1. Below(y) \subseteq Below(x) /\ Below(y) # Below(x)
    <3>1. y \in Below(x) /\ y \notin Below(y)
      BY <1>1
    <3>2. ASSUME NEW q \in Below(y) PROVE q \in Below(x)
      <4>1. q \in S /\ q < y
        OBVIOUS
      <4>. QED  BY <1>1, <4>1
    <3>. HIDE DEF Below
    <3>. QED  BY <3>1, <3>2
  <2>2. <<Below(y), Below(x)>> \in StrictSubsetOrdering(Hours)
    BY <2>1 DEF StrictSubsetOrdering
  <2>. QED
    BY <1>3, <1>4, <2>2
<1>. QED
  BY <1>5 DEF MinOf

(* The greatest element, by the least of the distances to the horizon. *)
LEMMA MaxOfHours ==
  ASSUME NEW S \in SUBSET Hours, S # {}
  PROVE  MaxOf(S) \in S /\ \A y \in S : MaxOf(S) >= y
<1>. DEFINE D == {Horizon + 1 - y : y \in S}
<1>1. \A y \in S : y \in Int /\ 1 <= y /\ y <= Horizon
  BY GridAssumption DEF Hours
<1>2. D \in SUBSET Hours /\ D # {}
  <2>1. \A y \in S : Horizon + 1 - y \in Hours
    BY <1>1, GridAssumption DEF Hours
  <2>. QED  BY <2>1
<1>3. MinOf(D) \in D /\ \A e \in D : MinOf(D) <= e
  <2>. HIDE DEF D
  <2>. QED  BY <1>2, MinOfHours
<1>4. PICK x \in S : MinOf(D) = Horizon + 1 - x
  BY <1>3
<1>5. \A y \in S : x >= y
  <2>. SUFFICES ASSUME NEW y \in S PROVE x >= y
    OBVIOUS
  <2>1. Horizon + 1 - y \in D
    OBVIOUS
  <2>2. Horizon + 1 - x <= Horizon + 1 - y
    BY <1>3, <1>4, <2>1
  <2>. QED
    BY <1>1, <2>2, GridAssumption
<1>. QED
  BY <1>5 DEF MaxOf

(* A page is a part of the window it answers. *)
LEMMA PageInWindow ==
  ASSUME NEW W PROVE Page(W) \subseteq W
BY DEF Page

(* Any part of the settled hours is finite. *)
LEMMA SettledIsFinite ==
  ASSUME NEW W, W \subseteq Settled
  PROVE  IsFiniteSet(W)
BY GridAssumption, FS_Subset

(* A page that keeps the oldest points of its window has no gap. *)
LEMMA OldestFirstPageIsClosed ==
  ASSUME PageStyle = "oldest_first",
         NEW W, W \subseteq Settled, NEW x \in Page(W), NEW p \in W, p <= x
  PROVE  p \in Page(W)
<1>. DEFINE Below(y) == {q \in W : q < y}
<1>1. W \subseteq Int
  BY GridAssumption
<1>2. x \in W /\ Cardinality(Below(x)) < Limit
  BY DEF Page
<1>3. Below(p) \subseteq Below(x)
  <2>. SUFFICES ASSUME NEW q \in W, q < p PROVE q < x
    OBVIOUS
  <2>1. x \in W
    BY <1>2
  <2>. QED  BY <1>1, <2>1
<1>4. IsFiniteSet(Below(x)) /\ IsFiniteSet(Below(p))
  <2>1. Below(x) \subseteq Settled /\ Below(p) \subseteq Settled
    OBVIOUS
  <2>. HIDE DEF Below
  <2>. QED  BY <2>1, SettledIsFinite
<1>5. Cardinality(Below(p)) \in Nat /\ Cardinality(Below(x)) \in Nat
  <2>. HIDE DEF Below
  <2>. QED  BY <1>4, FS_CardinalityType
<1>6. Cardinality(Below(p)) <= Cardinality(Below(x))
  <2>. HIDE DEF Below
  <2>. QED  BY <1>3, <1>4, FS_Subset
<1>7. Cardinality(Below(p)) < Limit
  <2>. HIDE DEF Below
  <2>. QED  BY <1>2, <1>5, <1>6, PagingAssumption
<1>. QED
  BY <1>7 DEF Page

(* A window that holds no more points than a page is answered whole. *)
LEMMA ShortWindowIsWhole ==
  ASSUME PageStyle = "oldest_first",
         NEW W, W \subseteq Settled, Cardinality(W) <= Limit
  PROVE  Page(W) = W
<1>. SUFFICES ASSUME NEW p \in W PROVE p \in Page(W)
  BY DEF Page
<1>. DEFINE Below == {q \in W : q < p}
<1>1. IsFiniteSet(W)
  BY SettledIsFinite
<1>2. Below \in SUBSET W /\ Below # W
  <2>1. p \notin Below
    BY GridAssumption
  <2>. QED  BY <2>1
<1>3. IsFiniteSet(Below) /\ Cardinality(Below) <= Cardinality(W)
      /\ Cardinality(Below) # Cardinality(W)
  <2>. HIDE DEF Below
  <2>. QED  BY <1>1, <1>2, FS_Subset
<1>4. Cardinality(Below) \in Nat /\ Cardinality(W) \in Nat
  <2>. HIDE DEF Below
  <2>. QED  BY <1>1, <1>3, FS_CardinalityType
<1>5. Cardinality(Below) < Limit
  <2>. HIDE DEF Below
  <2>. QED  BY <1>3, <1>4, PagingAssumption
<1>. QED
  BY <1>5 DEF Page

-----------------------------------------------------------------------------
(* The checkpoint row: types, clock and bounds, whatever the exchange does. *)

CheckpointInv == TypeOK /\ ClockInv /\ BoundsInv

(* The hours are positive numbers, and None is not one of them. *)
LEMMA HourFacts ==
  /\ Start \in Nat /\ Start >= 1 /\ Horizon \in Nat /\ Step \in Nat /\ Step >= 1
  /\ Hours \subseteq Nat /\ Settled \subseteq Hours /\ None \notin Hours /\ None = 0
  /\ \A x \in Hours : 1 <= x /\ x <= Horizon
BY GridAssumption, PagingAssumption DEF Hours, None

(* What the exchange answers settled, and not in the future. *)
LEMMA AnswersAreSettled ==
  ASSUME TypeOK
  PROVE  /\ \A b \in Hours \cup {None} :
              HistoryBefore(b) \subseteq Settled /\ HistoryBefore(b) \subseteq 1..now
         /\ \A a \in 0..Horizon :
              HistoryAfter(a) \subseteq Settled /\ HistoryAfter(a) \subseteq 1..now
<1>1. \A p \in Settled : p <= now => p \in 1..now
  BY GridAssumption DEF TypeOK
<1>2. \A f, l : Between(f, l) \subseteq Settled /\ Between(f, l) \subseteq 1..now
  BY <1>1 DEF Between
<1>. QED
  BY <1>2, PageInWindow DEF HistoryBefore, HistoryAfter

(* What a job is given is of the page that it asked for, and unless pages are
   cut, the page or nothing. *)
LEMMA AnswersAreOfThePage ==
  ASSUME NEW page, NEW given \in Answers(page)
  PROVE  /\ given \subseteq page
         /\ PagesNotCut => given = page \/ (given = {} /\ ~ErrorsRaised)
BY PagingAssumption DEF Answers, PagesNotCut, ErrorsRaised

(* Committing a batch leaves the least and the greatest of all stored points
   in the row. *)
LEMMA PersistKeepsBounds ==
  ASSUME TypeOK, BoundsInv, NEW batch, batch \subseteq Settled, batch # {},
         Persist(batch)
  PROVE  /\ stored' = stored \cup batch /\ synced' = synced
         /\ oldest' \in stored' /\ \A x \in stored' : oldest' <= x
         /\ newest' \in stored' /\ \A x \in stored' : x <= newest'
         /\ oldest' \in Hours /\ newest' \in Hours
         /\ oldest' # None /\ newest' # None
<1>1. batch \subseteq Hours /\ stored \subseteq Hours
  BY HourFacts DEF TypeOK
<1>0. /\ batch \subseteq Int /\ stored \subseteq Int
      /\ oldest \in Int /\ newest \in Int
  BY GridAssumption DEF TypeOK, Hours, None
<1>2. MinOf(batch) \in batch /\ \A y \in batch : MinOf(batch) <= y
  BY <1>1, MinOfHours
<1>3. MaxOf(batch) \in batch /\ \A y \in batch : MaxOf(batch) >= y
  BY <1>1, MaxOfHours
<1>. DEFINE lo == MinOf(batch)
            hi == MaxOf(batch)
<1>8. /\ lo \in batch /\ lo \in Int /\ \A y \in batch : lo <= y
      /\ hi \in batch /\ hi \in Int /\ \A y \in batch : hi >= y
  BY <1>0, <1>2, <1>3
<1>. HIDE DEF lo, hi
<1>4. stored' = stored \cup batch /\ synced' = synced
  BY DEF Persist
<1>5. oldest' \in stored' /\ \A x \in stored' : oldest' <= x
  <2>1. CASE oldest = None
    <3>1. oldest' = MinOf(batch) /\ stored = {}
      BY <2>1 DEF Persist, MergeBounds, BoundsInv
    <3>. QED  BY <1>2, <1>4, <3>1
  <2>2. CASE oldest # None /\ lo < oldest
    <3>1. oldest' = lo
      BY <2>2 DEF Persist, MergeBounds, lo
    <3>2. \A x \in stored : oldest <= x
      BY <2>2 DEF BoundsInv
    <3>3. \A x \in stored : lo <= x
      BY <1>0, <1>8, <2>2, <3>2
    <3>. QED  BY <1>4, <1>8, <3>1, <3>3
  <2>3. CASE oldest # None /\ ~(lo < oldest)
    <3>1. oldest' = oldest
      BY <2>3 DEF Persist, MergeBounds, lo
    <3>2. oldest \in stored /\ \A x \in stored : oldest <= x
      BY <2>3 DEF BoundsInv
    <3>3. \A x \in batch : oldest <= x
      BY <1>0, <1>8, <2>3
    <3>. QED  BY <1>4, <3>1, <3>2, <3>3
  <2>. QED  BY <2>1, <2>2, <2>3
<1>6. newest' \in stored' /\ \A x \in stored' : x <= newest'
  <2>1. CASE newest = None
    <3>1. newest' = hi /\ stored = {}
      BY <2>1 DEF Persist, MergeBounds, BoundsInv, hi
    <3>2. \A y \in batch : y <= hi
      BY <1>0, <1>8
    <3>. QED  BY <1>4, <1>8, <3>1, <3>2
  <2>2. CASE newest # None /\ hi > newest
    <3>1. newest' = hi
      BY <2>2 DEF Persist, MergeBounds, hi
    <3>2. \A x \in stored : x <= newest
      BY <2>2 DEF BoundsInv
    <3>3. \A x \in stored \cup batch : x <= hi
      BY <1>0, <1>8, <2>2, <3>2
    <3>. QED  BY <1>4, <1>8, <3>1, <3>3
  <2>3. CASE newest # None /\ ~(hi > newest)
    <3>1. newest' = newest
      BY <2>3 DEF Persist, MergeBounds, hi
    <3>2. newest \in stored /\ \A x \in stored : x <= newest
      BY <2>3 DEF BoundsInv
    <3>3. \A x \in batch : x <= newest
      BY <1>0, <1>8, <2>3
    <3>. QED  BY <1>4, <3>1, <3>2, <3>3
  <2>. QED  BY <2>1, <2>2, <2>3
<1>. QED
  BY <1>1, <1>4, <1>5, <1>6, HourFacts

(* The empty checkpoint row is consistent. *)
THEOREM CheckpointInit == Init => CheckpointInv
<1>. SUFFICES ASSUME Init PROVE CheckpointInv
  OBVIOUS
<1>1. TypeOK
  <2>1. Start \in Start..Horizon /\ 0 \in 0..Horizon
    BY GridAssumption
  <2>. QED  BY <2>1 DEF Init, TypeOK, None
<1>2. ClockInv /\ BoundsInv
  BY DEF Init, ClockInv, BoundsInv
<1>. QED
  BY <1>1, <1>2 DEF CheckpointInv

(* Every step of either job, a crash, a relisting or the clock keeps the
   checkpoint row consistent with what is stored and with the jobs' readings. *)
THEOREM CheckpointStep == CheckpointInv /\ [Next]_vars => CheckpointInv'
<1>. SUFFICES ASSUME CheckpointInv, [Next]_vars PROVE CheckpointInv'
  OBVIOUS
<1>. USE HourFacts DEF CheckpointInv
<1>1. CASE BackfillStart
  <2>1. TypeOK'
    BY <1>1 DEF BackfillStart, TypeOK, state, update
  <2>2. ClockInv'
    BY <1>1 DEF BackfillStart, TypeOK, ClockInv, state, update
  <2>3. BoundsInv'
    BY <1>1 DEF BackfillStart, TypeOK, BoundsInv, state, update
  <2>. QED  BY <2>1, <2>2, <2>3
<1>2. CASE BackfillFetch
  <2>1. bPage' \subseteq Settled /\ bPage' \subseteq 1..now
    BY <1>2, AnswersAreSettled, AnswersAreOfThePage DEF BackfillFetch, TypeOK
  <2>2. TypeOK'
    BY <1>2, <2>1 DEF BackfillFetch, TypeOK, state, update
  <2>3. ClockInv'
    BY <1>2, <2>1 DEF BackfillFetch, ClockInv, state, update
  <2>4. BoundsInv'
    BY <1>2 DEF BackfillFetch, BoundsInv, state, update
  <2>. QED  BY <2>2, <2>3, <2>4
<1>3. CASE BackfillPersist
  <2>1. bPage \subseteq Settled /\ bPage # {} /\ Persist(bPage)
    BY <1>3 DEF BackfillPersist, TypeOK
  <2>2. MinOf(bPage) \in bPage
    BY <2>1, MinOfHours
  <2>3. /\ stored' = stored \cup bPage /\ synced' = synced
        /\ oldest' \in stored' /\ \A x \in stored' : oldest' <= x
        /\ newest' \in stored' /\ \A x \in stored' : x <= newest'
        /\ oldest' \in Hours /\ newest' \in Hours /\ oldest' # None /\ newest' # None
    BY <2>1, PersistKeepsBounds
  <2>4. TypeOK'
    BY <1>3, <2>1, <2>2, <2>3 DEF BackfillPersist, TypeOK, update
  <2>5. ClockInv'
    BY <1>3, <2>1, <2>3 DEF BackfillPersist, ClockInv, update
  <2>6. BoundsInv'
    BY <1>3, <2>1, <2>2, <2>3 DEF BackfillPersist, BoundsInv
  <2>. QED  BY <2>4, <2>5, <2>6
<1>4. CASE BackfillEnd
  <2>1. TypeOK'
    BY <1>4 DEF BackfillEnd, TypeOK, update
  <2>2. ClockInv'
    BY <1>4 DEF BackfillEnd, ClockInv, update
  <2>3. BoundsInv'
    BY <1>4 DEF BackfillEnd, BoundsInv, update
  <2>. QED  BY <2>1, <2>2, <2>3
<1>5. CASE BackfillAbort
  <2>1. TypeOK'
    BY <1>5 DEF BackfillAbort, TypeOK, state, update
  <2>2. ClockInv'
    BY <1>5 DEF BackfillAbort, ClockInv, state, update
  <2>3. BoundsInv'
    BY <1>5 DEF BackfillAbort, BoundsInv, state, update
  <2>. QED  BY <2>1, <2>2, <2>3
<1>6. CASE UpdateStart
  <2>1. NextFetch \in 0..Horizon
    BY DEF NextFetch, TypeOK
  <2>2. TypeOK'
    BY <1>6, <2>1 DEF UpdateStart, TypeOK, state, backfill
  <2>3. ClockInv'
    BY <1>6 DEF UpdateStart, ClockInv, TypeOK, state, backfill
  <2>4. BoundsInv'
    BY <1>6 DEF UpdateStart, BoundsInv, state, backfill
  <2>. QED  BY <2>2, <2>3, <2>4
<1>7. CASE UpdateFetch
  <2>1. uPage' \subseteq Settled /\ uPage' \subseteq 1..now
    BY <1>7, AnswersAreSettled, AnswersAreOfThePage DEF UpdateFetch, TypeOK
  <2>2. TypeOK'
    BY <1>7, <2>1 DEF UpdateFetch, TypeOK, state, backfill
  <2>3. ClockInv'
    BY <1>7, <2>1 DEF UpdateFetch, ClockInv, state, backfill
  <2>4. BoundsInv'
    BY <1>7 DEF UpdateFetch, BoundsInv, state, backfill
  <2>. QED  BY <2>2, <2>3, <2>4
<1>8. CASE UpdatePersist /\ uPage = {}
  <2>1. TypeOK'
    <3>1. UNCHANGED <<now, active, state, uSince, backfill>>
      BY <1>8 DEF UpdatePersist
    <3>2. upc' = "idle" /\ uAfter' = 0 /\ uPage' = {}
      BY <1>8 DEF UpdatePersist
    <3>3. 0 \in 0..Horizon
      OBVIOUS
    <3>. QED  BY <3>1, <3>2, <3>3 DEF TypeOK, state, backfill
  <2>2. ClockInv'
    BY <1>8 DEF UpdatePersist, ClockInv, state, backfill
  <2>3. BoundsInv'
    BY <1>8 DEF UpdatePersist, BoundsInv, state, backfill
  <2>. QED  BY <2>1, <2>2, <2>3
<1>9. CASE UpdatePersist /\ uPage # {}
  <2>1. uPage \subseteq Settled /\ Persist(uPage)
    BY <1>9 DEF UpdatePersist, TypeOK
  <2>2. /\ stored' = stored \cup uPage /\ synced' = synced
        /\ oldest' \in stored' /\ \A x \in stored' : oldest' <= x
        /\ newest' \in stored' /\ \A x \in stored' : x <= newest'
        /\ oldest' \in Hours /\ newest' \in Hours /\ oldest' # None /\ newest' # None
    BY <1>9, <2>1, PersistKeepsBounds
  <2>3. TypeOK'
    BY <1>9, <2>1, <2>2 DEF UpdatePersist, TypeOK, backfill
  <2>4. ClockInv'
    BY <1>9, <2>1, <2>2 DEF UpdatePersist, ClockInv, backfill
  <2>5. BoundsInv'
    BY <1>9, <2>2 DEF UpdatePersist, BoundsInv, backfill
  <2>. QED  BY <2>3, <2>4, <2>5
<1>10. CASE UpdateAbort
  <2>1. TypeOK'
    BY <1>10 DEF UpdateAbort, TypeOK, state, backfill
  <2>2. ClockInv'
    BY <1>10 DEF UpdateAbort, ClockInv, state, backfill
  <2>3. BoundsInv'
    BY <1>10 DEF UpdateAbort, BoundsInv, state, backfill
  <2>. QED  BY <2>1, <2>2, <2>3
<1>11. CASE Crash
  <2>1. TypeOK'
    BY <1>11 DEF Crash, TypeOK, state
  <2>2. ClockInv'
    BY <1>11 DEF Crash, ClockInv, state
  <2>3. BoundsInv'
    BY <1>11 DEF Crash, BoundsInv, state
  <2>. QED  BY <2>1, <2>2, <2>3
<1>12. CASE Relist
  <2>1. TypeOK'
    BY <1>12 DEF Relist, TypeOK, state, backfill, update
  <2>2. ClockInv' /\ BoundsInv'
    BY <1>12 DEF Relist, ClockInv, BoundsInv, state, backfill, update
  <2>. QED  BY <2>1, <2>2
<1>13. CASE Advance
  <2>1. TypeOK'
    BY <1>13 DEF Advance, TypeOK, state, backfill, update
  <2>2. ClockInv'
    BY <1>13 DEF Advance, TypeOK, ClockInv, state, backfill, update
  <2>3. BoundsInv'
    BY <1>13 DEF Advance, BoundsInv, state, backfill, update
  <2>. QED  BY <2>1, <2>2, <2>3
<1>14. CASE UNCHANGED vars
  <2>1. TypeOK'
    BY <1>14 DEF vars, TypeOK, state, backfill, update
  <2>2. ClockInv' /\ BoundsInv'
    BY <1>14 DEF vars, ClockInv, BoundsInv, state, backfill, update
  <2>. QED  BY <2>1, <2>2
<1>. QED
  BY <1>1, <1>2, <1>3, <1>4, <1>5, <1>6, <1>7, <1>8, <1>9, <1>10, <1>11, <1>12,
     <1>13, <1>14 DEF Next, BackfillStep, UpdateStep

(* The checkpoint row is always consistent. *)
THEOREM Checkpoint == Spec => []CheckpointInv
BY CheckpointInit, CheckpointStep, PTL DEF Spec

(* Every variable keeps its type. *)
THEOREM TypeCorrect == Spec => []TypeOK
<1>1. CheckpointInv => TypeOK
  BY DEF CheckpointInv
<1>. QED
  BY <1>1, Checkpoint, PTL

(* The row's bounds are the oldest and the newest stored point. *)
THEOREM BoundsAreExact == Spec => []BoundsMatchStored
<1>1. CheckpointInv => BoundsMatchStored
  <2>. SUFFICES ASSUME CheckpointInv PROVE BoundsMatchStored
    OBVIOUS
  <2>1. stored # {} => oldest = MinOf(stored) /\ newest = MaxOf(stored)
    <3>. SUFFICES ASSUME stored # {} PROVE oldest = MinOf(stored) /\ newest = MaxOf(stored)
      OBVIOUS
    <3>1. stored \in SUBSET Hours
      BY HourFacts DEF CheckpointInv, TypeOK
    <3>2. MinOf(stored) \in stored /\ \A y \in stored : MinOf(stored) <= y
      BY <3>1, MinOfHours
    <3>3. MaxOf(stored) \in stored /\ \A y \in stored : MaxOf(stored) >= y
      BY <3>1, MaxOfHours
    <3>4. /\ oldest \in stored /\ \A x \in stored : oldest <= x
          /\ newest \in stored /\ \A x \in stored : x <= newest
      BY DEF CheckpointInv, BoundsInv
    <3>. DEFINE lo == MinOf(stored)
                hi == MaxOf(stored)
    <3>5. stored \subseteq Int
      BY <3>1, HourFacts
    <3>6. lo \in stored /\ oldest <= lo /\ lo <= oldest
      BY <3>2, <3>4
    <3>7. hi \in stored /\ newest <= hi /\ hi >= newest
      BY <3>3, <3>4
    <3>. HIDE DEF lo, hi
    <3>8. oldest = lo
      BY <3>4, <3>5, <3>6
    <3>9. newest = hi
      BY <3>4, <3>5, <3>7
    <3>. QED  BY <3>8, <3>9 DEF lo, hi
  <2>. QED
    BY <2>1 DEF CheckpointInv, BoundsInv, BoundsMatchStored
<1>. QED
  BY <1>1, Checkpoint, PTL

(* No commit moves a bound inward, unsets synced or loses a point. *)
THEOREM ProgressIsNeverLost == Spec => ProgressIsMonotone
<1>. DEFINE Grows == /\ stored \subseteq stored'
                     /\ oldest # None => oldest' # None /\ oldest' <= oldest
                     /\ newest' >= newest
                     /\ synced => synced'
<1>1. CheckpointInv /\ [Next]_vars => [Grows]_vars
  <2>. SUFFICES ASSUME CheckpointInv, Next PROVE Grows
    OBVIOUS
  <2>. USE HourFacts
  <2>1. /\ oldest \in Nat /\ newest \in Nat
    BY DEF CheckpointInv, TypeOK
  <2>2. ASSUME NEW batch, batch \subseteq Settled, batch # {}, Persist(batch)
        PROVE  Grows
    <3>1. /\ stored' = stored \cup batch /\ synced' = synced
          /\ \A x \in stored' : oldest' <= x
          /\ \A x \in stored' : x <= newest'
          /\ oldest' \in Hours /\ newest' \in Hours /\ oldest' # None /\ newest' # None
      BY <2>2, PersistKeepsBounds DEF CheckpointInv
    <3>2. oldest # None => oldest' <= oldest
      BY <3>1 DEF CheckpointInv, BoundsInv
    <3>3. newest' >= newest
      <4>1. CASE newest = None
        BY <3>1, <4>1
      <4>2. CASE newest # None
        <5>1. newest \in stored'
          BY <3>1, <4>2 DEF CheckpointInv, BoundsInv
        <5>. QED  BY <2>1, <3>1, <5>1
      <4>. QED  BY <4>1, <4>2
    <3>. QED  BY <3>1, <3>2, <3>3
  <2>3. CASE BackfillPersist
    <3>1. bPage \subseteq Settled /\ bPage # {} /\ Persist(bPage)
      BY <2>3 DEF BackfillPersist, CheckpointInv, TypeOK
    <3>. QED  BY <3>1, <2>2
  <2>4. CASE UpdatePersist /\ uPage # {}
    <3>1. uPage \subseteq Settled /\ Persist(uPage)
      BY <2>4 DEF UpdatePersist, CheckpointInv, TypeOK
    <3>. QED  BY <2>4, <3>1, <2>2
  <2>5. CASE stored' = stored /\ oldest' = oldest /\ newest' = newest /\ (synced => synced')
    BY <2>1, <2>5
  <2>6. \/ BackfillPersist
        \/ UpdatePersist /\ uPage # {}
        \/ stored' = stored /\ oldest' = oldest /\ newest' = newest /\ (synced => synced')
    <3>1. CASE BackfillStart \/ BackfillFetch \/ BackfillAbort
      BY <3>1 DEF BackfillStart, BackfillFetch, BackfillAbort, state
    <3>2. CASE BackfillEnd
      BY <3>2 DEF BackfillEnd
    <3>3. CASE UpdateStart \/ UpdateFetch \/ UpdateAbort
      BY <3>3 DEF UpdateStart, UpdateFetch, UpdateAbort, state
    <3>4. CASE UpdatePersist /\ uPage = {}
      BY <3>4 DEF UpdatePersist, state
    <3>5. CASE Crash \/ Relist \/ Advance
      BY <3>5 DEF Crash, Relist, Advance, state
    <3>. QED
      BY <3>1, <3>2, <3>3, <3>4, <3>5 DEF Next, BackfillStep, UpdateStep
  <2>. QED  BY <2>3, <2>4, <2>5, <2>6
<1>. QED
  BY <1>1, Checkpoint, PTL DEF Spec, ProgressIsMonotone

-----------------------------------------------------------------------------
(* No hole between the bounds, when pages are whole. *)

GapInv == BackfillInv /\ UpdateInv /\ NoHole

(* A backward page is its whole window. *)
LEMMA BackwardPageIsWhole ==
  ASSUME WholePages, CheckpointInv
  PROVE  /\ bBefore # None =>
              HistoryBefore(bBefore) = {p \in Settled : bBefore - Step <= p /\ p < bBefore}
         /\ bBefore = None =>
              HistoryBefore(bBefore) = {p \in Settled : now + 1 - Step <= p /\ p <= now}
<1>. USE HourFacts
<1>1. now \in 0..Horizon /\ Settled \subseteq Int
  BY GridAssumption DEF CheckpointInv, TypeOK
<1>2. ASSUME NEW e \in 0..Horizon, e <= now
      PROVE  Page(Between(e + 1 - Step, e)) = {p \in Settled : e + 1 - Step <= p /\ p <= e}
  <2>1. Between(e + 1 - Step, e) = {p \in Settled : e + 1 - Step <= p /\ p <= e}
    <3>1. \A p \in Settled : p <= e => p <= now
      BY <1>1, <1>2
    <3>. QED  BY <3>1 DEF Between
  <2>2. Cardinality({p \in Settled : e + 1 - Step <= p /\ p <= e}) <= Limit
    BY DEF WholePages
  <2>. QED
    BY <2>1, <2>2, ShortWindowIsWhole DEF WholePages
<1>3. CASE bBefore = None
  BY <1>1, <1>2, <1>3 DEF HistoryBefore
<1>4. CASE bBefore # None
  <2>1. bBefore \in 1..now
    BY <1>4 DEF CheckpointInv, BoundsInv, ClockInv
  <2>2. bBefore - 1 \in 0..Horizon /\ bBefore - 1 <= now
    BY <1>1, <2>1
  <2>3. HistoryBefore(bBefore)
          = {p \in Settled : bBefore - 1 + 1 - Step <= p /\ p <= bBefore - 1}
    BY <1>2, <1>4, <2>2 DEF HistoryBefore
  <2>4. \A p \in Settled : (bBefore - 1 + 1 - Step <= p /\ p <= bBefore - 1)
                             <=> (bBefore - Step <= p /\ p < bBefore)
    BY <1>1, <2>1
  <2>. QED
    BY <1>4, <2>3, <2>4
<1>. QED
  BY <1>3, <1>4

(* A forward page starts after the bound and has no gap. *)
LEMMA ForwardPageIsClosed ==
  ASSUME WholePages, CheckpointInv
  PROVE  \A x \in HistoryAfter(uAfter) :
           /\ uAfter < x
           /\ \A p \in Settled : (uAfter < p /\ p <= x) => p \in HistoryAfter(uAfter)
<1>. SUFFICES ASSUME NEW x \in HistoryAfter(uAfter)
              PROVE  /\ uAfter < x
                     /\ \A p \in Settled : (uAfter < p /\ p <= x) => p \in HistoryAfter(uAfter)
  OBVIOUS
<1>. DEFINE W == Between(uAfter + 1, now)
<1>1. Settled \subseteq Int /\ uAfter \in Int /\ now \in Int
  BY GridAssumption DEF CheckpointInv, TypeOK
<1>2. W \subseteq Settled /\ HistoryAfter(uAfter) = Page(W)
  BY DEF Between, HistoryAfter
<1>3. x \in W
  BY <1>2, PageInWindow
<1>4. uAfter < x /\ x <= now /\ x \in Int
  BY <1>1, <1>3 DEF Between
<1>5. ASSUME NEW p \in Settled, uAfter < p, p <= x
      PROVE  p \in Page(W)
  <2>1. p \in W
    BY <1>1, <1>4, <1>5 DEF Between
  <2>. HIDE DEF W
  <2>. QED
    BY <1>2, <1>5, <2>1, OldestFirstPageIsClosed DEF WholePages
<1>. QED
  BY <1>2, <1>4, <1>5

(* The numbers and bounds that the steps below argue about. *)
LEMMA CheckpointFacts ==
  ASSUME CheckpointInv
  PROVE  /\ Settled \subseteq Int /\ stored \subseteq Settled
         /\ bPage \subseteq Settled /\ uPage \subseteq Settled
         /\ now \in Int /\ oldest \in Int /\ newest \in Int /\ bBefore \in Int
         /\ uAfter \in Int /\ bSince \in Int /\ uSince \in Int
         /\ Step \in Int /\ None = 0
         /\ \A x \in stored : oldest <= x /\ x <= newest /\ x <= now /\ 1 <= x
         /\ stored # {} => oldest \in stored /\ newest \in stored
         /\ oldest = None <=> stored = {}
         /\ newest = None <=> stored = {}
<1>1. Settled \subseteq Int /\ Hours \subseteq Int /\ Step \in Int /\ None = 0 /\ None \in Int
  BY GridAssumption, PagingAssumption DEF Hours, None
<1>2. now \in Int /\ oldest \in Int /\ newest \in Int /\ bBefore \in Int
      /\ uAfter \in Int /\ bSince \in Int /\ uSince \in Int
  BY <1>1, GridAssumption DEF CheckpointInv, TypeOK
<1>3. \A x \in stored : x <= now /\ 1 <= x
  BY <1>2 DEF CheckpointInv, ClockInv
<1>4. /\ \A x \in stored : oldest <= x /\ x <= newest
      /\ stored # {} => oldest \in stored /\ newest \in stored
      /\ oldest = None <=> stored = {}
      /\ newest = None <=> stored = {}
  BY DEF CheckpointInv, BoundsInv
<1>5. stored \subseteq Settled /\ bPage \subseteq Settled /\ uPage \subseteq Settled
  BY DEF CheckpointInv, TypeOK
<1>. QED
  BY <1>1, <1>2, <1>3, <1>4, <1>5

(* A committed backward page joins what is stored, whatever the update job has
   committed since the page was asked for. *)
LEMMA BackfillPersistKeepsGaps ==
  ASSUME WholePages, PagesNotCut, CheckpointInv, CheckpointInv', GapInv, BackfillPersist
  PROVE  GapInv'
<1>. USE CheckpointFacts
<1>1. /\ bpc = "answered" /\ bPage # {} /\ Persist(bPage)
      /\ bpc' = "paging" /\ bPage' = {} /\ bBefore' = MinOf(bPage)
      /\ UNCHANGED <<now, active, bSince, upc, uAfter, uPage, uSince>>
  BY DEF BackfillPersist, update
<1>2. /\ stored' = stored \cup bPage
      /\ oldest' \in stored' /\ \A x \in stored' : oldest' <= x
      /\ newest' \in stored' /\ \A x \in stored' : x <= newest'
      /\ oldest' # None /\ newest' # None
  BY <1>1, PersistKeepsBounds DEF CheckpointInv
<1>3. bBefore' # None
  <2>1. bPage \subseteq Hours
    BY HourFacts
  <2>2. MinOf(bPage) \in Hours
    BY <1>1, <2>1, MinOfHours
  <2>. QED  BY <1>1, <2>2, HourFacts
<1>4. oldest' \in Int /\ newest' \in Int
  BY <1>1, <1>2
<1>5. bSince <= now /\ now <= bSince + 1
  BY <1>1 DEF CheckpointInv, ClockInv
<1>6. ASSUME bBefore = None
      PROVE  \E f \in bSince..now : bPage = {p \in Settled : f + 1 - Step <= p /\ p <= f}
  BY <1>1, <1>6 DEF GapInv, BackfillInv, IsPage
<1>7. stored # {} => oldest' <= oldest /\ newest <= newest'
  BY <1>2
<1>8. BackfillInv'
  BY <1>1, <1>3 DEF BackfillInv
<1>9. UpdateInv'
  <2>1. ASSUME upc # "idle", NEW p \in Settled, newest' < p, p <= uAfter
        PROVE  FALSE
    <3>1. CASE stored # {}
      <4>1. newest < p
        BY <1>4, <1>7, <2>1, <3>1
      <4>. QED  BY <2>1, <3>1, <4>1 DEF GapInv, UpdateInv
    <3>2. CASE stored = {}
      <4>1. bBefore = None /\ uAfter = uSince - 1
        BY <2>1, <3>2 DEF CheckpointInv, BoundsInv, GapInv, UpdateInv
      <4>2. PICK f \in bSince..now : bPage = {q \in Settled : f + 1 - Step <= q /\ q <= f}
        BY <1>6, <4>1
      <4>3. uSince <= now
        BY <2>1 DEF CheckpointInv, ClockInv
      <4>4. p <= f
        BY <1>5, <2>1, <4>1, <4>3
      <4>5. newest' \in bPage
        BY <1>2, <3>2
      <4>6. p \in bPage
        BY <1>4, <2>1, <4>2, <4>4, <4>5
      <4>. QED  BY <1>2, <1>4, <2>1, <4>6
    <3>. QED  BY <3>1, <3>2
  <2>2. ASSUME upc # "idle"
        PROVE  oldest' <= uAfter \/ uAfter = uSince - 1
    <3>1. CASE stored = {}
      BY <2>2, <3>1 DEF GapInv, UpdateInv
    <3>2. CASE stored # {}
      BY <1>4, <1>7, <2>2, <3>2 DEF GapInv, UpdateInv
    <3>. QED  BY <3>1, <3>2
  <2>3. upc # "answered" => uPage = {}
    BY DEF GapInv, UpdateInv
  <2>4. upc # "idle" => uAfter <= now
    BY DEF GapInv, UpdateInv
  <2>5. upc = "answered" =>
          \A x \in uPage : /\ uAfter < x
                           /\ \A p \in Settled : (uAfter < p /\ p <= x) => p \in uPage
    BY DEF GapInv, UpdateInv
  <2>. QED
    BY <1>1, <1>2, <2>1, <2>2, <2>3, <2>4, <2>5 DEF UpdateInv
<1>10. NoHole'
  <2>. SUFFICES ASSUME NEW p \in Settled, oldest' <= p, p <= newest'
                PROVE  p \in stored \cup bPage
    BY <1>1, <1>2 DEF NoHole
  <2>1. CASE stored # {} /\ oldest <= p /\ p <= newest
    BY <2>1 DEF GapInv, NoHole
  <2>2. CASE bBefore # None /\ ~(stored # {} /\ oldest <= p /\ p <= newest)
    <3>1. bBefore \in stored /\ bPage = {q \in Settled : bBefore - Step <= q /\ q < bBefore}
      BY <1>1, <2>2 DEF CheckpointInv, BoundsInv, GapInv, BackfillInv, IsPage
    <3>2. newest' \notin bPage
      BY <1>4, <1>7, <3>1
    <3>3. newest' \in stored
      BY <1>2, <3>2
    <3>4. p <= newest /\ p < oldest
      BY <1>4, <2>2, <3>3
    <3>5. oldest' \in bPage
      BY <1>2, <1>4, <3>4
    <3>6. bBefore - Step <= p /\ p < bBefore
      BY <1>4, <3>1, <3>4, <3>5
    <3>. QED  BY <3>1, <3>6
  <2>3. CASE bBefore = None /\ ~(stored # {} /\ oldest <= p /\ p <= newest)
    <3>1. PICK f \in bSince..now : bPage = {q \in Settled : f + 1 - Step <= q /\ q <= f}
      BY <1>6, <2>3
    <3>2. Step >= 2
      BY DEF WholePages
    <3>3. CASE stored = {}
      <4>1. oldest' \in bPage /\ newest' \in bPage
        BY <1>2, <3>3
      <4>. QED  BY <1>4, <3>1, <4>1
    <3>4. CASE stored # {} /\ p < oldest
      <4>1. oldest' \in bPage
        BY <1>2, <1>4, <3>4
      <4>2. ~(bSince < p)
        BY <1>1, <2>3, <3>4 DEF GapInv, BackfillInv
      <4>3. f + 1 - Step <= p /\ p <= f
        BY <1>4, <3>1, <4>1, <4>2
      <4>. QED  BY <3>1, <4>3
    <3>5. CASE stored # {} /\ newest < p
      <4>1. newest' \in bPage
        BY <1>2, <1>4, <3>5
      <4>2. newest >= bSince - 1
        BY <1>1, <2>3, <3>5 DEF GapInv, BackfillInv
      <4>3. f + 1 - Step <= p /\ p <= f
        BY <1>4, <1>5, <3>1, <3>2, <3>5, <4>1, <4>2
      <4>. QED  BY <3>1, <4>3
    <3>. QED  BY <2>3, <3>3, <3>4, <3>5
  <2>. QED  BY <2>1, <2>2, <2>3
<1>. QED
  BY <1>8, <1>9, <1>10 DEF GapInv

(* A committed forward page joins what is stored, whatever the backfill job has
   committed since the page was asked for. *)
LEMMA UpdatePersistKeepsGaps ==
  ASSUME WholePages, PagesNotCut, CheckpointInv, CheckpointInv', GapInv, UpdatePersist, uPage # {}
  PROVE  GapInv'
<1>. USE CheckpointFacts
<1>1. /\ upc = "answered" /\ Persist(uPage)
      /\ upc' = "idle" /\ uPage' = {}
      /\ UNCHANGED <<now, bpc, bBefore, bPage, bSince>>
  BY DEF UpdatePersist, backfill
<1>2. /\ stored' = stored \cup uPage
      /\ oldest' \in stored' /\ \A x \in stored' : oldest' <= x
      /\ newest' \in stored' /\ \A x \in stored' : x <= newest'
      /\ oldest' # None /\ newest' # None
  BY <1>1, PersistKeepsBounds DEF CheckpointInv
<1>3. oldest' \in Int /\ newest' \in Int
  BY <1>1, <1>2
<1>4. uSince <= now /\ now <= uSince + 1
  BY <1>1 DEF CheckpointInv, ClockInv
<1>5. stored # {} => oldest' <= oldest /\ newest <= newest'
  BY <1>2
<1>6. \A x \in uPage : /\ uAfter < x
                       /\ \A p \in Settled : (uAfter < p /\ p <= x) => p \in uPage
  BY <1>1 DEF GapInv, UpdateInv
<1>7. UpdateInv'
  BY <1>1 DEF UpdateInv
<1>8. BackfillInv'
  <2>1. ASSUME bpc # "idle", bBefore = None
        PROVE  /\ newest' >= bSince - 1
               /\ \A p \in Settled : ~(bSince < p /\ p < oldest')
    <3>1. CASE stored # {}
      <4>1. newest >= bSince - 1 /\ \A p \in Settled : ~(bSince < p /\ p < oldest)
        BY <2>1, <3>1 DEF GapInv, BackfillInv
      <4>. QED  BY <1>3, <1>5, <3>1, <4>1
    <3>2. CASE stored = {}
      <4>1. uAfter = uSince - 1
        BY <1>1, <3>2 DEF GapInv, UpdateInv
      <4>2. bSince <= now /\ now <= bSince + 1
        BY <2>1 DEF CheckpointInv, ClockInv
      <4>3. oldest' \in uPage /\ newest' \in uPage
        BY <1>2, <3>2
      <4>4. newest' >= bSince - 1
        BY <1>3, <1>4, <1>6, <4>1, <4>2, <4>3
      <4>5. ASSUME NEW p \in Settled, bSince < p, p < oldest' PROVE FALSE
        <5>1. uAfter < p
          BY <1>4, <4>1, <4>2, <4>5
        <5>2. p \in uPage
          BY <1>3, <1>6, <4>3, <4>5, <5>1
        <5>. QED  BY <1>2, <1>3, <4>5, <5>2
      <4>. QED  BY <4>4, <4>5
    <3>. QED  BY <3>1, <3>2
  <2>2. bpc # "answered" => bPage = {}
    BY DEF GapInv, BackfillInv
  <2>3. (bpc = "answered" /\ bBefore # None) =>
          IsPage({p \in Settled : bBefore - Step <= p /\ p < bBefore})
    BY DEF GapInv, BackfillInv
  <2>4. (bpc = "answered" /\ bBefore = None) =>
          \E f \in bSince..now : IsPage({p \in Settled : f + 1 - Step <= p /\ p <= f})
    BY DEF GapInv, BackfillInv
  <2>. QED
    BY <1>1, <2>1, <2>2, <2>3, <2>4 DEF BackfillInv, IsPage
<1>9. NoHole'
  <2>. SUFFICES ASSUME NEW p \in Settled, oldest' <= p, p <= newest'
                PROVE  p \in stored \cup uPage
    BY <1>1, <1>2 DEF NoHole
  <2>1. CASE stored # {} /\ oldest <= p /\ p <= newest
    BY <2>1 DEF GapInv, NoHole
  <2>2. CASE stored = {}
    <3>1. oldest' \in uPage /\ newest' \in uPage
      BY <1>2, <2>2
    <3>2. uAfter < p
      BY <1>3, <1>6, <3>1
    <3>. QED  BY <1>6, <3>1, <3>2
  <2>3. CASE stored # {} /\ newest < p
    <3>1. newest' \in uPage
      BY <1>2, <1>3, <2>3
    <3>2. ~(newest < p /\ p <= uAfter)
      BY <1>1, <2>3 DEF GapInv, UpdateInv
    <3>3. uAfter < p
      BY <2>3, <3>2
    <3>. QED  BY <1>6, <3>1, <3>3
  <2>4. CASE stored # {} /\ p < oldest
    <3>1. oldest' \in uPage /\ uAfter < oldest'
      BY <1>2, <1>3, <1>6, <2>4
    <3>2. oldest <= uAfter \/ uAfter = uSince - 1
      BY <1>1, <2>4 DEF GapInv, UpdateInv
    <3>3. uAfter = uSince - 1
      BY <1>3, <2>4, <3>1, <3>2
    <3>4. oldest <= now
      BY <2>4
    <3>5. p = oldest'
      BY <1>3, <1>4, <2>4, <3>1, <3>3, <3>4
    <3>. QED  BY <3>1, <3>5
  <2>. QED  BY <2>1, <2>2, <2>3, <2>4
<1>. QED
  BY <1>7, <1>8, <1>9 DEF GapInv

(* No step leaves a settled point out between the bounds, or in reach of a
   backfill that has passed it. *)
THEOREM GapStep ==
  ASSUME WholePages, PagesNotCut, CheckpointInv, CheckpointInv', GapInv, [Next]_vars
  PROVE  GapInv'
<1>. USE CheckpointFacts
<1>1. CASE BackfillStart
  <2>1. BackfillInv'
    BY <1>1 DEF BackfillStart, GapInv, BackfillInv, state
  <2>2. UpdateInv'
    BY <1>1 DEF BackfillStart, GapInv, UpdateInv, state, update
  <2>3. NoHole'
    BY <1>1 DEF BackfillStart, GapInv, NoHole, state
  <2>. QED  BY <2>1, <2>2, <2>3 DEF GapInv
<1>2. CASE BackfillFetch
  <2>1. /\ bpc' = "answered"
        /\ bPage' = HistoryBefore(bBefore) \/ (bPage' = {} /\ ~ErrorsRaised)
        /\ UNCHANGED <<now, oldest, newest, stored, bBefore, bSince>>
    BY <1>2, AnswersAreOfThePage DEF BackfillFetch, state
  <2>2. bSince \in Int /\ bSince <= now
    BY <1>2 DEF BackfillFetch, CheckpointInv, ClockInv
  <2>3. bBefore = None =>
          \E f \in bSince..now : IsPage({p \in Settled : f + 1 - Step <= p /\ p <= f})'
    BY <2>1, <2>2, BackwardPageIsWhole DEF IsPage
  <2>4. bBefore # None => IsPage({p \in Settled : bBefore - Step <= p /\ p < bBefore})'
    BY <2>1, BackwardPageIsWhole DEF IsPage
  <2>5. (bBefore = None /\ oldest # None) =>
          newest >= bSince - 1 /\ \A p \in Settled : ~(bSince < p /\ p < oldest)
    BY <1>2 DEF BackfillFetch, GapInv, BackfillInv
  <2>6. BackfillInv'
    BY <2>1, <2>3, <2>4, <2>5 DEF BackfillInv
  <2>7. UpdateInv' /\ NoHole'
    BY <1>2 DEF BackfillFetch, GapInv, UpdateInv, NoHole, state, update
  <2>. QED  BY <2>6, <2>7 DEF GapInv
<1>3. CASE BackfillPersist
  BY <1>3, BackfillPersistKeepsGaps
<1>4. CASE BackfillEnd
  <2>1. BackfillInv'
    BY <1>4 DEF BackfillEnd, BackfillInv
  <2>2. UpdateInv' /\ NoHole'
    BY <1>4 DEF BackfillEnd, GapInv, UpdateInv, NoHole, update
  <2>. QED  BY <2>1, <2>2 DEF GapInv
<1>5. CASE BackfillAbort
  <2>1. BackfillInv'
    BY <1>5 DEF BackfillAbort, BackfillInv
  <2>2. UpdateInv' /\ NoHole'
    BY <1>5 DEF BackfillAbort, GapInv, UpdateInv, NoHole, state, update
  <2>. QED  BY <2>1, <2>2 DEF GapInv
<1>6. CASE UpdateStart
  <2>1. /\ uAfter' = NextFetch /\ uSince' = now /\ upc' = "asking" /\ uPage' = uPage
        /\ upc = "idle" /\ UNCHANGED <<now, state, backfill>>
    BY <1>6 DEF UpdateStart
  <2>2. uPage = {}
    BY <2>1 DEF GapInv, UpdateInv
  <2>3. CASE newest = None
    <3>1. uAfter' = now - 1 /\ oldest = None
      BY <2>1, <2>3 DEF NextFetch
    <3>. QED  BY <2>1, <2>2, <3>1 DEF GapInv, UpdateInv, BackfillInv, IsPage, NoHole, state, backfill
  <2>4. CASE newest # None
    <3>1. uAfter' = newest /\ oldest # None /\ oldest <= newest /\ newest <= now
      BY <2>1, <2>4 DEF NextFetch
    <3>2. \A p \in Settled : ~(newest < p /\ p <= newest)
      OBVIOUS
    <3>3. UpdateInv'
      BY <2>1, <2>2, <3>1, <3>2 DEF UpdateInv, state
    <3>4. BackfillInv' /\ NoHole'
      BY <2>1 DEF GapInv, BackfillInv, IsPage, NoHole, state, backfill
    <3>. QED  BY <3>3, <3>4 DEF GapInv
  <2>. QED  BY <2>3, <2>4
<1>7. CASE UpdateFetch
  <2>1. /\ upc = "asking" /\ upc' = "answered"
        /\ uPage' = HistoryAfter(uAfter) \/ uPage' = {}
        /\ UNCHANGED <<now, stored, oldest, newest, uAfter, uSince>>
    BY <1>7, AnswersAreOfThePage DEF UpdateFetch, state
  <2>2. \A x \in uPage' : /\ uAfter < x
                          /\ \A p \in Settled : (uAfter < p /\ p <= x) => p \in uPage'
    BY <2>1, ForwardPageIsClosed
  <2>3. UpdateInv'
    BY <2>1, <2>2 DEF GapInv, UpdateInv
  <2>4. BackfillInv' /\ NoHole'
    BY <1>7 DEF UpdateFetch, GapInv, BackfillInv, IsPage, NoHole, state, backfill
  <2>. QED  BY <2>3, <2>4 DEF GapInv
<1>8. CASE UpdatePersist /\ uPage = {}
  <2>1. UpdateInv'
    BY <1>8 DEF UpdatePersist, UpdateInv
  <2>2. BackfillInv' /\ NoHole'
    BY <1>8 DEF UpdatePersist, GapInv, BackfillInv, IsPage, NoHole, state, backfill
  <2>. QED  BY <2>1, <2>2 DEF GapInv
<1>9. CASE UpdatePersist /\ uPage # {}
  BY <1>9, UpdatePersistKeepsGaps
<1>10. CASE UpdateAbort
  <2>1. UpdateInv'
    BY <1>10 DEF UpdateAbort, UpdateInv
  <2>2. BackfillInv' /\ NoHole'
    BY <1>10 DEF UpdateAbort, GapInv, BackfillInv, IsPage, NoHole, state, backfill
  <2>. QED  BY <2>1, <2>2 DEF GapInv
<1>11. CASE Crash
  <2>1. UpdateInv' /\ BackfillInv'
    BY <1>11 DEF Crash, UpdateInv, BackfillInv
  <2>2. NoHole'
    BY <1>11 DEF Crash, GapInv, NoHole, state
  <2>. QED  BY <2>1, <2>2 DEF GapInv
<1>12. CASE Relist
  BY <1>12 DEF Relist, GapInv, BackfillInv, IsPage, UpdateInv, NoHole, state, backfill, update
<1>13. CASE Advance
  <2>1. now' = now + 1 /\ UNCHANGED <<state, backfill, update>>
    BY <1>13 DEF Advance
  <2>2. \A f \in bSince..now : f \in bSince'..now'
    BY <2>1 DEF backfill
  <2>3. BackfillInv'
    <3>1. (bpc = "answered" /\ bBefore = None) =>
            \E f \in bSince'..now' : IsPage({p \in Settled : f + 1 - Step <= p /\ p <= f})
      BY <2>2 DEF GapInv, BackfillInv
    <3>. QED  BY <2>1, <3>1 DEF GapInv, BackfillInv, IsPage, state, backfill
  <2>4. upc # "idle" => uAfter' <= now'
    BY <2>1 DEF GapInv, UpdateInv, update
  <2>5. UpdateInv'
    BY <2>1, <2>4 DEF GapInv, UpdateInv, state, update
  <2>6. NoHole'
    BY <2>1 DEF GapInv, NoHole, state
  <2>. QED  BY <2>3, <2>5, <2>6 DEF GapInv
<1>14. CASE UNCHANGED vars
  BY <1>14 DEF vars, GapInv, BackfillInv, IsPage, UpdateInv, NoHole, state, backfill, update
<1>. QED
  BY <1>1, <1>2, <1>3, <1>4, <1>5, <1>6, <1>7, <1>8, <1>9, <1>10, <1>11, <1>12,
     <1>13, <1>14 DEF Next, BackfillStep, UpdateStep

(* With whole pages that are not cut at an error, the two jobs never leave a settled point unstored between
   the bounds. *)
THEOREM BoundsEncloseNoHole ==
  ASSUME WholePages, PagesNotCut
  PROVE  Spec => []NoHole
<1>1. Init => GapInv
  BY DEF Init, GapInv, BackfillInv, UpdateInv, NoHole
<1>2. CheckpointInv /\ CheckpointInv' /\ GapInv /\ [Next]_vars => GapInv'
  BY GapStep
<1>3. GapInv => NoHole
  BY DEF GapInv
<1>. QED
  BY <1>1, <1>2, <1>3, Checkpoint, PTL DEF Spec

(* If, besides, settlements never pause for longer than a page reaches, a
   backfill that ends has reached the first of them. *)
LEMMA HistoryInvariant ==
  ASSUME WholePages, ErrorsRaised, SteadySettlement
  PROVE  Spec => [](CheckpointInv /\ GapInv /\ SyncedInv)
<1>1. Init => GapInv /\ SyncedInv
  BY DEF Init, GapInv, BackfillInv, UpdateInv, NoHole, SyncedInv
<1>2. CheckpointInv /\ CheckpointInv' /\ GapInv /\ SyncedInv /\ [Next]_vars
        => GapInv' /\ SyncedInv'
  <2>. SUFFICES ASSUME CheckpointInv, CheckpointInv', GapInv, SyncedInv, [Next]_vars
                PROVE  SyncedInv'
    BY GapStep DEF ErrorsRaised, PagesNotCut
  <2>. USE CheckpointFacts
  <2>1. stored' \subseteq Settled /\ oldest' \in Int
    BY GridAssumption DEF CheckpointInv, TypeOK, Hours, None
  <2>2. CASE BackfillEnd /\ ~synced /\ bBefore # None
    <3>1. oldest' = oldest /\ bpc = "answered" /\ bPage = {}
      BY <2>2 DEF BackfillEnd
    <3>2. bBefore \in stored /\ {p \in Settled : bBefore - Step <= p /\ p < bBefore} = {}
      BY <2>2, <3>1 DEF CheckpointInv, BoundsInv, GapInv, BackfillInv, IsPage
    <3>3. \A r \in Settled : ~(r < bBefore)
      BY <3>2 DEF SteadySettlement
    <3>. QED  BY <3>1, <3>2, <3>3 DEF SyncedInv
  <2>3. CASE synced /\ stored' # {}
    <3>1. \A p \in Settled : oldest <= p
      BY <2>3 DEF SyncedInv
    <3>2. stored # {} /\ oldest \in stored
      BY <2>3 DEF CheckpointInv, BoundsInv
    <3>3. oldest \in stored'
      <4>1. CASE stored' = stored
        BY <3>2, <4>1
      <4>2. CASE \E batch : stored' = stored \cup batch
        BY <3>2, <4>2
      <4>3. stored' = stored \/ \E batch : stored' = stored \cup batch
        BY DEF Next, BackfillStep, UpdateStep, BackfillStart, BackfillFetch,
               BackfillPersist, BackfillEnd, BackfillAbort, UpdateStart, UpdateFetch,
               UpdatePersist, UpdateAbort, Crash, Relist, Advance, Persist, state, vars
      <4>. QED  BY <4>1, <4>2, <4>3
    <3>4. oldest' <= oldest
      BY <3>3, CheckpointInv' DEF CheckpointInv, BoundsInv
    <3>5. oldest' \in Settled
      BY <2>1, <2>3, CheckpointInv' DEF CheckpointInv, BoundsInv
    <3>6. oldest' = oldest
      BY <2>1, <3>1, <3>4, <3>5
    <3>. QED  BY <3>1, <3>6 DEF SyncedInv
  <2>4. synced' => synced \/ (BackfillEnd /\ ~synced /\ bBefore # None)
    <3>1. CASE BackfillEnd
      BY <3>1 DEF BackfillEnd
    <3>2. CASE ~BackfillEnd
      <4>1. synced' = synced
        BY <3>2 DEF Next, BackfillStep, UpdateStep, BackfillStart, BackfillFetch,
               BackfillPersist, BackfillAbort, UpdateStart, UpdateFetch, UpdatePersist,
               UpdateAbort, Crash, Relist, Advance, Persist, state, vars
      <4>. QED  BY <4>1
    <3>. QED  BY <3>1, <3>2
  <2>5. synced' => stored' # {}
    BY DEF CheckpointInv, BoundsInv
  <2>6. CASE ~synced'
    BY <2>6 DEF SyncedInv
  <2>. QED  BY <2>2, <2>3, <2>4, <2>5, <2>6
<1>. QED
  BY <1>1, <1>2, Checkpoint, PTL DEF Spec

LEMMA CompleteUpToNewest == CheckpointInv /\ GapInv /\ SyncedInv => HistoryComplete
BY DEF CheckpointInv, BoundsInv, GapInv, NoHole, SyncedInv, HistoryComplete

(* With a driver that raises errors, whole pages and settlements that do not
   pause for longer, a synced contract misses nothing up to its newest stored
   point. *)
THEOREM SyncedHistoryIsComplete ==
  ASSUME WholePages, ErrorsRaised, SteadySettlement
  PROVE  Spec => []HistoryComplete
BY HistoryInvariant, CompleteUpToNewest, PTL

-----------------------------------------------------------------------------
(* The ledger. *)

SoFar == {p \in Settled : p <= now}

(* Committing a batch extends the ledger: the batch is next to what is stored,
   and above it once the contract is synced. *)
LEMMA BatchIsRecorded ==
  ASSUME CheckpointInv, CheckpointInv', GapInv, GapInv', SyncedInv,
         NEW batch, batch \subseteq Settled, stored' = stored \cup batch,
         now' = now, synced' = synced
  PROVE  Ledger!LedgerNext
<1>. USE CheckpointFacts
<1>1. PICK page : page = batch \ stored
  OBVIOUS
<1>2. stored' = stored \cup page
  BY <1>1
<1>3. \A x \in stored' : x <= now
  BY CheckpointInv' DEF CheckpointInv, ClockInv
<1>4. page \in SUBSET (SoFar \ stored)
  BY <1>1, <1>2, <1>3 DEF SoFar
<1>5. \A x \in stored', y \in stored', z \in SoFar : x <= z /\ z <= y => z \in stored'
  <2>. SUFFICES ASSUME NEW x \in stored', NEW y \in stored', NEW z \in SoFar, x <= z, z <= y
                PROVE  z \in stored'
    OBVIOUS
  <2>1. /\ oldest' # None /\ oldest' \in Int /\ newest' \in Int /\ x \in Int /\ y \in Int
        /\ oldest' <= x /\ y <= newest'
    BY CheckpointInv' DEF CheckpointInv, BoundsInv, TypeOK
  <2>2. z \in Settled /\ z \in Int
    BY DEF SoFar
  <2>3. oldest' <= z /\ z <= newest'
    BY <2>1, <2>2
  <2>. QED
    BY <2>1, <2>2, <2>3, GapInv' DEF GapInv, NoHole
<1>6. synced => \A n \in page, o \in stored : o < n
  <2>. SUFFICES ASSUME synced, NEW n \in page, NEW o \in stored
                PROVE  o < n
    OBVIOUS
  <2>1. n \in Settled /\ n \notin stored /\ n \in Int /\ newest \in Int /\ o \in Int /\ o <= newest
    BY <1>1
  <2>2. ~(n <= newest)
    BY <2>1, CompleteUpToNewest DEF HistoryComplete
  <2>. QED
    BY <2>1, <2>2
<1>7. SoFar' = SoFar
  BY DEF SoFar
<1>8. Ledger!Record(page)
  BY <1>2, <1>5, <1>6, <1>7 DEF Ledger!Record, Ledger!Consecutive, SoFar
<1>. QED
  BY <1>4, <1>8 DEF Ledger!LedgerNext, SoFar

(* Every step of the jobs and of the clock is one of the ledger, or none. *)
LEMMA LedgerStep ==
  ASSUME CheckpointInv, CheckpointInv', GapInv, GapInv', SyncedInv, SyncedInv', [Next]_vars
  PROVE  [Ledger!LedgerNext]_(Ledger!ledgerVars)
<1>. USE CheckpointFacts
<1>1. CASE BackfillPersist
  <2>1. bPage \subseteq Settled /\ stored' = stored \cup bPage /\ now' = now /\ synced' = synced
    BY <1>1 DEF BackfillPersist, Persist
  <2>. QED
    BY <2>1, BatchIsRecorded
<1>2. CASE UpdatePersist /\ uPage # {}
  <2>1. uPage \subseteq Settled /\ stored' = stored \cup uPage /\ now' = now /\ synced' = synced
    BY <1>2 DEF UpdatePersist, Persist
  <2>. QED
    BY <2>1, BatchIsRecorded
<1>3. CASE BackfillEnd
  <2>1. UNCHANGED <<now, stored>> /\ (synced' = TRUE \/ synced' = synced)
    BY <1>3 DEF BackfillEnd, CheckpointInv, TypeOK
  <2>2. CASE synced' = TRUE
    <3>1. stored # {} /\ oldest' \in stored /\ \A p \in Settled : oldest' <= p
      BY <2>1, <2>2, CheckpointInv', SyncedInv' DEF CheckpointInv, BoundsInv, SyncedInv
    <3>2. SoFar' = SoFar
      BY <2>1 DEF SoFar
    <3>3. Ledger!Close
      BY <2>1, <2>2, <3>1, <3>2 DEF Ledger!Close, SoFar
    <3>. QED
      BY <3>3 DEF Ledger!LedgerNext
  <2>3. CASE synced' = synced
    BY <2>1, <2>3 DEF Ledger!ledgerVars
  <2>. QED
    BY <2>1, <2>2, <2>3
<1>4. CASE Advance
  <2>1. now' = now + 1 /\ UNCHANGED <<stored, synced>>
    BY <1>4 DEF Advance, state
  <2>2. /\ SoFar \subseteq SoFar' /\ SoFar' \subseteq Int
        /\ \A n \in SoFar' \ SoFar, o \in SoFar : o < n
    BY <2>1 DEF SoFar
  <2>3. Ledger!Settle
    BY <2>1, <2>2 DEF Ledger!Settle, SoFar
  <2>. QED
    BY <2>3 DEF Ledger!LedgerNext
<1>5. CASE UNCHANGED <<now, stored, synced>>
  BY <1>5 DEF Ledger!ledgerVars
<1>6. \/ BackfillPersist \/ (UpdatePersist /\ uPage # {}) \/ BackfillEnd \/ Advance
      \/ UNCHANGED <<now, stored, synced>>
  BY DEF Next, BackfillStep, UpdateStep, BackfillStart, BackfillFetch, BackfillAbort, UpdateStart,
         UpdateFetch, UpdatePersist, UpdateAbort, Crash, Relist, state, vars
<1>. QED
  BY <1>1, <1>2, <1>3, <1>4, <1>5, <1>6

(* With a driver that raises errors, whole pages and settlements that do not
   pause for longer, the two jobs and their checkpoint implement the ledger: whatever they interleave with,
   what is stored is extended at its ends only, and closed when it begins with
   the first settlement. *)
THEOREM SyncImplementsLedger ==
  ASSUME WholePages, ErrorsRaised, SteadySettlement
  PROVE  Spec => ImplementsLedger
<1>1. Init => Ledger!LedgerInit
  <2>. SUFFICES ASSUME Init
                PROVE  Ledger!LedgerInit
    OBVIOUS
  <2>1. {p \in Settled : p <= now} \subseteq Int
    <3>1. Settled \subseteq Int
      BY HourFacts
    <3>. QED
      BY <3>1
  <2>2. stored = {} /\ synced = FALSE
    BY DEF Init
  <2>. QED
    BY <2>1, <2>2 DEF Ledger!LedgerInit
<1>2. ASSUME CheckpointInv /\ GapInv /\ SyncedInv, (CheckpointInv /\ GapInv /\ SyncedInv)',
             [Next]_vars
      PROVE  [Ledger!LedgerNext]_(Ledger!ledgerVars)
  <2>1. CheckpointInv' /\ GapInv' /\ SyncedInv'
    BY <1>2
  <2>. QED
    BY <1>2, <2>1, LedgerStep
<1>. QED
  BY <1>1, <1>2, HistoryInvariant, PTL DEF Spec, ImplementsLedger, Ledger!LedgerSpec

(* A closed ledger begins with the first settlement. *)
LedgerInv ==
  /\ SoFar \subseteq Int /\ stored \subseteq SoFar /\ synced \in BOOLEAN
  /\ Ledger!Consecutive(stored)
  /\ synced => stored # {} /\ \A z \in SoFar : \E x \in stored : x <= z

LEMMA LedgerInvStep ==
  ASSUME LedgerInv, [Ledger!LedgerNext]_(Ledger!ledgerVars)
  PROVE  LedgerInv'
<1>1. CASE Ledger!Settle
  <2>1. /\ SoFar \subseteq SoFar' /\ SoFar' \subseteq Int /\ stored' = stored /\ synced' = synced
        /\ \A n \in SoFar' \ SoFar, o \in SoFar : o < n
    BY <1>1 DEF Ledger!Settle, SoFar
  <2>2. stored \subseteq SoFar /\ SoFar \subseteq Int
    BY DEF LedgerInv
  <2>3. \A x \in stored, y \in stored, z \in SoFar' : x <= z /\ z <= y => z \in stored
    <3>. SUFFICES ASSUME NEW x \in stored, NEW y \in stored, NEW z \in SoFar', x <= z, z <= y
                  PROVE  z \in stored
      OBVIOUS
    <3>1. z \in SoFar
      <4>1. y \in Int /\ z \in Int /\ y \in SoFar
        BY <2>1, <2>2
      <4>. QED
        BY <2>1, <4>1
    <3>. QED
      BY <3>1 DEF LedgerInv, Ledger!Consecutive, SoFar
  <2>4. synced => stored # {} /\ \A z \in SoFar' : \E x \in stored : x <= z
    <3>. SUFFICES ASSUME synced, NEW z \in SoFar'
                  PROVE  stored # {} /\ \E x \in stored : x <= z
      BY DEF LedgerInv
    <3>1. PICK x \in stored : x \in SoFar
      BY <2>2 DEF LedgerInv
    <3>2. x \in Int /\ z \in Int
      BY <2>1, <2>2, <3>1
    <3>. QED
      BY <2>1, <3>1, <3>2 DEF LedgerInv
  <2>. QED
    BY <2>1, <2>2, <2>3, <2>4 DEF LedgerInv, Ledger!Consecutive, SoFar
<1>2. CASE Ledger!Close
  <2>1. /\ SoFar' = SoFar /\ stored' = stored /\ synced' = TRUE /\ stored # {}
        /\ \A z \in SoFar : \E x \in stored : x <= z
    BY <1>2 DEF Ledger!Close, SoFar
  <2>2. Ledger!Consecutive(stored)'
    BY <2>1 DEF LedgerInv, Ledger!Consecutive, SoFar
  <2>. QED
    BY <2>1, <2>2 DEF LedgerInv
<1>3. ASSUME NEW page \in SUBSET (SoFar \ stored), Ledger!Record(page)
      PROVE  LedgerInv'
  <2>1. SoFar' = SoFar /\ stored' = stored \cup page /\ synced' = synced
    BY <1>3 DEF Ledger!Record, SoFar
  <2>2. Ledger!Consecutive(stored)'
    BY <1>3, <2>1 DEF Ledger!Record, Ledger!Consecutive, SoFar
  <2>3. synced' => stored' # {} /\ \A z \in SoFar' : \E x \in stored' : x <= z
    BY <2>1 DEF LedgerInv
  <2>. QED
    BY <2>1, <2>2, <2>3 DEF LedgerInv
<1>4. CASE UNCHANGED Ledger!ledgerVars
  <2>1. SoFar' = SoFar /\ stored' = stored /\ synced' = synced
    BY <1>4 DEF Ledger!ledgerVars, SoFar
  <2>2. Ledger!Consecutive(stored)'
    BY <2>1 DEF LedgerInv, Ledger!Consecutive, SoFar
  <2>. QED
    BY <2>1, <2>2 DEF LedgerInv
<1>. QED
  BY <1>1, <1>2, <1>3, <1>4 DEF Ledger!LedgerNext, SoFar

(* What the ledger is worth: an implementation of it has no gap, and up to its
   newest entry a closed ledger misses nothing. *)
THEOREM LedgerMissesNothing == Ledger!LedgerSpec => []Ledger!NothingMissing
<1>1. Ledger!LedgerInit => LedgerInv
  BY DEF Ledger!LedgerInit, LedgerInv, Ledger!Consecutive, SoFar
<1>2. LedgerInv => Ledger!NothingMissing
  <2>. SUFFICES ASSUME LedgerInv
                PROVE  Ledger!NothingMissing
    OBVIOUS
  <2>1. ASSUME synced, NEW y \in stored, NEW z \in SoFar, z <= y
        PROVE  z \in stored
    BY <2>1 DEF LedgerInv, Ledger!Consecutive, SoFar
  <2>. QED
    BY <2>1 DEF LedgerInv, Ledger!NothingMissing, SoFar
<1>. QED
  BY <1>1, <1>2, LedgerInvStep, PTL DEF Ledger!LedgerSpec
==============================================================================
